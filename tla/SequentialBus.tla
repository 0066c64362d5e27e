---------------------------- MODULE SequentialBus ----------------------------
(***************************************************************************)
(* What the simulated bus promises the masters of the processor: requests  *)
(* take effect one at a time, in the order in which they were accepted,    *)
(* and their replies come back in that order.  What the memories hold is   *)
(* part of the promise; what other devices answer is not.                  *)
(***************************************************************************)
EXTENDS Sequences

CONSTANTS Memories, Protected, Requests, NoData

VARIABLES
  started,      \* the bus has been set up
  devices,      \* the devices that are on the bus
  memory,       \* the bytes of every memory
  pending,      \* requests accepted and not yet performed
  answers       \* replies not yet taken

vars == <<started, devices, memory, pending, answers>>

Reply(r, status, d) == [request |-> r, status |-> status, data |-> d]

Allowed(r) ==
  /\ started
  /\ r.dev \in devices
  /\ r.acctype = "store" => r.dev \notin Protected

Stored(m, r) ==
  [m EXCEPT ![r.dev] =
     [l \in DOMAIN @ |-> IF l \in r.byteenable THEN r.data[l] ELSE @[l]]]

Loaded(m, r) == [l \in r.byteenable |-> m[r.dev][l]]

Setup ==
  /\ ~started /\ started' = TRUE
  /\ UNCHANGED <<devices, memory, pending, answers>>

Accept(r) ==
  /\ pending' = Append(pending, r)
  /\ UNCHANGED <<started, devices, memory, answers>>

Perform(r, status, d, m) ==
  /\ pending # <<>> /\ r = Head(pending)
  /\ pending' = Tail(pending)
  /\ answers' = Append(answers, Reply(r, status, d))
  /\ memory' = m
  /\ UNCHANGED <<started, devices>>

Refuse(r) == ~Allowed(r) /\ Perform(r, "ERROR", NoData, memory)

DoStore(r) ==
  /\ Allowed(r) /\ r.acctype = "store"
  /\ Perform(r, "SUCCESS", NoData,
             IF r.dev \in Memories THEN Stored(memory, r) ELSE memory)

DoFetch(r) ==
  /\ Allowed(r) /\ r.acctype = "fetch"
  /\ Perform(r, "SUCCESS",
             IF r.dev \in Memories THEN Loaded(memory, r) ELSE NoData, memory)

Deliver ==
  /\ answers # <<>>
  /\ answers' = Tail(answers)
  /\ UNCHANGED <<started, devices, memory, pending>>

Init ==
  /\ started = FALSE /\ pending = <<>> /\ answers = <<>>

Next ==
  \/ Setup \/ Deliver
  \/ \E r \in Requests : Accept(r) \/ Refuse(r) \/ DoStore(r) \/ DoFetch(r)

Spec == Init /\ [][Next]_vars
=============================================================================
