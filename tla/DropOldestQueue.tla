-------------------------- MODULE DropOldestQueue --------------------------
(***************************************************************************)
(* What a user of the trace buffer is promised, without pointers, memory   *)
(* ports or latency: a bounded first-in first-out queue that never refuses *)
(* an element and forgets the oldest one when it has no room left.         *)
(***************************************************************************)
EXTENDS Integers, Sequences

CONSTANTS Element,    \* what the queue stores
          Nothing,    \* "no element was popped yet"
          Capacity    \* elements the queue can hold

VARIABLES queue,      \* the stored elements, oldest first
          popped      \* the element handed out by the latest pop

vars == <<queue, popped>>

Init == queue = << >> /\ popped = Nothing

(* The queue after an element is stored, the oldest making room for it. *)
Stored(q, e) == Append(IF Len(q) = Capacity THEN Tail(q) ELSE q, e)

Push(e) == queue' = Stored(queue, e) /\ UNCHANGED popped

Pop == /\ queue # << >>
       /\ popped' = Head(queue)
       /\ queue' = Tail(queue)

(* The two in one clock cycle: the pop makes room before the push lands. *)
PushPop(e) == /\ queue # << >>
              /\ popped' = Head(queue)
              /\ queue' = Append(Tail(queue), e)

Next == Pop \/ \E e \in Element : Push(e) \/ PushPop(e)

Spec == Init /\ [][Next]_vars
============================================================================
