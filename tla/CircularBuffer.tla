--------------------------- MODULE CircularBuffer ---------------------------
(***************************************************************************)
(* mkBRAMCircularBuffer, one step per clock cycle.  The module is a        *)
(* rule that runs every cycle (incHead) and the methods enq, deq and first *)
(* that clients may call in it.  The element memory is a dual-port block   *)
(* RAM: port a writes at tailPtr, port b reads the address it was given in *)
(* the cycle before, and a read that meets a write returns the old word.   *)
(* That latency is what the module's readDelay register is there to hide.  *)
(***************************************************************************)
EXTENDS Integers, Sequences

CONSTANTS Element,        \* the values clients enqueue
          Undefined,      \* a word of the RAM nothing was written to
          Size,           \* number of words, 2^log2size in the code
          AlmostFullGap,  \* 32 in the code
          RefillLast      \* may a client enqueue in the very cycle in which
                          \* the last stored element is dequeued?

ASSUME SizeAssumption == Size \in Nat /\ Size > 2
ASSUME GapAssumption  == AlmostFullGap \in 1 .. Size
ASSUME UndefinedAssumption == Undefined \notin Element
ASSUME RefillAssumption == RefillLast \in BOOLEAN

VARIABLES headPtr, tailPtr, bram, readDelay,
          readData,   \* what port b of the RAM outputs in this cycle
          popped,     \* history: what the latest deq gave its caller
          swapped     \* history: the previous cycle dequeued the last element
                      \* and enqueued another

vars == <<headPtr, tailPtr, bram, readDelay, readData, popped, swapped>>

Slots == 0 .. Size - 1

(* mutant: a pointer one bit too wide *)
SuccUnwrapped(p) == IF p = Size THEN 0 ELSE p + 1

(* Pointers are log2size bits wide: both operations wrap. *)
Succ(p) == IF p = Size - 1 THEN 0 ELSE p + 1
Distance(from, to) == IF to >= from THEN to - from ELSE to - from + Size

IsFull  == Succ(tailPtr) = headPtr
IsEmpty == tailPtr = headPtr

notEmpty   == ~IsEmpty /\ ~readDelay
(* mutant: the space left is taken from the wrong side *)
almostFullReversed == Distance(headPtr, tailPtr) < AlmostFullGap /\ ~IsEmpty
almostFull == Distance(tailPtr, headPtr) < AlmostFullGap /\ ~IsEmpty

-----------------------------------------------------------------------------
Init == /\ headPtr = 0
        /\ tailPtr = 0
        /\ bram = [s \in Slots |-> Undefined]
        /\ readDelay = FALSE
        /\ readData = Undefined
        /\ popped = Undefined
        /\ swapped = FALSE

(* mutant: an enqueue into a full buffer does not drop the oldest *)
NextHeadNoDrop(doEnq, doDeq) == IF doDeq THEN Succ(headPtr) ELSE headPtr

(* Where the head is after a cycle: a dequeue advances it, and so does an  *)
(* enqueue into a full buffer, once even when both happen.                 *)
NextHead(doEnq, doDeq) ==
  IF doDeq \/ (doEnq /\ IsFull) THEN Succ(headPtr) ELSE headPtr

(* What port b will output next: it reads before port a writes. *)
PortB(addr) == bram[addr]

(* mutant: the read latency is hidden for ever *)
NextDelaySticky == readDelay \/ IsEmpty

(* readDelay is set for the cycle after one that began empty. *)
NextDelay == IsEmpty

(* Rule incHead, given which of the two pulse wires were sent. *)
incHead(doEnq, doDeq) ==
  /\ headPtr' = NextHead(doEnq, doDeq)
  /\ readData' = PortB(NextHead(doEnq, doDeq))
  /\ tailPtr' = IF doEnq THEN Succ(tailPtr) ELSE tailPtr
  /\ readDelay' = NextDelay

(* Method enq writes the word at the tail; it has no condition. *)
enq(e) == bram' = [bram EXCEPT ![tailPtr] = e]

(* Methods first and deq, which have the condition notEmpty. *)
deq == notEmpty /\ popped' = readData

-----------------------------------------------------------------------------
(* The four things that can happen in a clock cycle. *)
Idle == incHead(FALSE, FALSE) /\ swapped' = FALSE /\ UNCHANGED <<bram, popped>>

Enq(e) == /\ enq(e)
          /\ incHead(TRUE, FALSE)
          /\ swapped' = FALSE
          /\ UNCHANGED popped

Deq == /\ deq
       /\ incHead(FALSE, TRUE)
       /\ swapped' = FALSE
       /\ UNCHANGED bram

HoldsOne == Succ(headPtr) = tailPtr

EnqDeq(e) == /\ HoldsOne => RefillLast
             /\ enq(e)
             /\ deq
             /\ incHead(TRUE, TRUE)
             /\ swapped' = HoldsOne

Next == Idle \/ Deq \/ \E e \in Element : Enq(e) \/ EnqDeq(e)

(* The clock does not stop. *)
Spec == Init /\ [][Next]_vars /\ WF_vars(Next)

-----------------------------------------------------------------------------
(* Type invariant. *)
TypeOK == /\ headPtr \in Slots
          /\ tailPtr \in Slots
          /\ bram \in [Slots -> Element \cup {Undefined}]
          /\ readDelay \in BOOLEAN
          /\ readData \in Element \cup {Undefined}
          /\ popped \in Element \cup {Undefined}
          /\ swapped \in BOOLEAN

Count == Distance(headPtr, tailPtr)

(* The word that the i-th oldest element is in when the head is at h. *)
WordOf(h, i) == IF h + i - 1 < Size THEN h + i - 1 ELSE h + i - 1 - Size

(* The elements a memory m holds from head h up to tail t, oldest first. *)
ContentsOf(h, t, m) == [i \in 1 .. Distance(h, t) |-> m[WordOf(h, i)]]
Contents == ContentsOf(headPtr, tailPtr, bram)

(* Every word between head and tail was written by an enq: pointers that   *)
(* overtake one another, or a drop that moves the wrong pointer, expose a  *)
(* word nothing was stored in.                                             *)
StoredWordsWritten == \A i \in 1 .. Count : Contents[i] \in Element

(* first() returns the head word whenever it can be called, except in the  *)
(* cycle after the last element was exchanged for a new one (the RAM read  *)
(* of that cycle raced the write).                                         *)
FirstIsHead == notEmpty /\ ~swapped => readData = bram[headPtr]

(* The unqualified promise of the module's header (lines 34-36): data      *)
(* enqueued into an empty buffer takes two cycles, "but at all other times *)
(* the head is available immediately whenever the buffer is non-empty".    *)
HeadAvailable == notEmpty => readData = bram[headPtr]

(* The read latency is only ever visible on a buffer that was empty a      *)
(* cycle ago: a buffer that holds two elements or more never hides them.   *)
DelayOnlyWhenJustFilled == readDelay => Count <= 1

(* As long as almostFull is not raised there is room for AlmostFullGap - 1 *)
(* further elements: the records of instructions still in the pipeline     *)
(* when the debug unit reacts to it (rule stopTracePipe) are not dropped.  *)
AlmostFullLeavesRoom == ~almostFull => Count + AlmostFullGap <= Size

(* The buffer is the abstract queue: what is stored, what is dropped and   *)
(* what each dequeue hands to its caller.                                  *)
Promise == INSTANCE DropOldestQueue
             WITH Nothing <- Undefined, Capacity <- Size - 1, queue <- Contents
ImplementsQueue == Promise!Spec

(* Liveness: what is stored does become visible to the consumer. *)
StoredBecomesVisible == ~IsEmpty ~> notEmpty
=============================================================================
