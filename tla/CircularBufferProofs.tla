------------------------ MODULE CircularBufferProofs ------------------------
(***************************************************************************)
(* Proofs about CircularBuffer for every size, element set and client: the *)
(* pointers never expose a word nothing was stored in, first() returns the *)
(* head, and the buffer implements DropOldestQueue.                        *)
(***************************************************************************)
EXTENDS CircularBuffer, SequenceTheorems, TLAPS

Word == Element \cup {Undefined}
Written(m, t, e) == [m EXCEPT ![t] = e]

-----------------------------------------------------------------------------
(* Lemmas about the wrapping pointers. *)

LEMMA SuccType == \A p \in Slots : Succ(p) \in Slots /\ Succ(p) # p
  BY SizeAssumption DEF Slots, Succ

LEMMA SuccInjective == \A p, q \in Slots : Succ(p) = Succ(q) => p = q
  BY SizeAssumption DEF Slots, Succ

LEMMA ZeroSlot == 0 \in Slots
  BY SizeAssumption DEF Slots

LEMMA DistanceType ==
  \A h, t \in Slots : /\ Distance(h, t) \in 0 .. Size - 1
                      /\ Distance(h, t) = 0 <=> h = t
                      /\ Distance(h, t) = Size - 1 <=> Succ(t) = h
  BY SizeAssumption DEF Slots, Distance, Succ

LEMMA WordOfType ==
  \A h, t \in Slots : \A i \in 1 .. Distance(h, t) :
     WordOf(h, i) \in Slots /\ WordOf(h, i) # t
  BY SizeAssumption DEF Slots, Distance, WordOf

-----------------------------------------------------------------------------
(* Lemmas about the sequence of stored elements. *)

LEMMA ContentsType ==
  ASSUME NEW S, NEW h \in Slots, NEW t \in Slots, NEW m,
         \A i \in 1 .. Distance(h, t) : m[WordOf(h, i)] \in S
  PROVE  /\ ContentsOf(h, t, m) \in Seq(S)
         /\ Len(ContentsOf(h, t, m)) = Distance(h, t)
         /\ \A i \in 1 .. Distance(h, t) : ContentsOf(h, t, m)[i] = m[WordOf(h, i)]
<1>1. Distance(h, t) \in Nat
  BY DistanceType, SizeAssumption
<1>2. ContentsOf(h, t, m) \in [1 .. Distance(h, t) -> S]
  BY DEF ContentsOf
<1>3. ContentsOf(h, t, m) \in Seq(S)
  BY <1>1, <1>2
<1>4. Len(ContentsOf(h, t, m)) = Distance(h, t)
  BY <1>1, <1>2, <1>3, LenProperties
<1>5. QED
  BY <1>3, <1>4 DEF ContentsOf

(* Storing at the tail, when that leaves a free word, appends. *)
LEMMA StoreAppends ==
  ASSUME NEW S, NEW h \in Slots, NEW t \in Slots, NEW m \in [Slots -> Word],
         NEW e \in S, Succ(t) # h,
         ContentsOf(h, t, m) \in Seq(S), Len(ContentsOf(h, t, m)) = Distance(h, t)
  PROVE  ContentsOf(h, Succ(t), Written(m, t, e)) = Append(ContentsOf(h, t, m), e)
<1> DEFINE n == Written(m, t, e)
           old == ContentsOf(h, t, m)
           new == ContentsOf(h, Succ(t), n)
<1>1. Distance(h, Succ(t)) = Distance(h, t) + 1 /\ Distance(h, t) \in Nat
  BY SizeAssumption DEF Slots, Succ, Distance
<1>2. WordOf(h, Distance(h, t) + 1) = t
  BY SizeAssumption DEF Slots, Distance, WordOf
<1>3. \A i \in 1 .. Distance(h, t) : n[WordOf(h, i)] = old[i]
  BY WordOfType DEF ContentsOf, Written
<1>4. \A i \in 1 .. Distance(h, t) : old[i] \in S
  BY ElementOfSeq
<1>5. \A i \in 1 .. Distance(h, Succ(t)) :
         n[WordOf(h, i)] = Append(old, e)[i] /\ n[WordOf(h, i)] \in S
  <2> SUFFICES ASSUME NEW i \in 1 .. Distance(h, t) + 1
               PROVE  n[WordOf(h, i)] = Append(old, e)[i] /\ n[WordOf(h, i)] \in S
    BY <1>1
  <2>1. CASE i = Distance(h, t) + 1
    <3>1. n[WordOf(h, i)] = e
      BY <2>1, <1>2 DEF Written
    <3>2. Append(old, e)[i] = e
      BY <2>1, AppendProperties
    <3>3. QED
      BY <3>1, <3>2
  <2>2. CASE i # Distance(h, t) + 1
    <3>1. i \in 1 .. Distance(h, t)
      BY <2>2, <1>1
    <3>2. Append(old, e)[i] = old[i]
      BY <3>1, AppendProperties
    <3>3. QED
      BY <3>1, <3>2, <1>3, <1>4
  <2>3. QED
    BY <2>1, <2>2
<1>6. new \in Seq(S) /\ Len(new) = Distance(h, t) + 1
      /\ \A i \in 1 .. Distance(h, t) + 1 : new[i] = n[WordOf(h, i)]
  <2>1. \A i \in 1 .. Distance(h, Succ(t)) : n[WordOf(h, i)] \in S
    BY <1>5
  <2>2. Succ(t) \in Slots
    BY SuccType
  <2>3. /\ new \in Seq(S)
        /\ Len(new) = Distance(h, Succ(t))
        /\ \A i \in 1 .. Distance(h, Succ(t)) : new[i] = n[WordOf(h, i)]
    <3> HIDE DEF n
    <3>1. QED
      BY ONLY <2>1, <2>2, ContentsType, h \in Slots
  <2>4. QED
    BY <1>1, <2>3
<1>7. Append(old, e) \in Seq(S) /\ Len(Append(old, e)) = Distance(h, t) + 1
  BY AppendProperties
<1>8. QED
  <2> HIDE DEF n, old, new
  <2>1. \A i \in 1 .. Len(new) : new[i] = Append(old, e)[i]
    BY <1>1, <1>5, <1>6
  <2>2. new = Append(old, e)
    BY <2>1, <1>6, <1>7, SeqEqual
  <2>3. QED
    BY <2>2 DEF new, old, n

(* Advancing the head of a buffer that is not empty removes the oldest. *)
LEMMA AdvanceRemoves ==
  ASSUME NEW S, NEW h \in Slots, NEW t \in Slots, NEW m, h # t,
         ContentsOf(h, t, m) \in Seq(S), Len(ContentsOf(h, t, m)) = Distance(h, t)
  PROVE  /\ ContentsOf(h, t, m) # << >>
         /\ Head(ContentsOf(h, t, m)) = m[h]
         /\ m[h] \in S
         /\ ContentsOf(Succ(h), t, m) = Tail(ContentsOf(h, t, m))
<1> DEFINE old == ContentsOf(h, t, m)
           new == ContentsOf(Succ(h), t, m)
<1>1. /\ Distance(h, t) \in Nat \ {0}
      /\ Distance(Succ(h), t) = Distance(h, t) - 1
      /\ \A i \in 1 .. Distance(h, t) - 1 : WordOf(Succ(h), i) = WordOf(h, i + 1)
      /\ WordOf(h, 1) = h
  BY SizeAssumption DEF Slots, Succ, Distance, WordOf
<1>2. old # << >>
  BY <1>1, EmptySeq
<1>3. \A i \in 1 .. Distance(h, t) : old[i] = m[WordOf(h, i)] /\ old[i] \in S
  BY ElementOfSeq DEF ContentsOf
<1>4. Head(old) = m[h] /\ m[h] \in S
  BY <1>1, <1>2, <1>3
<1>5. /\ Tail(old) \in Seq(S)
      /\ Len(Tail(old)) = Distance(h, t) - 1
      /\ \A i \in 1 .. Distance(h, t) - 1 : Tail(old)[i] = old[i + 1]
  BY <1>2, HeadTailProperties
<1>6. \A i \in 1 .. Distance(Succ(h), t) :
         m[WordOf(Succ(h), i)] = old[i + 1] /\ m[WordOf(Succ(h), i)] \in S
  BY <1>1, <1>3
<1>7. /\ new \in Seq(S)
      /\ Len(new) = Distance(h, t) - 1
      /\ \A i \in 1 .. Distance(h, t) - 1 : new[i] = m[WordOf(Succ(h), i)]
  BY <1>1, <1>6, ContentsType, SuccType
<1>8. QED
  <2> HIDE DEF old, new
  <2>1. \A i \in 1 .. Len(new) : new[i] = Tail(old)[i]
    BY <1>1, <1>5, <1>6, <1>7
  <2>2. new = Tail(old)
    BY <2>1, <1>5, <1>7, SeqEqual
  <2>3. QED
    BY <2>2, <1>2, <1>4 DEF new, old

-----------------------------------------------------------------------------
(* Type correctness of the pointers, the RAM and the output register. *)
THEOREM TypeCorrect == Spec => []TypeOK
<1>1. Init => TypeOK
  BY ZeroSlot DEF Init, TypeOK
<1>2. TypeOK /\ [Next]_vars => TypeOK'
  <2> SUFFICES ASSUME TypeOK, [Next]_vars PROVE TypeOK'
    OBVIOUS
  <2> USE SuccType DEF TypeOK, incHead, NextHead, PortB, NextDelay, IsEmpty
  <2>1. CASE Idle \/ UNCHANGED vars
    BY <2>1 DEF Idle, vars
  <2>2. CASE Deq
    BY <2>2 DEF Deq, deq
  <2>3. ASSUME NEW e \in Element, Enq(e) PROVE TypeOK'
    BY <2>3 DEF Enq, enq
  <2>4. ASSUME NEW e \in Element, EnqDeq(e) PROVE TypeOK'
    BY <2>4 DEF EnqDeq, enq, deq, HoldsOne
  <2>5. QED
    BY <2>1, <2>2, <2>3, <2>4 DEF Next
<1>3. QED
  BY <1>1, <1>2, PTL DEF Spec

(***************************************************************************)
(* first() returns the head word, unless the last element was exchanged in *)
(* the previous cycle (the RAM read of mkBRAMCircularBuffer's incHead).    *)
(***************************************************************************)
THEOREM FirstReturnsHead == Spec => []FirstIsHead
<1>1. Init => FirstIsHead
  BY DEF Init, FirstIsHead, notEmpty, IsEmpty
<1>2. TypeOK /\ FirstIsHead /\ [Next]_vars => FirstIsHead'
  <2> SUFFICES ASSUME TypeOK, FirstIsHead, [Next]_vars PROVE FirstIsHead'
    OBVIOUS
  <2> USE DEF TypeOK, FirstIsHead, notEmpty, incHead, NextHead, PortB, NextDelay, IsEmpty
  <2>1. CASE Idle \/ UNCHANGED vars
    BY <2>1 DEF Idle, vars
  <2>2. CASE Deq
    BY <2>2 DEF Deq, deq
  <2>3. ASSUME NEW e \in Element, Enq(e) PROVE FirstIsHead'
    <3>1. IsEmpty \/ headPtr' # tailPtr
      BY <2>3, SizeAssumption DEF Enq, IsFull, Slots, Succ
    <3>2. bram'[headPtr'] = bram[headPtr'] \/ IsEmpty
      BY <2>3, <3>1 DEF Enq, enq
    <3>3. readData' = bram[headPtr'] /\ readDelay' = IsEmpty
      BY <2>3 DEF Enq
    <3>4. QED
      BY <3>2, <3>3
  <2>4. ASSUME NEW e \in Element, EnqDeq(e) PROVE FirstIsHead'
    BY <2>4, SuccType DEF EnqDeq, enq, deq, HoldsOne
  <2>5. QED
    BY <2>1, <2>2, <2>3, <2>4 DEF Next
<1>3. QED
  BY <1>1, <1>2, TypeCorrect, PTL DEF Spec

(***************************************************************************)
(* A buffer with two elements or more never hides them behind readDelay.   *)
(***************************************************************************)
THEOREM DelayIsShort == Spec => []DelayOnlyWhenJustFilled
<1>1. Init => DelayOnlyWhenJustFilled
  BY DEF Init, DelayOnlyWhenJustFilled
<1>2. TypeOK /\ [Next]_vars => (DelayOnlyWhenJustFilled => DelayOnlyWhenJustFilled')
  <2> SUFFICES ASSUME TypeOK, [Next]_vars, DelayOnlyWhenJustFilled, readDelay'
               PROVE  Count' <= 1
    BY DEF DelayOnlyWhenJustFilled
  <2>1. CASE UNCHANGED vars
    BY <2>1 DEF vars, DelayOnlyWhenJustFilled, Count
  <2>2. CASE Next
    <3>1. tailPtr = headPtr /\ headPtr' = headPtr
          /\ (tailPtr' = tailPtr \/ tailPtr' = Succ(tailPtr))
      BY <2>2, SuccType DEF Next, Idle, Enq, Deq, EnqDeq, incHead, NextDelay, IsEmpty,
                  NextHead, IsFull, deq, notEmpty, TypeOK
    <3>2. QED
      BY <3>1, SizeAssumption DEF TypeOK, Count, Distance, Slots, Succ
  <2>3. QED
    BY <2>1, <2>2
<1>3. QED
  BY <1>1, <1>2, TypeCorrect, PTL DEF Spec

(***************************************************************************)
(* While almostFull is low, AlmostFullGap words are free: one more than    *)
(* the elements that may still arrive.                                     *)
(***************************************************************************)
THEOREM RoomBeforeAlmostFull == Spec => []AlmostFullLeavesRoom
<1>1. TypeOK => AlmostFullLeavesRoom
  BY SizeAssumption, GapAssumption
     DEF TypeOK, AlmostFullLeavesRoom, almostFull, IsEmpty, Count, Distance, Slots
<1>2. QED
  BY <1>1, TypeCorrect, PTL

(***************************************************************************)
(* The storage invariant: what lies between the pointers was enqueued.     *)
(***************************************************************************)
StoredOK == Contents \in Seq(Element)
StorageInv == TypeOK /\ StoredOK

LEMMA ContentsLength ==
  ASSUME NEW h \in Slots, NEW t \in Slots, NEW m \in [Slots -> Word]
  PROVE  Len(ContentsOf(h, t, m)) = Distance(h, t)
<1>1. \A i \in 1 .. Distance(h, t) : m[WordOf(h, i)] \in Word
  BY WordOfType
<1>2. /\ ContentsOf(h, t, m) \in Seq(Word)
      /\ Len(ContentsOf(h, t, m)) = Distance(h, t)
      /\ \A i \in 1 .. Distance(h, t) : ContentsOf(h, t, m)[i] = m[WordOf(h, i)]
  BY ONLY <1>1, ContentsType, h \in Slots, t \in Slots
<1>3. QED
  BY <1>2

(* What each cycle does to the stored elements. *)
LEMMA EnqEffect ==
  ASSUME StorageInv, NEW e \in Element, Enq(e)
  PROVE  /\ Contents' = Append(IF Len(Contents) = Size - 1 THEN Tail(Contents) ELSE Contents, e)
         /\ Contents' \in Seq(Element)
<1>1. /\ headPtr \in Slots /\ tailPtr \in Slots /\ bram \in [Slots -> Word]
      /\ tailPtr' = Succ(tailPtr)
      /\ bram' = Written(bram, tailPtr, e)
      /\ headPtr' = IF IsFull THEN Succ(headPtr) ELSE headPtr
  BY DEF StorageInv, TypeOK, Enq, enq, incHead, NextHead, Word, Written
<1>2. Contents \in Seq(Element) /\ Len(Contents) = Distance(headPtr, tailPtr)
  BY <1>1, ContentsLength DEF StorageInv, StoredOK, Contents
<1>3. IsFull <=> Len(Contents) = Size - 1
  BY <1>1, <1>2, DistanceType DEF IsFull
<1>4. CASE ~IsFull
  <2>1. Contents' = Append(Contents, e)
    BY <1>1, <1>2, <1>4, StoreAppends DEF IsFull, Contents
  <2>2. QED
    BY <2>1, <1>2, <1>3, <1>4, AppendProperties
<1>5. CASE IsFull
  <2>1. headPtr # tailPtr /\ Succ(headPtr) \in Slots /\ Succ(tailPtr) # Succ(headPtr)
    BY <1>1, <1>5, SuccType DEF IsFull
  <2>2. /\ Contents # << >>
        /\ ContentsOf(Succ(headPtr), tailPtr, bram) = Tail(Contents)
    BY <1>1, <1>2, <2>1, AdvanceRemoves DEF Contents
  <2>3. Tail(Contents) \in Seq(Element)
    BY <1>2, <2>2, HeadTailProperties
  <2>4. Len(ContentsOf(Succ(headPtr), tailPtr, bram)) = Distance(Succ(headPtr), tailPtr)
    BY <1>1, <2>1, ContentsLength
  <2>5. ContentsOf(Succ(headPtr), Succ(tailPtr), Written(bram, tailPtr, e))
          = Append(ContentsOf(Succ(headPtr), tailPtr, bram), e)
    <3> DEFINE h == Succ(headPtr)
    <3>1. h \in Slots /\ Succ(tailPtr) # h /\ ContentsOf(h, tailPtr, bram) \in Seq(Element)
          /\ Len(ContentsOf(h, tailPtr, bram)) = Distance(h, tailPtr)
      BY <2>1, <2>2, <2>3, <2>4
    <3> HIDE DEF h
    <3>2. ContentsOf(h, Succ(tailPtr), Written(bram, tailPtr, e))
            = Append(ContentsOf(h, tailPtr, bram), e)
      BY <1>1, <3>1, StoreAppends
    <3>3. QED
      BY <3>2 DEF h
  <2>6. QED
    <3>1. Contents' = Append(Tail(Contents), e)
      BY <1>1, <1>5, <2>2, <2>5 DEF Contents
    <3>2. QED
      BY <3>1, <1>3, <1>5, <2>3, AppendProperties
<1>6. QED
  BY <1>4, <1>5

LEMMA DeqEffect ==
  ASSUME StorageInv, Deq
  PROVE  /\ Contents # << >>
         /\ Head(Contents) = bram[headPtr]
         /\ Contents' = Tail(Contents)
         /\ Contents' \in Seq(Element)
<1>1. /\ headPtr \in Slots /\ tailPtr \in Slots /\ bram \in [Slots -> Word]
      /\ headPtr # tailPtr
      /\ tailPtr' = tailPtr /\ bram' = bram /\ headPtr' = Succ(headPtr)
  BY DEF StorageInv, TypeOK, Deq, deq, notEmpty, IsEmpty, incHead, NextHead, Word
<1>2. Contents \in Seq(Element) /\ Len(Contents) = Distance(headPtr, tailPtr)
  BY <1>1, ContentsLength DEF StorageInv, StoredOK, Contents
<1>3. /\ Contents # << >>
      /\ Head(Contents) = bram[headPtr]
      /\ Contents' = Tail(Contents)
  BY <1>1, <1>2, AdvanceRemoves DEF Contents
<1>4. QED
  BY <1>2, <1>3, HeadTailProperties

LEMMA EnqDeqEffect ==
  ASSUME StorageInv, NEW e \in Element, EnqDeq(e)
  PROVE  /\ Contents # << >>
         /\ Head(Contents) = bram[headPtr]
         /\ Contents' = Append(Tail(Contents), e)
         /\ Contents' \in Seq(Element)
<1>1. /\ headPtr \in Slots /\ tailPtr \in Slots /\ bram \in [Slots -> Word]
      /\ headPtr # tailPtr
      /\ tailPtr' = Succ(tailPtr) /\ headPtr' = Succ(headPtr)
      /\ bram' = Written(bram, tailPtr, e)
  BY DEF StorageInv, TypeOK, EnqDeq, enq, deq, notEmpty, IsEmpty, incHead, NextHead, Word, Written
<1>2. Contents \in Seq(Element) /\ Len(Contents) = Distance(headPtr, tailPtr)
  BY <1>1, ContentsLength DEF StorageInv, StoredOK, Contents
<1>3. /\ Contents # << >>
      /\ Head(Contents) = bram[headPtr]
      /\ ContentsOf(Succ(headPtr), tailPtr, bram) = Tail(Contents)
  BY <1>1, <1>2, AdvanceRemoves DEF Contents
<1>4. Tail(Contents) \in Seq(Element)
  BY <1>2, <1>3, HeadTailProperties
<1>5. Succ(headPtr) \in Slots /\ Succ(tailPtr) # Succ(headPtr)
  BY <1>1, SuccType, SuccInjective
<1>6. Contents' = Append(Tail(Contents), e)
  <2>1. Len(ContentsOf(Succ(headPtr), tailPtr, bram)) = Distance(Succ(headPtr), tailPtr)
    BY <1>1, <1>5, ContentsLength
  <2>2. ContentsOf(Succ(headPtr), Succ(tailPtr), Written(bram, tailPtr, e))
          = Append(ContentsOf(Succ(headPtr), tailPtr, bram), e)
    <3> DEFINE h == Succ(headPtr)
    <3>1. h \in Slots /\ Succ(tailPtr) # h /\ ContentsOf(h, tailPtr, bram) \in Seq(Element)
          /\ Len(ContentsOf(h, tailPtr, bram)) = Distance(h, tailPtr)
      BY <1>3, <1>4, <1>5, <2>1
    <3> HIDE DEF h
    <3>2. ContentsOf(h, Succ(tailPtr), Written(bram, tailPtr, e))
            = Append(ContentsOf(h, tailPtr, bram), e)
      BY <1>1, <3>1, StoreAppends
    <3>3. QED
      BY <3>2 DEF h
  <2>3. QED
    BY <1>1, <1>3, <2>2 DEF Contents
<1>7. QED
  BY <1>3, <1>4, <1>6, AppendProperties

LEMMA UnchangedEffect ==
  ASSUME StorageInv, Idle \/ UNCHANGED vars
  PROVE  Contents' = Contents /\ popped' = popped
  BY DEF Idle, vars, incHead, NextHead, Contents

(* The pointers stay within the buffer and the words between them hold    *)
(* elements, whatever clients call in which cycle.                         *)
THEOREM StorageCorrect == Spec => []StorageInv
<1>1. Init => StoredOK
  <2> SUFFICES ASSUME Init PROVE StoredOK
    OBVIOUS
  <2>1. headPtr \in Slots /\ tailPtr \in Slots /\ Distance(headPtr, tailPtr) = 0
    BY ZeroSlot, DistanceType DEF Init
  <2>2. QED
    BY <2>1, ContentsType DEF Contents, StoredOK
<1>2. StorageInv /\ [Next]_vars => StoredOK'
  <2> SUFFICES ASSUME StorageInv, [Next]_vars PROVE StoredOK'
    OBVIOUS
  <2>1. CASE Idle \/ UNCHANGED vars
    BY <2>1, UnchangedEffect DEF StorageInv, StoredOK
  <2>2. CASE Deq
    BY <2>2, DeqEffect DEF StoredOK
  <2>3. ASSUME NEW e \in Element, Enq(e) PROVE StoredOK'
    BY <2>3, EnqEffect DEF StoredOK
  <2>4. ASSUME NEW e \in Element, EnqDeq(e) PROVE StoredOK'
    BY <2>4, EnqDeqEffect DEF StoredOK
  <2>5. QED
    BY <2>1, <2>2, <2>3, <2>4 DEF Next
<1>3. QED
  BY <1>1, <1>2, TypeCorrect, PTL DEF Spec, StorageInv

(* No reachable pointer state exposes a word that was never enqueued. *)
THEOREM NoUnwrittenWord == Spec => []StoredWordsWritten
<1>1. StorageInv => StoredWordsWritten
  <2> SUFFICES ASSUME StorageInv, NEW i \in 1 .. Count PROVE Contents[i] \in Element
    BY DEF StoredWordsWritten
  <2>1. Len(Contents) = Count
    BY ContentsLength DEF StorageInv, TypeOK, Contents, Count, Word
  <2>2. QED
    BY <2>1, ElementOfSeq DEF StorageInv, StoredOK
<1>2. QED
  BY <1>1, StorageCorrect, PTL

(***************************************************************************)
(* Refinement: with a client that never exchanges the last element, every  *)
(* behaviour of the buffer is one of DropOldestQueue.  FirstIsHead is what *)
(* makes the element a Deq hands out the head of the abstract queue.       *)
(***************************************************************************)
NeverSwapped == swapped = FALSE

LEMMA NoSwap == RefillLast = FALSE => (Spec => []NeverSwapped)
<1> SUFFICES ASSUME RefillLast = FALSE PROVE Spec => []NeverSwapped
  OBVIOUS
<1>1. Init => NeverSwapped
  BY DEF Init, NeverSwapped
<1>2. NeverSwapped /\ [Next]_vars => NeverSwapped'
  BY DEF NeverSwapped, Next, Idle, Enq, Deq, EnqDeq, vars, HoldsOne
<1>3. QED
  BY <1>1, <1>2, PTL DEF Spec

(* A client that never enqueues in the cycle in which it dequeues the last *)
(* element sees the queue that drops its oldest element: what is stored,   *)
(* what an enqueue into a full buffer drops and what each dequeue returns. *)
THEOREM BufferImplementsQueue == RefillLast = FALSE => (Spec => ImplementsQueue)
<1> SUFFICES ASSUME RefillLast = FALSE PROVE Spec => Promise!Spec
  BY DEF ImplementsQueue
<1>1. Init => Promise!Init
  <2> SUFFICES ASSUME Init PROVE Contents = << >> /\ popped = Undefined
    BY DEF Promise!Init
  <2>1. headPtr \in Slots /\ tailPtr \in Slots /\ Distance(headPtr, tailPtr) = 0
    BY ZeroSlot, DistanceType DEF Init
  <2>2. Contents \in Seq({}) /\ Len(Contents) = 0
    BY <2>1, ContentsType DEF Contents
  <2>3. QED
    BY <2>2, EmptySeq DEF Init
<1>2. StorageInv /\ FirstIsHead /\ NeverSwapped /\ [Next]_vars => [Promise!Next]_(Promise!vars)
  <2> SUFFICES ASSUME StorageInv, FirstIsHead, NeverSwapped, [Next]_vars
               PROVE  [Promise!Next]_(Promise!vars)
    OBVIOUS
  <2> USE DEF Promise!Next, Promise!vars
  <2>1. CASE Idle \/ UNCHANGED vars
    BY <2>1, UnchangedEffect
  <2>2. CASE Deq
    <3>1. popped' = Head(Contents)
      BY <2>2, DeqEffect DEF Deq, deq, FirstIsHead, NeverSwapped
    <3>2. QED
      BY <3>1, <2>2, DeqEffect DEF Promise!Pop
  <2>3. ASSUME NEW e \in Element, Enq(e) PROVE Promise!Push(e)
    <3>1. popped' = popped
      BY <2>3 DEF Enq
    <3>2. QED
      BY <3>1, <2>3, EnqEffect DEF Promise!Push, Promise!Stored
  <2>4. ASSUME NEW e \in Element, EnqDeq(e) PROVE Promise!PushPop(e)
    <3>1. popped' = Head(Contents)
      BY <2>4, EnqDeqEffect DEF EnqDeq, deq, FirstIsHead, NeverSwapped
    <3>2. QED
      BY <3>1, <2>4, EnqDeqEffect DEF Promise!PushPop
  <2>5. QED
    BY <2>1, <2>2, <2>3, <2>4 DEF Next
<1>3. QED
  BY <1>1, <1>2, StorageCorrect, FirstReturnsHead, NoSwap, PTL DEF Spec, Promise!Spec
=============================================================================
