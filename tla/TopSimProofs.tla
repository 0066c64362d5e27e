---------------------------- MODULE TopSimProofs ----------------------------
(***************************************************************************)
(* Proofs about TopSim for every set of devices, configurations and        *)
(* requests: at most one request is between mkPISMTLM and the devices, and *)
(* therefore the bus performs requests one after another, in order; and    *)
(* what the processor reads from the UART is what was typed, and what      *)
(* hosts and the debug unit read from the socket what the other sent.      *)
(***************************************************************************)
EXTENDS TopSim, SequenceTheorems, TLAPS

-----------------------------------------------------------------------------
(* Lemmas about sequences of at most two elements. *)

LEMMA Join ==
  ASSUME NEW x, NEW y
  PROVE  /\ <<>> \o <<>> = <<>> /\ <<>> \o <<x>> = <<x>> /\ <<x>> \o <<>> = <<x>>
         /\ <<x>> \o <<y>> = <<x, y>>
         /\ Append(<<>>, x) = <<x>> /\ Append(<<x>>, y) = <<x, y>>
<1> DEFINE S == {x, y}
<1>1. <<>> \in Seq(S) /\ <<x>> \in Seq(S) /\ <<y>> \in Seq(S) /\ <<x, y>> \in Seq(S)
  OBVIOUS
<1>2. <<>> \o <<>> = <<>>
  OBVIOUS
<1>3. <<>> \o <<x>> = <<x>> /\ <<x>> \o <<>> = <<x>>
  OBVIOUS
<1>4. <<x>> \o <<y>> = <<x, y>>
  <2>1. /\ <<x>> \o <<y>> \in Seq(S) /\ Len(<<x>> \o <<y>>) = 2
        /\ (<<x>> \o <<y>>)[1] = x /\ (<<x>> \o <<y>>)[2] = y
    BY <1>1, ConcatProperties
  <2>2. \A i \in 1 .. Len(<<x>> \o <<y>>) : (<<x>> \o <<y>>)[i] = <<x, y>>[i]
    <3> TAKE i \in 1 .. Len(<<x>> \o <<y>>)
    <3>1. i = 1 \/ i = 2
      BY <2>1
    <3> QED
      BY <2>1, <3>1
  <2>3. Len(<<x>> \o <<y>>) = Len(<<x, y>>)
    BY <2>1
  <2> HIDE DEF S
  <2> QED
    BY <1>1, <2>1, <2>2, <2>3, SeqEqual
<1>5. Append(<<>>, x) = <<x>>
  OBVIOUS
<1>6. Append(<<x>>, y) = <<x, y>>
  <2>1. /\ Append(<<x>>, y) \in Seq(S) /\ Len(Append(<<x>>, y)) = 2
        /\ Append(<<x>>, y)[1] = x /\ Append(<<x>>, y)[2] = y
    BY <1>1
  <2>2. \A i \in 1 .. Len(Append(<<x>>, y)) : (Append(<<x>>, y))[i] = <<x, y>>[i]
    <3> TAKE i \in 1 .. Len(Append(<<x>>, y))
    <3>1. i = 1 \/ i = 2
      BY <2>1
    <3> QED
      BY <2>1, <3>1
  <2>3. Len(Append(<<x>>, y)) = Len(<<x, y>>)
    BY <2>1
  <2> HIDE DEF S
  <2> QED
    BY <1>1, <2>1, <2>2, <2>3, SeqEqual
<1> QED
  BY <1>2, <1>3, <1>4, <1>5, <1>6

LEMMA Ends ==
  ASSUME NEW x, NEW y
  PROVE  /\ Head(<<x>>) = x /\ Tail(<<x>>) = <<>> /\ <<x>> # <<>>
         /\ Head(<<x, y>>) = x /\ Tail(<<x, y>>) = <<y>> /\ <<x, y>> # <<>>
  OBVIOUS

Shown(s) == [i \in DOMAIN s |-> Visible(s[i])]

LEMMA ShownOne ==
  ASSUME NEW x
  PROVE  Shown(<<>>) = <<>> /\ Shown(<<x>>) = <<Visible(x)>>
  BY DEF Shown

LEMMA InOne ==
  ASSUME NEW S, NEW f \in AtMostOne(S)
  PROVE  f = <<>> \/ \E x \in S : f = <<x>>
  BY DEF AtMostOne

LEMMA OneIn ==
  ASSUME NEW S, NEW x \in S
  PROVE  <<x>> \in AtMostOne(S) /\ <<>> \in AtMostOne(S)
  BY DEF AtMostOne

-----------------------------------------------------------------------------
(***************************************************************************)
(* The inductive invariant.  A fetch that is awaited is either still to be *)
(* put or held by its device, which alone is in the response FIFO; while   *)
(* none is awaited the devices are idle and only a store can be to be put. *)
(***************************************************************************)
Idle == pism_fifo = <<>> /\ \A d \in Devices : reqfifo[d] = <<>>

Asked(r) ==
  \/ pismRequests = <<r>> /\ Idle
  \/ /\ pismRequests = <<>> /\ pism_fifo = <<r.dev>>
     /\ \A d \in Devices : reqfifo[d] = IF d = r.dev THEN <<r>> ELSE <<>>

Serial ==
  /\ pismRequests # <<>> => pism_addr_valid(Head(pismRequests))
  /\ Awaited = <<>> =>
       Idle /\ (pismRequests # <<>> => Head(pismRequests).acctype = Store)
  /\ Awaited # <<>> =>
       pism_addr_valid(Head(Awaited)) /\ Asked(Head(Awaited))

Shapes ==
  /\ config \in Configs
  /\ leftData \in Seq(Requests) /\ rightData \in Seq(Requests)
  /\ tlmRequests \in AtMostOne(Requests) /\ pismRequests \in AtMostOne(Requests)
  /\ incompleteResps \in AtMostOne(Resp)
  /\ completeResps = <<>> \/ completeResps = <<Head(completeResps)>>
  /\ data = [d \in Timed |-> data[d]]
  /\ reqfifo = [d \in Devices |-> reqfifo[d]]

IInv == Shapes /\ Serial

LEMMA Frames ==
  ASSUME UNCHANGED <<config, pism_initialized, pism_fifo, reqfifo, pismRequests,
                     incompleteResps>>, Serial
  PROVE  Serial'
  BY DEF Serial, Awaited, Idle, Asked, pism_addr_valid

LEMMA AwaitedOne ==
  ASSUME NEW x, incompleteResps = <<x>>
  PROVE  Awaited = IF x.status = "SUCCESS" /\ x.request.acctype = Fetch
                   THEN <<x.request>> ELSE <<>>
  BY Ends DEF Awaited

LEMMA AwaitedNone == incompleteResps = <<>> => Awaited = <<>>
  BY DEF Awaited

(* At the start nothing is asked for. *)
THEOREM InitIInv == Init => IInv
<1> SUFFICES ASSUME Init PROVE IInv
  OBVIOUS
<1>1. Shapes
  BY DEF Init, PismInit, Shapes, AtMostOne
<1>2. Serial
  BY DEF Init, PismInit, Serial, Awaited, Idle
<1> QED
  BY <1>1, <1>2 DEF IInv

(* Nothing but the rules between the merge and the devices touches what    *)
(* the invariant speaks of.                                                *)
LEMMA OutsideSteps ==
  ASSUME IInv,
         \/ \E r \in Requests : Request(r)
         \/ outputFromLeft \/ outputFromRight \/ get
         \/ tickPISM \/ putIrqs \/ Connect \/ Type \/ HangUp
         \/ DebugRules \/ Hosts \/ UNCHANGED vars
  PROVE  IInv'
<1> USE DEF IInv
<1>1. ASSUME NEW r \in Requests, Request(r) PROVE IInv'
  <2>1. UNCHANGED <<pismVars, tlmVars>>
    BY <1>1 DEF Request
  <2>2. leftData' \in Seq(Requests) /\ rightData' \in Seq(Requests)
    <3>1. leftData' = leftData \/ leftData' = Append(leftData, r)
      BY <1>1 DEF Request
    <3>2. rightData' = rightData \/ rightData' = Append(rightData, r)
      BY <1>1 DEF Request
    <3>3. leftData \in Seq(Requests) /\ rightData \in Seq(Requests)
      BY DEF Shapes
    <3> HIDE DEF IInv
    <3>4. Append(leftData, r) \in Seq(Requests) /\ Append(rightData, r) \in Seq(Requests)
      BY <1>1, <3>3, AppendProperties
    <3> QED
      BY <3>1, <3>2, <3>3, <3>4
  <2> QED
    BY <2>1, <2>2, Frames DEF Shapes, pismVars, tlmVars
<1>2. ASSUME outputFromLeft \/ outputFromRight PROVE IInv'
  <2>1. UNCHANGED <<pismVars, pismRequests, incompleteResps, completeResps>>
    BY <1>2 DEF outputFromLeft, outputFromRight
  <2>2. /\ tlmRequests' \in AtMostOne(Requests)
        /\ leftData' \in Seq(Requests) /\ rightData' \in Seq(Requests)
    <3>1. CASE outputFromLeft
      <4>1. leftData # <<>> /\ tlmRequests = <<>>
        BY <3>1 DEF outputFromLeft, source, NotFull
      <4>2. Head(leftData) \in Requests /\ Tail(leftData) \in Seq(Requests)
        BY <4>1 DEF Shapes
      <4> QED
        BY <3>1, <4>1, <4>2, Join, OneIn DEF outputFromLeft, Shapes
    <3>2. CASE outputFromRight
      <4>1. rightData # <<>> /\ tlmRequests = <<>>
        BY <3>2 DEF outputFromRight, source, NotFull
      <4>2. Head(rightData) \in Requests /\ Tail(rightData) \in Seq(Requests)
        BY <4>1 DEF Shapes
      <4> QED
        BY <3>2, <4>1, <4>2, Join, OneIn DEF outputFromRight, Shapes
    <3> QED
      BY <1>2, <3>1, <3>2
  <2> QED
    BY <2>1, <2>2, Frames DEF Shapes, pismVars
<1>3. ASSUME get PROVE IInv'
  <2>1. /\ UNCHANGED <<pismVars, masterVars, tlmRequests, pismRequests, incompleteResps>>
        /\ completeResps' = Tail(completeResps) /\ completeResps # <<>>
    BY <1>3 DEF get
  <2>2. completeResps' = <<>>
    BY <2>1, Ends DEF Shapes
  <2> QED
    BY <2>1, <2>2, Frames DEF Shapes, pismVars, masterVars
<1>4. ASSUME tickPISM \/ putIrqs \/ Connect \/ Type \/ HangUp \/ DebugRules \/ Hosts
             \/ UNCHANGED vars
      PROVE  IInv'
  <2>1. UNCHANGED <<config, pism_initialized, pism_fifo, reqfifo, data,
                    masterVars, tlmVars>>
    BY <1>4 DEF tickPISM, pism_cycle_tick, putIrqs, pism_interrupt_get, Connect,
                Type, HangUp, OtherEnd, Around, DebugRules, Hosts, Beside, vars, pismVars
  <2> QED
    BY <2>1, Frames DEF Shapes, masterVars, tlmVars
<1> QED
  BY <1>1, <1>2, <1>3, <1>4

(* Before PISM is set up, nothing valid is asked for. *)
LEMMA SetupStep ==
  ASSUME IInv, setupPISMMemory
  PROVE  IInv'
<1>1. /\ ~pism_initialized
      /\ UNCHANGED <<config, pism_fifo, reqfifo, data, masterVars, tlmVars>>
  BY DEF setupPISMMemory, pism_init, Around
<1>2. Awaited = <<>> /\ pismRequests = <<>> /\ Idle
  BY <1>1 DEF IInv, Serial, pism_addr_valid
<1>3. Awaited' = <<>> /\ pismRequests' = <<>> /\ Idle'
  BY <1>1, <1>2 DEF Awaited, Idle, tlmVars
<1> QED
  BY <1>1, <1>3 DEF IInv, Shapes, Serial, masterVars, tlmVars

(* The rule that translates waits until the last request has its reply, so *)
(* that a fetch finds the devices idle.                                    *)
LEMMA TranslateStep ==
  ASSUME IInv, translateReqAndPrepareResp
  PROVE  IInv'
<1>1. PICK r \in Requests : tlmRequests = <<r>>
  BY InOne DEF IInv, Shapes, translateReqAndPrepareResp
<1>2. /\ Head(tlmRequests) = r /\ tlmRequests' = <<>>
      /\ pismRequests = <<>> /\ incompleteResps = <<>>
      /\ UNCHANGED <<config, pism_initialized, pism_fifo, reqfifo, data,
                     masterVars, completeResps>>
  BY <1>1, Ends DEF translateReqAndPrepareResp, NotFull, pismVars
<1>3. Idle /\ Idle'
  BY <1>2, AwaitedNone DEF IInv, Serial, Idle
<1>4. CASE pism_addr_valid(r)
  <2>1. /\ pismRequests' = <<r>>
        /\ incompleteResps' = <<Reply(r, "SUCCESS", <<>>)>>
    BY <1>2, <1>4, Join DEF translateReqAndPrepareResp
  <2>2. Reply(r, "SUCCESS", <<>>) \in Resp
    BY <1>1 DEF Reply, Resp
  <2>3. Shapes'
    BY <1>1, <1>2, <2>1, <2>2, OneIn DEF IInv, Shapes, masterVars
  <2>4. pism_addr_valid(r)'
    BY <1>2, <1>4 DEF pism_addr_valid
  <2>5. Awaited' = IF r.acctype = Fetch THEN <<r>> ELSE <<>>
    BY <2>1, Ends DEF Awaited, Reply
  <2>6. r.acctype = Fetch \/ r.acctype = Store
    BY <1>1, PismAssumption
  <2>7. Serial'
    <3>1. Head(pismRequests') = r /\ (Awaited' # <<>> => Head(Awaited') = r)
      BY <2>1, <2>5, Ends
    <3>2. Asked(r)'
      BY <1>3, <2>1 DEF Asked
    <3> QED
      BY <1>3, <2>4, <2>5, <2>6, <3>1, <3>2 DEF Serial
  <2> QED
    BY <2>3, <2>7 DEF IInv
<1>5. CASE ~pism_addr_valid(r)
  <2>1. /\ pismRequests' = <<>>
        /\ incompleteResps' = <<Reply(r, "ERROR", <<>>)>>
    BY <1>2, <1>5, Join DEF translateReqAndPrepareResp
  <2>2. Reply(r, "ERROR", <<>>) \in Resp
    BY <1>1 DEF Reply, Resp
  <2>3. Shapes'
    BY <1>1, <1>2, <2>1, <2>2, OneIn DEF IInv, Shapes, masterVars
  <2>4. Awaited' = <<>>
    BY <2>1, Ends DEF Awaited, Reply
  <2> QED
    BY <1>3, <2>1, <2>3, <2>4 DEF IInv, Serial
<1> QED
  BY <1>4, <1>5

(* What is put is the awaited fetch, or a store while none is awaited.     *)
LEMMA PutIs ==
  ASSUME IInv, NEW r \in Requests, pismRequests = <<r>>
  PROVE  /\ pism_addr_valid(r)
         /\ r.acctype = Store => Awaited = <<>> /\ Idle
         /\ r.acctype = Fetch => Awaited # <<>> /\ Head(Awaited) = r /\ Idle
<1>1. Head(pismRequests) = r /\ pismRequests # <<>>
  BY Ends
<1>2. Awaited # <<>> => Head(Awaited).acctype = Fetch
  BY Ends DEF Awaited
<1>3. Awaited # <<>> => Head(Awaited) = r /\ Idle
  BY <1>1, Ends DEF IInv, Serial, Asked
<1> QED
  BY <1>1, <1>2, <1>3 DEF IInv, Serial, Fetch, Store

LEMMA PutStep ==
  ASSUME IInv, putReq
  PROVE  IInv'
<1>1. PICK r \in Requests : pismRequests = <<r>>
  BY InOne DEF IInv, Shapes, putReq
<1>2. /\ Head(pismRequests) = r /\ pismRequests' = <<>>
      /\ UNCHANGED <<config, pism_initialized, masterVars, tlmRequests,
                     incompleteResps, completeResps>>
  BY <1>1, Ends DEF putReq, pism_request_put
<1>3. Awaited' = Awaited
  BY <1>2 DEF Awaited
<1>4. pism_request_put(r)
  BY <1>2 DEF putReq
<1>5. r.acctype = Fetch \/ r.acctype = Store
  BY PismAssumption
<1>6. CASE r.acctype = Store
  <2>1. UNCHANGED <<reqfifo, pism_fifo>> /\ DeviceStore(r)
    BY <1>4, <1>6 DEF pism_request_put
  <2>2. Awaited = <<>> /\ Idle /\ Idle'
    BY <1>1, <1>6, <2>1, PutIs DEF Idle
  <2>3. data' = [d \in Timed |-> data'[d]]
    <3>1. CASE r.dev \in Drams
      BY <2>1, <3>1 DEF DeviceStore, IInv, Shapes
    <3>2. CASE r.dev \notin Drams
      <4>1. r.dev \in {"uart", "sdcard"}
        BY <1>1, <3>2, PutIs, PismAssumption
           DEF pism_addr_valid, IInv, Shapes, Devices, Timed
      <4>2. data' = data \/ \E v : data' = [data EXCEPT !["sdcard"] = v]
        BY <2>1, <3>2, <4>1 DEF DeviceStore
      <4> QED
        BY <4>2 DEF IInv, Shapes
    <3> QED
      BY <3>1, <3>2
  <2>4. Shapes'
    BY <1>2, <2>1, <2>3 DEF IInv, Shapes, masterVars, AtMostOne
  <2> QED
    BY <1>2, <1>3, <2>2, <2>4 DEF IInv, Serial
<1>7. CASE r.acctype = Fetch
  <2>1. /\ reqfifo' = [reqfifo EXCEPT ![r.dev] = <<r>>]
        /\ pism_fifo' = Append(pism_fifo, r.dev) /\ UNCHANGED data
    BY <1>4, <1>7 DEF pism_request_put, Fetch, Store
  <2>2. Awaited # <<>> /\ Head(Awaited) = r /\ Idle /\ pism_addr_valid(r)
    BY <1>1, <1>7, PutIs
  <2>3. Asked(r)'
    BY <1>2, <2>1, <2>2, Join DEF Idle, Asked, IInv, Shapes
  <2>4. pism_addr_valid(r)'
    BY <1>2, <2>2 DEF pism_addr_valid
  <2>5. Shapes'
    BY <1>2, <2>1 DEF IInv, Shapes, masterVars, AtMostOne
  <2> QED
    BY <1>2, <1>3, <2>2, <2>3, <2>4, <2>5 DEF IInv, Serial
<1> QED
  BY <1>5, <1>6, <1>7

(* A reply is taken out of the FIFO of replies to come. *)
LEMMA CompleteMoves ==
  ASSUME IInv, NEW d, Complete(d), incompleteResps # <<>>
  PROVE  \E x \in Resp :
           /\ incompleteResps = <<x>> /\ Head(incompleteResps) = x
           /\ incompleteResps' = <<>> /\ completeResps = <<>>
           /\ completeResps' = <<[x EXCEPT !.data = d]>>
           /\ UNCHANGED <<masterVars, tlmRequests, pismRequests, console>>
<1>1. PICK x \in Resp : incompleteResps = <<x>>
  BY InOne DEF IInv, Shapes
<1>2. completeResps = <<>> /\ Head(incompleteResps) = x /\ Tail(incompleteResps) = <<>>
  BY <1>1, Ends DEF Complete, NotFull
<1> QED
  BY <1>1, <1>2, Join DEF Complete

LEMMA CompleteStep ==
  ASSUME IInv, completeErrorResp \/ completeWriteResp
  PROVE  IInv'
<1>1. incompleteResps # <<>> /\ Complete(<<>>) /\ UNCHANGED pismVars
  BY DEF completeErrorResp, completeWriteResp
<1>2. PICK x \in Resp :
           /\ incompleteResps = <<x>> /\ Head(incompleteResps) = x
           /\ incompleteResps' = <<>> /\ completeResps = <<>>
           /\ completeResps' = <<[x EXCEPT !.data = <<>>]>>
           /\ UNCHANGED <<masterVars, tlmRequests, pismRequests, console>>
  BY <1>1, CompleteMoves
<1>3. Awaited = <<>> /\ Awaited' = <<>>
  BY <1>2 DEF completeErrorResp, completeWriteResp, Awaited, Fetch, Store
<1>4. Shapes'
  BY <1>1, <1>2, Ends, OneIn DEF IInv, Shapes, masterVars, pismVars, AtMostOne
<1>5. Serial'
  BY <1>1, <1>2, <1>3 DEF IInv, Serial, pism_addr_valid, Idle, pismVars
<1> QED
  BY <1>4, <1>5 DEF IInv

(* The reply that is ready is the one to the awaited fetch. *)
LEMMA ReadIs ==
  ASSUME IInv, completeReadResp
  PROVE  \E x \in Resp :
           /\ incompleteResps = <<x>> /\ incompleteResps' = <<>>
           /\ completeResps = <<>>
           /\ completeResps' = <<[x EXCEPT !.data = Answer]>>
           /\ x.status = "SUCCESS" /\ x.request.acctype = Fetch
           /\ Awaited = <<x.request>>
           /\ pism_addr_valid(x.request) /\ x.request.dev \in Devices
           /\ pismRequests = <<>> /\ pism_fifo = <<x.request.dev>>
           /\ \A d \in Devices :
                reqfifo[d] = IF d = x.request.dev THEN <<x.request>> ELSE <<>>
           /\ UNCHANGED <<masterVars, tlmRequests, pismRequests, console>>
<1>1. incompleteResps # <<>> /\ Complete(Answer) /\ pism_fifo # <<>>
  BY DEF completeReadResp, pism_response_ready
<1>2. PICK x \in Resp :
           /\ incompleteResps = <<x>> /\ Head(incompleteResps) = x
           /\ incompleteResps' = <<>> /\ completeResps = <<>>
           /\ completeResps' = <<[x EXCEPT !.data = Answer]>>
           /\ UNCHANGED <<masterVars, tlmRequests, pismRequests, console>>
  BY <1>1, CompleteMoves
<1>3. x.status = "SUCCESS" /\ x.request.acctype = Fetch
  BY <1>2 DEF completeReadResp
<1>4. Awaited = <<x.request>> /\ Awaited # <<>> /\ Head(Awaited) = x.request
  BY <1>2, <1>3, AwaitedOne, Ends
<1>5. pism_addr_valid(x.request) /\ Asked(x.request)
  BY <1>4 DEF IInv, Serial
<1>6. x.request.dev \in Devices
  BY <1>5, PismAssumption DEF pism_addr_valid, IInv, Shapes
<1> QED
  BY <1>1, <1>2, <1>3, <1>4, <1>5, <1>6 DEF Asked, Idle

LEMMA ReadStep ==
  ASSUME IInv, completeReadResp
  PROVE  IInv'
<1>1. PICK x \in Resp :
           /\ incompleteResps = <<x>> /\ incompleteResps' = <<>>
           /\ completeResps = <<>>
           /\ completeResps' = <<[x EXCEPT !.data = Answer]>>
           /\ x.status = "SUCCESS" /\ x.request.acctype = Fetch
           /\ Awaited = <<x.request>>
           /\ pism_addr_valid(x.request) /\ x.request.dev \in Devices
           /\ pismRequests = <<>> /\ pism_fifo = <<x.request.dev>>
           /\ \A d \in Devices :
                reqfifo[d] = IF d = x.request.dev THEN <<x.request>> ELSE <<>>
           /\ UNCHANGED <<masterVars, tlmRequests, pismRequests, console>>
  BY ReadIs
<1>2. /\ pism_fifo' = Tail(pism_fifo)
      /\ reqfifo' = [reqfifo EXCEPT ![Head(pism_fifo)] = <<>>]
      /\ UNCHANGED <<config, pism_initialized, data>>
  BY DEF completeReadResp, pism_response_get, Dequeued
<1>3. Idle'
  BY <1>1, <1>2, Ends DEF Idle, IInv, Shapes
<1>4. Awaited' = <<>> /\ pismRequests' = <<>>
  BY <1>1 DEF Awaited
<1>5. Shapes'
  BY <1>1, <1>2, Ends, OneIn DEF IInv, Shapes, masterVars, AtMostOne
<1> QED
  BY <1>3, <1>4, <1>5 DEF IInv, Serial

(* Every reachable state satisfies the invariant. *)
THEOREM SerialAlways == Spec => []IInv
<1>1. IInv /\ [Next]_vars => IInv'
  <2> SUFFICES ASSUME IInv, [Next]_vars PROVE IInv'
    OBVIOUS
  <2> QED
    BY OutsideSteps, SetupStep, TranslateStep, PutStep, CompleteStep, ReadStep
       DEF Next, Rules
<1> QED
  BY InitIInv, <1>1, PTL DEF Spec

-----------------------------------------------------------------------------
(***************************************************************************)
(* The refinement of SequentialBus.  A store takes effect when it is       *)
(* translated, before PISM has it; a fetch when its reply is taken.        *)
(***************************************************************************)
Pend == Awaited \o tlmRequests
Ans == Shown(completeResps) \o Acknowledged

LEMMA MappedStep ==
  ASSUME UNCHANGED <<pism_initialized, config>>, MemoryNow' = MemoryNow,
         Pend' = Pend, Ans' = Ans
  PROVE  UNCHANGED Bus!vars
  BY DEF Bus!vars, Pend, Ans, Shown

(* What holds when there is nothing to acknowledge and nothing to await,   *)
(* and which of the two a reply to come is.                                *)
LEMMA NoReplyYet ==
  incompleteResps = <<>> => Awaited = <<>> /\ Acknowledged = <<>>
  BY DEF Awaited, Acknowledged

LEMMA ReplyToCome ==
  ASSUME NEW x, incompleteResps = <<x>>
  PROVE  IF x.status = "SUCCESS" /\ x.request.acctype = Fetch
         THEN Awaited = <<x.request>> /\ Acknowledged = <<>>
         ELSE Awaited = <<>> /\ Acknowledged = <<x>>
  BY AwaitedOne, Ends DEF Acknowledged

LEMMA AwaitedIsOne ==
  ASSUME IInv
  PROVE  Awaited = <<>> \/ \E a : Awaited = <<a>>
  BY DEF Awaited

LEMMA OtherSteps ==
  ASSUME \/ \E r \in Requests : Request(r)
         \/ tickPISM \/ putIrqs \/ Connect \/ Type \/ HangUp
         \/ DebugRules \/ Hosts \/ UNCHANGED vars
  PROVE  UNCHANGED Bus!vars
<1>1. UNCHANGED <<pism_initialized, config, data, tlmVars>>
  BY DEF Request, tickPISM, pism_cycle_tick, putIrqs, pism_interrupt_get, Connect,
         Type, HangUp, OtherEnd, Around, DebugRules, Hosts, Beside, vars, pismVars
<1>2. MemoryNow' = MemoryNow
  BY <1>1 DEF MemoryNow, Enabled, tlmVars
<1>3. Pend' = Pend /\ Ans' = Ans
  BY <1>1 DEF Pend, Ans, Awaited, Acknowledged, Shown, tlmVars
<1> QED
  BY <1>1, <1>2, <1>3, MappedStep

LEMMA SetupMapped ==
  ASSUME setupPISMMemory
  PROVE  Bus!Setup
<1>1. /\ ~pism_initialized /\ pism_initialized' = TRUE
      /\ UNCHANGED <<config, data, tlmVars>>
  BY DEF setupPISMMemory, pism_init, Around
<1>2. MemoryNow' = MemoryNow
  BY <1>1 DEF MemoryNow, Enabled, tlmVars
<1>3. Pend' = Pend /\ Ans' = Ans
  BY <1>1 DEF Pend, Ans, Awaited, Acknowledged, Shown, tlmVars
<1> QED
  BY <1>1, <1>2, <1>3 DEF Bus!Setup, Pend, Ans, Shown

(* The output of the merge is accepted behind what is awaited. *)
LEMMA OutputMapped ==
  ASSUME IInv, outputFromLeft \/ outputFromRight
  PROVE  \E r \in Requests : Bus!Accept(r)
<1>1. PICK r \in Requests : tlmRequests' = Append(tlmRequests, r)
  <2>1. CASE outputFromLeft
    <3>1. Head(leftData) \in Requests
      BY <2>1 DEF outputFromLeft, source, IInv, Shapes
    <3> QED
      BY <2>1, <3>1 DEF outputFromLeft
  <2>2. CASE outputFromRight
    <3>1. Head(rightData) \in Requests
      BY <2>2 DEF outputFromRight, source, IInv, Shapes
    <3> QED
      BY <2>2, <3>1 DEF outputFromRight
  <2> QED
    BY <2>1, <2>2
<1>2. /\ tlmRequests = <<>>
      /\ UNCHANGED <<pismVars, pismRequests, incompleteResps, completeResps>>
  BY DEF outputFromLeft, outputFromRight, NotFull
<1>3. tlmRequests' = <<r>>
  BY <1>1, <1>2, Join
<1>4. Awaited' = Awaited /\ Ans' = Ans
  BY <1>2 DEF Awaited, Acknowledged, Ans, Shown
<1>5. Pend' = Append(Pend, r)
  <2>1. CASE Awaited = <<>>
    BY <1>2, <1>3, <1>4, <2>1, Join DEF Pend
  <2>2. CASE \E a : Awaited = <<a>>
    BY <1>2, <1>3, <1>4, <2>2, Join DEF Pend
  <2> QED
    BY <2>1, <2>2, AwaitedIsOne
<1>6. MemoryNow' = MemoryNow
  BY <1>2 DEF MemoryNow, Enabled, pismVars
<1> QED
  BY <1>2, <1>4, <1>5, <1>6 DEF Bus!Accept, Pend, Ans, Shown, pismVars

(* Replies are those of the abstract bus. *)
LEMMA ReplyIs ==
  ASSUME NEW x \in Resp, NEW d
  PROVE  [x EXCEPT !.data = d] = Bus!Reply(x.request, x.status, d)
  BY DEF Resp, Bus!Reply

LEMMA WithoutData ==
  ASSUME NEW x \in Resp
  PROVE  [x EXCEPT !.data = <<>>] = x /\ Visible(x) = x
  BY DEF Resp, Visible

(* A step of the abstract bus in the terms of TopSim. *)
LEMMA PerformIs ==
  ASSUME NEW r, NEW status, NEW d, NEW m,
         Pend # <<>>, r = Head(Pend), Pend' = Tail(Pend),
         Ans' = Append(Ans, Bus!Reply(r, status, d)), MemoryNow' = m,
         UNCHANGED <<pism_initialized, config>>
  PROVE  Bus!Perform(r, status, d, m)
  BY DEF Bus!Perform, Pend, Ans, Shown

LEMMA AllowedIs ==
  ASSUME NEW r
  PROVE  Bus!Allowed(r) <=> pism_addr_valid(r)
  BY DEF Bus!Allowed, pism_addr_valid, Store

LEMMA TranslateMapped ==
  ASSUME IInv, translateReqAndPrepareResp
  PROVE  \/ UNCHANGED Bus!vars
         \/ \E r \in Requests : Bus!Refuse(r) \/ Bus!DoStore(r)
<1>1. PICK r \in Requests : tlmRequests = <<r>>
  BY InOne DEF IInv, Shapes, translateReqAndPrepareResp
<1>2. /\ Head(tlmRequests) = r /\ tlmRequests' = <<>>
      /\ pismRequests = <<>> /\ incompleteResps = <<>>
      /\ UNCHANGED <<config, pism_initialized, data, completeResps>>
  BY <1>1, Ends DEF translateReqAndPrepareResp, NotFull, pismVars
<1>3. Awaited = <<>> /\ Acknowledged = <<>>
  BY <1>2, NoReplyYet
<1>4. Pend = <<r>> /\ Pend # <<>> /\ Head(Pend) = r /\ Tail(Pend) = <<>>
  BY <1>1, <1>3, Join, Ends DEF Pend
<1>5. Shown(completeResps)' = Shown(completeResps)
  BY <1>2 DEF Shown
<1>6. Shown(completeResps) = <<>> \/ \E y : Shown(completeResps) = <<y>>
  BY ShownOne DEF IInv, Shapes
<1>7. Ans = Shown(completeResps)
  BY <1>3, <1>6, Join DEF Ans
<1>8. MemoryNow = [d \in Drams |-> data[d]]
  BY <1>2 DEF MemoryNow
<1>9. ASSUME NEW status \in {"SUCCESS", "ERROR"},
             incompleteResps' = <<Reply(r, status, <<>>)>>,
             ~(status = "SUCCESS" /\ r.acctype = Fetch)
      PROVE  Pend' = Tail(Pend) /\ Ans' = Append(Ans, Bus!Reply(r, status, <<>>))
  <2>1. Awaited' = <<>> /\ Acknowledged' = <<Bus!Reply(r, status, <<>>)>>
    BY <1>9, Ends DEF Awaited, Acknowledged, Reply, Bus!Reply
  <2>2. Pend' = Tail(Pend)
    BY <1>2, <1>4, <2>1, Join DEF Pend
  <2>3. Ans' = Append(Ans, Bus!Reply(r, status, <<>>))
    BY <1>5, <1>6, <1>7, <2>1, Join DEF Ans
  <2> QED
    BY <2>2, <2>3
<1>10. CASE ~pism_addr_valid(r)
  <2>1. pismRequests' = <<>> /\ incompleteResps' = <<Reply(r, "ERROR", <<>>)>>
    BY <1>2, <1>10, Join DEF translateReqAndPrepareResp
  <2>2. MemoryNow' = MemoryNow
    BY <1>2, <2>1 DEF MemoryNow
  <2>3. Pend' = Tail(Pend) /\ Ans' = Append(Ans, Bus!Reply(r, "ERROR", <<>>))
    BY <1>9, <2>1
  <2>4. Bus!Perform(r, "ERROR", <<>>, MemoryNow)
    BY <1>2, <1>4, <2>2, <2>3, PerformIs
  <2> QED
    BY <1>10, <2>4, AllowedIs DEF Bus!Refuse
<1>11. CASE pism_addr_valid(r) /\ r.acctype = Store
  <2>1. pismRequests' = <<r>> /\ incompleteResps' = <<Reply(r, "SUCCESS", <<>>)>>
    BY <1>2, <1>11, Join DEF translateReqAndPrepareResp
  <2>2. Pend' = Tail(Pend) /\ Ans' = Append(Ans, Bus!Reply(r, "SUCCESS", <<>>))
    BY <1>9, <1>11, <2>1 DEF Fetch, Store
  <2>3. MemoryNow' = IF r.dev \in Drams THEN Bus!Stored(MemoryNow, r) ELSE MemoryNow
    <3>1. MemoryNow' = [d \in Drams |-> IF r.dev = d THEN Enabled(data[d], r) ELSE data[d]]
      BY <1>2, <1>11, <2>1, Ends DEF MemoryNow, Enabled
    <3> QED
      BY <1>8, <3>1 DEF Bus!Stored, Enabled
  <2>4. Bus!Perform(r, "SUCCESS", <<>>,
                    IF r.dev \in Drams THEN Bus!Stored(MemoryNow, r) ELSE MemoryNow)
    BY <1>2, <1>4, <2>2, <2>3, PerformIs
  <2> QED
    BY <1>11, <2>4, AllowedIs DEF Bus!DoStore, Store
<1>12. CASE pism_addr_valid(r) /\ r.acctype = Fetch
  <2>1. pismRequests' = <<r>> /\ incompleteResps' = <<Reply(r, "SUCCESS", <<>>)>>
    BY <1>2, <1>12, Join DEF translateReqAndPrepareResp
  <2>2. Awaited' = <<r>> /\ Acknowledged' = <<>>
    BY <1>12, <2>1, Ends DEF Awaited, Acknowledged, Reply
  <2>3. Pend' = Pend
    BY <1>2, <1>4, <2>2, Join DEF Pend
  <2>4. Ans' = Ans
    BY <1>3, <1>5, <2>2 DEF Ans
  <2>5. MemoryNow' = MemoryNow
    BY <1>2, <1>12, <2>1, Ends DEF MemoryNow, Fetch, Store
  <2> QED
    BY <1>2, <2>3, <2>4, <2>5, MappedStep
<1> QED
  BY <1>10, <1>11, <1>12, PismAssumption

(* Putting a request changes nothing the bus shows: a store already counts. *)
LEMMA PutMapped ==
  ASSUME IInv, putReq
  PROVE  UNCHANGED Bus!vars
<1>1. PICK r \in Requests : pismRequests = <<r>>
  BY InOne DEF IInv, Shapes, putReq
<1>2. /\ Head(pismRequests) = r /\ pismRequests' = <<>> /\ pism_request_put(r)
      /\ UNCHANGED <<config, pism_initialized, tlmRequests, incompleteResps,
                     completeResps>>
  BY <1>1, Ends DEF putReq, pism_request_put
<1>3. Pend' = Pend /\ Ans' = Ans
  BY <1>2 DEF Pend, Ans, Awaited, Acknowledged, Shown
<1>4. /\ MemoryNow = [d \in Drams |->
            IF r.acctype = Store /\ r.dev = d THEN Enabled(data[d], r) ELSE data[d]]
      /\ MemoryNow' = [d \in Drams |-> data'[d]]
  BY <1>1, <1>2, Ends DEF MemoryNow
<1>5. CASE r.acctype # Store
  BY <1>2, <1>3, <1>4, <1>5, MappedStep DEF pism_request_put
<1>6. CASE r.acctype = Store /\ r.dev \in Drams
  <2>1. data' = [data EXCEPT ![r.dev] = Enabled(@, r)]
    <3>1. DeviceStore(r)
      BY <1>2, <1>6 DEF pism_request_put
    <3>2. r.dev \in Drams
      BY <1>6
    <3>3. r.dev # "uart" /\ r.dev # "sdcard"
      BY <3>2, PismAssumption
    <3> QED
      BY <3>1, <3>2, <3>3 DEF DeviceStore
  <2>2. \A d \in Drams : data'[d] = IF r.dev = d THEN Enabled(data[d], r) ELSE data[d]
    BY <2>1 DEF IInv, Shapes, Timed
  <2>3. MemoryNow' = MemoryNow
    BY <1>4, <1>6, <2>2
  <2> QED
    BY <1>2, <1>3, <2>3, MappedStep
<1>7. CASE r.acctype = Store /\ r.dev \notin Drams
  <2>1. r.dev \in {"uart", "sdcard"}
    BY <1>1, <1>7, PutIs, PismAssumption
       DEF pism_addr_valid, IInv, Shapes, Devices, Timed
  <2>2. data' = data \/ \E v : data' = [data EXCEPT !["sdcard"] = v]
    BY <1>2, <1>7, <2>1 DEF pism_request_put, DeviceStore
  <2>3. \A d \in Drams : data'[d] = data[d]
    <3>1. "sdcard" \notin Drams
      BY PismAssumption
    <3>2. CASE \E v : data' = [data EXCEPT !["sdcard"] = v]
      <4>1. PICK v : data' = [data EXCEPT !["sdcard"] = v]
        BY <3>2
      <4>2. \A d \in Timed : data[d] = data[d] /\ d \in DOMAIN data
        BY DEF IInv, Shapes
      <4> QED
        BY <3>1, <4>1, <4>2 DEF Timed
    <3> QED
      BY <2>2, <3>2
  <2>4. MemoryNow' = MemoryNow
    BY <1>4, <1>7, <2>3
  <2> QED
    BY <1>2, <1>3, <2>4, MappedStep
<1> QED
  BY <1>5, <1>6, <1>7

(* A reply that was acknowledged already only moves on. *)
LEMMA CompleteMapped ==
  ASSUME IInv, completeErrorResp \/ completeWriteResp
  PROVE  UNCHANGED Bus!vars
<1>1. incompleteResps # <<>> /\ Complete(<<>>) /\ UNCHANGED pismVars
  BY DEF completeErrorResp, completeWriteResp
<1>2. PICK x \in Resp :
           /\ incompleteResps = <<x>> /\ Head(incompleteResps) = x
           /\ incompleteResps' = <<>> /\ completeResps = <<>>
           /\ completeResps' = <<[x EXCEPT !.data = <<>>]>>
           /\ UNCHANGED <<masterVars, tlmRequests, pismRequests, console>>
  BY <1>1, CompleteMoves
<1>3. /\ Awaited = <<>> /\ Acknowledged = <<x>>
      /\ Awaited' = <<>> /\ Acknowledged' = <<>>
  BY <1>2, ReplyToCome
     DEF completeErrorResp, completeWriteResp, Awaited, Acknowledged, Fetch, Store
<1>4. completeResps' = <<x>> /\ Visible(x) = x
  BY <1>2, WithoutData
<1>5. Shown(completeResps) = <<>>
  BY <1>2, ShownOne
<1>6. Shown(completeResps)' = <<x>>
  <2>1. Shown(completeResps)' = [i \in DOMAIN completeResps' |-> Visible(completeResps'[i])]
    BY DEF Shown, Visible
  <2>2. [i \in DOMAIN <<x>> |-> Visible(<<x>>[i])] = <<Visible(x)>>
    BY ShownOne DEF Shown
  <2> QED
    BY <1>4, <2>1, <2>2
<1>7. Ans = <<x>> /\ Ans' = <<x>>
  BY <1>3, <1>5, <1>6, Join DEF Ans
<1>8. Pend' = Pend
  BY <1>2, <1>3 DEF Pend
<1>9. MemoryNow' = MemoryNow
  BY <1>1, <1>2 DEF MemoryNow, Enabled, pismVars
<1> QED
  BY <1>1, <1>7, <1>8, <1>9, MappedStep DEF pismVars

(* The awaited fetch is performed when its reply is taken. *)
LEMMA ReadMapped ==
  ASSUME IInv, completeReadResp
  PROVE  \E r \in Requests : Bus!DoFetch(r)
<1>1. PICK x \in Resp :
           /\ incompleteResps = <<x>> /\ incompleteResps' = <<>>
           /\ completeResps = <<>>
           /\ completeResps' = <<[x EXCEPT !.data = Answer]>>
           /\ x.status = "SUCCESS" /\ x.request.acctype = Fetch
           /\ Awaited = <<x.request>>
           /\ pism_addr_valid(x.request) /\ x.request.dev \in Devices
           /\ pismRequests = <<>> /\ pism_fifo = <<x.request.dev>>
           /\ \A d \in Devices :
                reqfifo[d] = IF d = x.request.dev THEN <<x.request>> ELSE <<>>
           /\ UNCHANGED <<masterVars, tlmRequests, pismRequests, console>>
  BY ReadIs
<1> DEFINE r == x.request
           d == IF r.dev \in Drams THEN Bus!Loaded(MemoryNow, r) ELSE <<>>
<1>2. r \in Requests /\ UNCHANGED <<config, pism_initialized, data>>
  BY DEF Resp, completeReadResp, pism_response_get
<1>3. Acknowledged = <<>> /\ Awaited' = <<>> /\ Acknowledged' = <<>>
  BY <1>1, ReplyToCome DEF Awaited, Acknowledged
<1>4. Pend # <<>> /\ r = Head(Pend) /\ Pend' = Tail(Pend)
  <2>1. tlmRequests = <<>> \/ \E y : tlmRequests = <<y>>
    BY InOne DEF IInv, Shapes
  <2>2. Pend = <<r>> \o tlmRequests /\ Pend' = <<>> \o tlmRequests
    BY <1>1, <1>3 DEF Pend
  <2> HIDE DEF r
  <2>3. CASE tlmRequests = <<>>
    <3>1. Pend = <<r>> /\ Pend' = <<>>
      BY <2>2, <2>3, Join
    <3> QED
      BY <3>1, Ends
  <2>4. CASE \E y : tlmRequests = <<y>>
    <3>1. PICK y : tlmRequests = <<y>>
      BY <2>4
    <3>2. Pend = <<r, y>> /\ Pend' = <<y>>
      BY <2>2, <3>1, Join
    <3> QED
      BY <3>2, Ends
  <2> QED
    BY <2>1, <2>3, <2>4
<1>5. MemoryNow' = MemoryNow /\ MemoryNow = [e \in Drams |-> data[e]]
  BY <1>1, <1>2 DEF MemoryNow
<1>6. Visible([x EXCEPT !.data = Answer]) = Bus!Reply(r, "SUCCESS", d)
  <2>1. CASE r.dev \in Drams
    <3>1. Head(pism_fifo) = r.dev /\ Head(reqfifo[r.dev]) = r
      BY <1>1, Ends
    <3>2. Answer = [l \in r.byteenable |-> data[r.dev][l]]
      BY <2>1, <3>1, PismAssumption DEF Answer
    <3>3. Answer = Bus!Loaded(MemoryNow, r)
      BY <1>5, <2>1, <3>2 DEF Bus!Loaded
    <3>4. [x EXCEPT !.data = Answer].request = r
      BY DEF Resp
    <3> QED
      BY <1>1, <2>1, <3>3, <3>4, ReplyIs DEF Visible
  <2>2. CASE r.dev \notin Drams
    <3>1. [x EXCEPT !.data = Answer].request = r
      BY DEF Resp
    <3>2. [[x EXCEPT !.data = Answer] EXCEPT !.data = <<>>] = [x EXCEPT !.data = <<>>]
      BY DEF Resp
    <3> QED
      BY <1>1, <2>2, <3>1, <3>2, ReplyIs DEF Visible
  <2> QED
    BY <2>1, <2>2
<1>7. Ans = <<>> /\ Ans' = <<Bus!Reply(r, "SUCCESS", d)>>
  <2>1. Ans = <<>>
    BY <1>1, <1>3, ShownOne, Join DEF Ans
  <2>2. Shown(completeResps)' = [i \in DOMAIN completeResps' |-> Visible(completeResps'[i])]
    BY DEF Shown, Visible
  <2>3. [i \in DOMAIN <<[x EXCEPT !.data = Answer]>> |->
           Visible(<<[x EXCEPT !.data = Answer]>>[i])]
          = <<Visible([x EXCEPT !.data = Answer])>>
    BY ShownOne DEF Shown
  <2>4. Shown(completeResps)' = <<Bus!Reply(r, "SUCCESS", d)>>
    BY <1>1, <1>6, <2>2, <2>3
  <2> QED
    BY <1>3, <2>1, <2>4, Join DEF Ans
<1>8. Ans' = Append(Ans, Bus!Reply(r, "SUCCESS", d))
  BY <1>7, Join
<1>9. Bus!Perform(r, "SUCCESS", d, MemoryNow)
  <2> HIDE DEF d, r
  <2> QED
    BY <1>2, <1>4, <1>5, <1>8, PerformIs
<1>10. Bus!Allowed(r) /\ r.acctype = Fetch
  BY <1>1, AllowedIs
<1> QED
  BY <1>2, <1>9, <1>10 DEF Bus!DoFetch, Fetch

(* Only the first reply is delivered, and it is the oldest. *)
LEMMA GetMapped ==
  ASSUME IInv, get
  PROVE  Bus!Deliver
<1>1. /\ completeResps # <<>> /\ completeResps' = Tail(completeResps)
      /\ UNCHANGED <<pismVars, tlmRequests, pismRequests, incompleteResps>>
  BY DEF get
<1>2. PICK y : completeResps = <<y>>
  BY <1>1 DEF IInv, Shapes
<1>3. completeResps' = <<>>
  BY <1>1, <1>2, Ends
<1>4. Awaited' = Awaited /\ Acknowledged' = Acknowledged /\ Pend' = Pend
  BY <1>1 DEF Awaited, Acknowledged, Pend
<1>5. MemoryNow' = MemoryNow
  BY <1>1 DEF MemoryNow, Enabled, pismVars
<1>6. Shown(completeResps) = <<Visible(y)>> /\ Shown(completeResps)' = <<>>
  <2>1. Shown(completeResps)' = [i \in DOMAIN completeResps' |-> Visible(completeResps'[i])]
    BY DEF Shown, Visible
  <2> QED
    BY <1>2, <1>3, <2>1, ShownOne
<1>7. Acknowledged = <<>> \/ \E a : Acknowledged = <<a>>
  BY InOne DEF Acknowledged, IInv, Shapes
<1>8. Ans # <<>> /\ Ans' = Tail(Ans)
  <2>1. Ans = <<Visible(y)>> \o Acknowledged /\ Ans' = <<>> \o Acknowledged
    BY <1>4, <1>6 DEF Ans
  <2>2. CASE Acknowledged = <<>>
    <3>1. Ans = <<Visible(y)>> /\ Ans' = <<>>
      BY <2>1, <2>2, Join
    <3> QED
      BY <3>1, Ends
  <2>3. CASE \E a : Acknowledged = <<a>>
    <3>1. PICK a : Acknowledged = <<a>>
      BY <2>3
    <3>2. Ans = <<Visible(y), a>> /\ Ans' = <<a>>
      BY <2>1, <3>1, Join
    <3> QED
      BY <3>2, Ends
  <2> QED
    BY <1>7, <2>2, <2>3
<1> QED
  BY <1>1, <1>4, <1>5, <1>8 DEF Bus!Deliver, Pend, Ans, Shown, pismVars

(* The requests that PISM and its bus serve take effect one at a time in   *)
(* the order the merge let them through, whatever the devices, their       *)
(* delays and the requests are.                                            *)
THEOREM BusActsInOrder == Spec => ActsInOrder
<1>1. Init => Bus!Init
  BY DEF Init, PismInit, Bus!Init, Awaited, Acknowledged
<1>2. IInv /\ [Next]_vars => [Bus!Next]_(Bus!vars)
  <2> SUFFICES ASSUME IInv, [Next]_vars PROVE Bus!Next \/ UNCHANGED Bus!vars
    OBVIOUS
  <2> QED
    BY OtherSteps, SetupMapped, OutputMapped, TranslateMapped, PutMapped,
       CompleteMapped, ReadMapped, GetMapped
       DEF Next, Rules, Bus!Next
<1> QED
  BY <1>1, <1>2, SerialAlways, PTL DEF Spec, ActsInOrder, Bus!Spec

-----------------------------------------------------------------------------
(***************************************************************************)
(* Types.  The registers of the card stay within what a block and an       *)
(* argument can be, so that a block that is read is one of the image's.    *)
(***************************************************************************)
UartFields == {"type", "control", "fdinput", "fdoutput", "caller", "line", "conns"}
UartOK(u) == DOMAIN u = UartFields /\ u.control \subseteq PERSISTENT \cup {"RI", "WI"}

CardOK(sd) ==
  /\ DOMAIN sd = {"arg", "cmd", "asr", "rr1", "buf"}
  /\ sd["arg"] \in 0 .. ArgRange - 1 /\ sd["buf"] \in Words \cup {Partial}

ImageOK(img) ==
  /\ DOMAIN img.block = 0 .. ArgRange \div SECTORSIZE - 1
  /\ \A b \in DOMAIN img.block : img.block[b] \in Words \cup {Partial}
  /\ img.size \in 0 .. ArgRange

DataOK ==
  /\ wait \in [Timed -> 0 .. Delay]
  /\ \A d \in Drams : data[d] \in [Lanes -> Bytes]
  /\ CardOK(data["sdcard"]) /\ ImageOK(image) /\ UartOK(uart)

QueuesOK == pism_initialized \in BOOLEAN /\ Len(leftData) <= Depth /\ Len(rightData) <= Depth

TInv == IInv /\ DataOK /\ QueuesOK

(* Every operation of the UART leaves its registers what they are. *)
LEMMA UartPolled ==
  ASSUME NEW u, UartOK(u)
  PROVE  UartOK(uart_dev_listensock_poll(u)) /\ UartOK(uart_dev_socket_cleanup(u))
  BY DEF UartOK, UartFields, uart_dev_listensock_poll, uart_dev_socket_cleanup

LEMMA UartFetched ==
  ASSUME NEW u, UartOK(u)
  PROVE  UartOK(uart_dev_fetch(u))
<1> DEFINE v == uart_dev_listensock_poll(u)
<1>1. UartOK(v) /\ UartOK(uart_dev_socket_cleanup(v))
  BY UartPolled
<1>2. UartOK([v EXCEPT !.line.wire = Tail(@)])
  BY <1>1 DEF UartOK, UartFields
<1> QED
  BY <1>1, <1>2 DEF uart_dev_fetch

LEMMA UartUpdated ==
  ASSUME NEW u, UartOK(u)
  PROVE  UartOK(uart_dev_control_update(u))
<1> DEFINE v  == IF "RE" \in u.control THEN uart_dev_listensock_poll(u) ELSE u
           AC == IF u.fdoutput \/ u.type = "null" THEN {"AC"} ELSE {}
           RI == IF "RE" \in u.control /\ POLLIN(v) THEN {"RI"} ELSE {}
           WI == IF "WE" \in u.control THEN {"WI"} ELSE {}
           c  == (u.control \cap {"RE", "WE"}) \cup AC \cup RI \cup WI
<1>1. UartOK(v)
  BY UartPolled
<1>2. c \subseteq PERSISTENT \cup {"RI", "WI"}
  BY DEF PERSISTENT
<1>3. uart_dev_control_update(u) = [v EXCEPT !.control = c]
  BY DEF uart_dev_control_update
<1> QED
  <2> HIDE DEF v, c
  <2> QED
    BY <1>1, <1>2, <1>3 DEF UartOK, UartFields

LEMMA UartStored ==
  ASSUME NEW u, UartOK(u), NEW req
  PROVE  UartOK(uart_dev_store(u, req))
<1> DEFINE v == IF "data" \in req.byteenable THEN uart_dev_put(u) ELSE u
<1>1. UartOK(uart_dev_put(u))
  BY UartPolled DEF uart_dev_put
<1>2. UartOK(v)
  BY <1>1
<1>3. UartOK([v EXCEPT !.control = (@ \ PERSISTENT) \cup (req.data["control"] \cap PERSISTENT)])
  <2> HIDE DEF v
  <2> QED
    BY <1>2 DEF UartOK, UartFields
<1> QED
  BY <1>2, <1>3 DEF uart_dev_store

LEMMA UartRead ==
  ASSUME NEW u, UartOK(u), NEW req
  PROVE  UartOK(uart_fetched(u, req))
  BY UartFetched, UartUpdated DEF uart_fetched

(* Every command of the card leaves its registers and its image what they  *)
(* are: a block that is read is in the image, since the argument that      *)
(* passes the test is, even where the sum wraps.                           *)
LEMMA BlockIn ==
  ASSUME NEW sd, CardOK(sd)
  PROVE  BlockOf(sd) \in 0 .. ArgRange \div SECTORSIZE - 1
<1>1. /\ sd["arg"] \in Nat /\ sd["arg"] <= ArgRange - 1
      /\ ArgRange \in Nat /\ ArgRange % 2 = 0
  BY PismAssumption DEF CardOK, SECTORSIZE
<1>2. sd["arg"] \div 2 \in 0 .. ArgRange \div 2 - 1
  BY <1>1
<1> QED
  BY <1>2 DEF BlockOf, SECTORSIZE

LEMMA CardRefused ==
  ASSUME NEW sd, CardOK(sd), NEW e, NEW rr1
  PROVE  CardOK(Refused(sd, e, rr1))
  BY DEF CardOK, Refused

LEMMA FailedIs ==
  ASSUME NEW sd, CardOK(sd)
  PROVE  /\ CardOK(Failed(sd)) /\ Failed(sd)["cmd"] = sd["cmd"]
         /\ Failed(sd)["arg"] = sd["arg"] /\ Failed(sd)["buf"] = sd["buf"]
         /\ Failed(sd)["rr1"] = sd["rr1"] /\ Failed(sd)["asr"] = sd["asr"] \cup {"DATAERROR"}
  BY DEF CardOK, Failed

LEMMA DoneIs ==
  ASSUME NEW sd, CardOK(sd), NEW asr
  PROVE  /\ CardOK(Done(sd, asr)) /\ Done(sd, asr)["cmd"] = sd["cmd"]
         /\ Done(sd, asr)["arg"] = sd["arg"] /\ Done(sd, asr)["buf"] = sd["buf"]
         /\ Done(sd, asr)["rr1"] = "ok" /\ Done(sd, asr)["asr"] = asr
  BY DEF CardOK, Done

(* The buffer alone is replaced. *)
LEMMA BufferIs ==
  ASSUME NEW sd, CardOK(sd), NEW w \in Words \cup {Partial}
  PROVE  LET s == [sd EXCEPT !["buf"] = w]
         IN  /\ CardOK(s) /\ s["buf"] = w /\ s["cmd"] = sd["cmd"] /\ s["arg"] = sd["arg"]
             /\ s["asr"] = sd["asr"] /\ s["rr1"] = sd["rr1"]
  BY DEF CardOK

(* The three ends of a read. *)
LEMMA ReadEnds ==
  ASSUME NEW sd, CardOK(sd), NEW img, ImageOK(img), NEW s \in sdcard_cmd_read(sd, img)
  PROVE  \/ BadArgument(sd) /\ s = Argument(sd)
         \/ \E w \in Words \cup {Partial} : s = [Failed(sd) EXCEPT !["buf"] = w]
         \/ /\ InFile(img, BlockOf(sd)) /\ img.block[BlockOf(sd)] \in Words \cup {Partial}
            /\ s = [Done(sd, {"VALID"}) EXCEPT !["buf"] = img.block[BlockOf(sd)]]
<1> DEFINE v == img.block[BlockOf(sd)]
<1>1. v \in Words \cup {Partial} /\ sd["buf"] \in Words \cup {Partial}
  BY BlockIn DEF ImageOK, CardOK
<1>2. Mixed(sd["buf"], v) \in Words \cup {Partial}
  BY <1>1 DEF Mixed
<1> QED
  BY <1>1, <1>2 DEF sdcard_cmd_read

LEMMA CardRead ==
  ASSUME NEW sd, CardOK(sd), NEW img, ImageOK(img), NEW s \in sdcard_cmd_read(sd, img)
  PROVE  CardOK(s)
<1>1. CardOK(Argument(sd))
  BY CardRefused DEF Argument
<1>2. \A w \in Words \cup {Partial} :
        CardOK([Failed(sd) EXCEPT !["buf"] = w]) /\ CardOK([Done(sd, {"VALID"}) EXCEPT !["buf"] = w])
  BY FailedIs, DoneIs, BufferIs
<1>3. \/ s = Argument(sd) \/ \E w \in Words \cup {Partial} : s = [Failed(sd) EXCEPT !["buf"] = w]
      \/ \E w \in Words \cup {Partial} : s = [Done(sd, {"VALID"}) EXCEPT !["buf"] = w]
  BY ReadEnds
<1> QED
  BY <1>1, <1>2, <1>3

LEMMA BlockPut ==
  ASSUME NEW sd, CardOK(sd), NEW img, ImageOK(img), NEW w \in Words \cup {Partial},
         NEW end \in 0 .. ArgRange
  PROVE  LET i == Put(img, BlockOf(sd), w, end)
         IN  /\ ImageOK(i) /\ i.block[BlockOf(sd)] = w
             /\ i.size = (IF img.size < end THEN end ELSE img.size) /\ img.size <= i.size
             /\ \A b \in DOMAIN img.block : b # BlockOf(sd) => i.block[b] = img.block[b]
<1> DEFINE i == Put(img, BlockOf(sd), w, end)
<1>1. BlockOf(sd) \in DOMAIN img.block
  BY BlockIn DEF ImageOK
<1>2. i.block = [img.block EXCEPT ![BlockOf(sd)] = w]
  BY DEF Put
<1>3. /\ i.size = (IF img.size < end THEN end ELSE img.size)
      /\ i.size \in 0 .. ArgRange /\ img.size <= i.size
  BY PismAssumption DEF Put, ImageOK
<1> QED
  <2> HIDE DEF i
  <2> QED
    BY <1>1, <1>2, <1>3 DEF i, ImageOK

(* Where a write of a part of a block, and one of the whole block, end. *)
LEMMA WriteReaches ==
  ASSUME NEW sd, CardOK(sd)
  PROVE  LET b == BlockOf(sd)
         IN  /\ b * SECTORSIZE + 1 \in 0 .. ArgRange /\ (b + 1) * SECTORSIZE \in 0 .. ArgRange
             /\ b * SECTORSIZE + 1 < (b + 1) * SECTORSIZE
<1> DEFINE b == BlockOf(sd)
<1>1. ArgRange \in Nat /\ b \in 0 .. ArgRange \div 2 - 1
  BY PismAssumption, BlockIn DEF SECTORSIZE
<1> HIDE DEF b
<1>2. b \in Nat /\ b * 2 + 1 < (b + 1) * 2 /\ (b + 1) * 2 <= ArgRange
  BY <1>1
<1> QED
  BY <1>1, <1>2 DEF b, SECTORSIZE

LEMMA WrittenIs ==
  ASSUME NEW sd, CardOK(sd), NEW img, ImageOK(img)
  PROVE  LET i == Written(img, BlockOf(sd), sd["buf"])
         IN  /\ ImageOK(i) /\ InFile(i, BlockOf(sd)) /\ i.block[BlockOf(sd)] = sd["buf"]
             /\ img.size <= i.size
             /\ \A b \in DOMAIN img.block : b # BlockOf(sd) => i.block[b] = img.block[b]
<1>1. sd["buf"] \in Words \cup {Partial} /\ img.size \in 0 .. ArgRange /\ ArgRange \in Nat
  BY PismAssumption DEF CardOK, ImageOK
<1>2. (BlockOf(sd) + 1) * SECTORSIZE \in 0 .. ArgRange
  BY WriteReaches
<1>3. LET i == Written(img, BlockOf(sd), sd["buf"])
      IN  /\ ImageOK(i) /\ i.block[BlockOf(sd)] = sd["buf"] /\ img.size <= i.size
          /\ i.size = (IF img.size < (BlockOf(sd) + 1) * SECTORSIZE
                       THEN (BlockOf(sd) + 1) * SECTORSIZE ELSE img.size)
          /\ \A b \in DOMAIN img.block : b # BlockOf(sd) => i.block[b] = img.block[b]
  BY <1>1, <1>2, BlockPut DEF Written
<1> QED
  BY <1>1, <1>2, <1>3 DEF InFile

(* A short write makes no block whole that was not. *)
LEMMA WrittenShortIs ==
  ASSUME NEW sd, CardOK(sd), NEW img, ImageOK(img)
  PROVE  LET i == WrittenShort(img, BlockOf(sd), sd["buf"])
         IN  /\ ImageOK(i) /\ i.block[BlockOf(sd)] = Mixed(img.block[BlockOf(sd)], sd["buf"])
             /\ img.size <= i.size /\ (InFile(i, BlockOf(sd)) => InFile(img, BlockOf(sd)))
             /\ \A b \in DOMAIN img.block : b # BlockOf(sd) => i.block[b] = img.block[b]
<1> DEFINE b == BlockOf(sd)
           m == Mixed(img.block[b], sd["buf"])
           i == WrittenShort(img, b, sd["buf"])
<1>1. img.block[b] \in Words \cup {Partial}
  BY BlockIn DEF ImageOK
<1>2. m \in Words \cup {Partial}
  BY <1>1 DEF Mixed
<1>3. /\ b * SECTORSIZE + 1 \in 0 .. ArgRange /\ (b + 1) * SECTORSIZE \in 0 .. ArgRange
      /\ b * SECTORSIZE + 1 < (b + 1) * SECTORSIZE
      /\ img.size \in 0 .. ArgRange /\ ArgRange \in Nat
  BY WriteReaches, PismAssumption DEF ImageOK
<1>4. i = Put(img, b, m, b * SECTORSIZE + 1)
  BY DEF WrittenShort
<1>5. /\ ImageOK(i) /\ i.block[b] = m /\ img.size <= i.size
      /\ i.size = (IF img.size < b * SECTORSIZE + 1 THEN b * SECTORSIZE + 1 ELSE img.size)
      /\ \A k \in DOMAIN img.block : k # b => i.block[k] = img.block[k]
  <2> HIDE DEF m, i
  <2> QED
    BY <1>2, <1>3, <1>4, BlockPut DEF b
<1>6. InFile(i, b) => InFile(img, b)
  <2> HIDE DEF i, b, m
  <2> QED
    BY <1>3, <1>5 DEF InFile
<1> QED
  BY <1>5, <1>6

(* The four ends of a write. *)
LEMMA WriteEnds ==
  ASSUME NEW sd, NEW img, NEW o \in sdcard_cmd_write(sd, img)
  PROVE  \/ BadArgument(sd) /\ o = <<Argument(sd), img>>
         \/ ~BadArgument(sd) /\ o = <<Failed(sd), img>>
         \/ /\ ~BadArgument(sd)
            /\ o = <<Failed(sd), WrittenShort(img, BlockOf(sd), sd["buf"])>>
         \/ /\ ~BadArgument(sd)
            /\ o = <<Done(sd, {"VALID", "DATAERROR"}), Written(img, BlockOf(sd), sd["buf"])>>
  BY DEF sdcard_cmd_write

LEMMA CardWritten ==
  ASSUME NEW sd, CardOK(sd), NEW img, ImageOK(img), NEW o \in sdcard_cmd_write(sd, img)
  PROVE  CardOK(o[1]) /\ ImageOK(o[2])
<1>1. CardOK(Argument(sd))
  BY CardRefused DEF Argument
<1>2. CardOK(Failed(sd)) /\ CardOK(Done(sd, {"VALID", "DATAERROR"}))
  BY FailedIs, DoneIs
<1>3. /\ ImageOK(Written(img, BlockOf(sd), sd["buf"]))
      /\ ImageOK(WrittenShort(img, BlockOf(sd), sd["buf"]))
  BY WrittenIs, WrittenShortIs
<1>4. \/ o = <<Argument(sd), img>> \/ o = <<Failed(sd), img>>
      \/ o = <<Failed(sd), WrittenShort(img, BlockOf(sd), sd["buf"])>>
      \/ o = <<Done(sd, {"VALID", "DATAERROR"}), Written(img, BlockOf(sd), sd["buf"])>>
  BY WriteEnds
<1> QED
  BY <1>1, <1>2, <1>3, <1>4

LEMMA CardHandled ==
  ASSUME NEW sd, CardOK(sd), NEW img, ImageOK(img), NEW req,
         NEW o \in sdcard_cmd_handle(sd, img, req)
  PROVE  CardOK(o[1]) /\ ImageOK(o[2])
<1>1. \/ o = <<sd, img>> \/ o \in {<<s, img>> : s \in sdcard_cmd_read(sd, img)}
      \/ o \in sdcard_cmd_write(sd, img) \/ o = <<Refused(sd, {}, "illegal"), img>>
  BY DEF sdcard_cmd_handle
<1>2. CASE o \in {<<s, img>> : s \in sdcard_cmd_read(sd, img)}
  <2>1. PICK s \in sdcard_cmd_read(sd, img) : o = <<s, img>>
    BY <1>2
  <2> QED
    BY <2>1, CardRead
<1> QED
  BY <1>1, <1>2, CardWritten, CardRefused

LEMMA StoreTyped ==
  ASSUME IInv, DataOK, NEW r \in Requests, r.acctype = Store, r.dev \in Devices,
         DeviceStore(r)
  PROVE  /\ \A d \in Drams : data'[d] \in [Lanes -> Bytes]
         /\ CardOK(data'["sdcard"]) /\ ImageOK(image') /\ UartOK(uart')
<1> USE DEF DataOK
<1>0. data = [d \in Timed |-> data[d]] /\ "sdcard" \notin Drams /\ Timed = Drams \cup {"sdcard"}
  BY PismAssumption DEF IInv, Shapes, Timed
<1>1. CASE r.dev \in Drams
  <2>1. data' = [data EXCEPT ![r.dev] = Enabled(@, r)] /\ UNCHANGED <<image, uart>>
    BY <1>1, PismAssumption DEF DeviceStore
  <2>2. r.data \in [r.byteenable -> Bytes]
    BY <1>1, PismAssumption
  <2>3. Enabled(data[r.dev], r) \in [Lanes -> Bytes]
    BY <1>1, <2>2 DEF Enabled
  <2> QED
    BY <1>0, <1>1, <2>1, <2>3
<1>2. CASE r.dev = "uart"
  BY <1>2, UartStored, PismAssumption DEF DeviceStore
<1>3. CASE r.dev = "sdcard"
  <2> DEFINE sd == Enabled(data["sdcard"], r)
  <2>1. PICK o \in sdcard_cmd_handle(sd, image, r) :
          data' = [data EXCEPT !["sdcard"] = o[1]] /\ image' = o[2]
    BY <1>3, PismAssumption DEF DeviceStore
  <2>2. UNCHANGED uart
    BY <1>3, PismAssumption DEF DeviceStore
  <2>3. CardOK(sd)
    <3>1. /\ "arg" \in r.byteenable => r.data["arg"] \in 0 .. ArgRange - 1
          /\ "buf" \in r.byteenable => r.data["buf"] \in Words
      BY <1>3, PismAssumption
    <3> QED
      BY <3>1 DEF CardOK, Enabled
  <2>4. CardOK(o[1]) /\ ImageOK(o[2])
    <3> HIDE DEF sd
    <3> QED
      BY <2>1, <2>3, CardHandled
  <2> QED
    BY <1>0, <2>1, <2>2, <2>4
<1> QED
  BY <1>1, <1>2, <1>3 DEF Devices, Timed

LEMMA DataStep ==
  ASSUME IInv, DataOK, [Next]_vars
  PROVE  DataOK'
<1> USE DEF DataOK
<1>1. CASE putReq
  <2>1. PICK r \in Requests : pismRequests = <<r>>
    BY <1>1, InOne DEF IInv, Shapes, putReq
  <2>2. pism_request_put(r)
    BY <1>1, <2>1, Ends DEF putReq
  <2>3. r.dev \in Devices
    BY <2>1, PutIs, PismAssumption DEF pism_addr_valid, IInv, Shapes
  <2>4. wait' \in [Timed -> 0 .. Delay]
    BY <2>2, PismAssumption DEF pism_request_put
  <2>5. CASE r.acctype = Store
    BY <2>2, <2>3, <2>4, <2>5, StoreTyped DEF pism_request_put
  <2>6. CASE r.acctype # Store
    BY <2>2, <2>4, <2>6 DEF pism_request_put
  <2> QED
    BY <2>5, <2>6
<1>2. CASE completeReadResp
  <2>1. UNCHANGED <<wait, data, image>> /\ (uart' = uart \/ uart' = uart_fetched(uart, Head(reqfifo["uart"])))
    BY <1>2 DEF completeReadResp, pism_response_get
  <2> QED
    BY <2>1, UartRead
<1>3. CASE tickPISM
  <2>1. wait' = [d \in Timed |-> IF wait[d] = 0 THEN 0 ELSE wait[d] - 1]
        /\ UNCHANGED <<data, image, uart>>
    BY <1>3 DEF tickPISM, pism_cycle_tick
  <2> QED
    BY <2>1, PismAssumption
<1>4. CASE putIrqs
  BY <1>4, UartUpdated DEF putIrqs, pism_interrupt_get
<1>5. CASE Connect \/ Type \/ HangUp
  <2>1. UNCHANGED <<wait, data, image>>
    BY <1>5 DEF Connect, Type, HangUp, OtherEnd
  <2>2. UartOK(uart')
    BY <1>5 DEF Connect, Type, HangUp, OtherEnd, UartOK, UartFields
  <2> QED
    BY <2>1, <2>2
<1>6. CASE \/ \E r \in Requests : Request(r)
           \/ outputFromLeft \/ outputFromRight \/ translateReqAndPrepareResp \/ get
           \/ completeErrorResp \/ completeWriteResp \/ setupPISMMemory
           \/ DebugRules \/ Hosts \/ UNCHANGED vars
  <2>1. UNCHANGED <<wait, data, image, uart>>
    BY <1>6 DEF Request, outputFromLeft, outputFromRight, translateReqAndPrepareResp, get,
                completeErrorResp, completeWriteResp, setupPISMMemory, pism_init,
                DebugRules, Hosts, Beside, vars, pismVars
  <2> QED
    BY <2>1
<1> QED
  BY <1>1, <1>2, <1>3, <1>4, <1>5, <1>6 DEF Next, Rules

LEMMA QueuesStep ==
  ASSUME IInv, QueuesOK, [Next]_vars
  PROVE  QueuesOK'
<1> USE DEF QueuesOK, Depth
<1>0. leftData \in Seq(Requests) /\ rightData \in Seq(Requests)
  BY DEF IInv, Shapes
<1>1. ASSUME NEW r \in Requests, Request(r) PROVE QueuesOK'
  <2>1. \/ leftData' = leftData
        \/ Len(leftData) < 2 /\ leftData' = Append(leftData, r)
    <3>1. CASE r.acctype = Fetch
      BY <1>1, <3>1 DEF Request
    <3>2. CASE r.acctype # Fetch
      BY <1>1, <3>2 DEF Request
    <3> QED
      BY <3>1, <3>2
  <2>2. \/ rightData' = rightData
        \/ Len(rightData) < 2 /\ rightData' = Append(rightData, r)
    <3>1. CASE r.acctype = Fetch
      BY <1>1, <3>1 DEF Request
    <3>2. CASE r.acctype # Fetch
      BY <1>1, <3>2 DEF Request
    <3> QED
      BY <3>1, <3>2
  <2>3. Len(leftData') <= 2
    BY <1>0, <1>1, <2>1
  <2>4. Len(rightData') <= 2
    BY <1>0, <1>1, <2>2
  <2> QED
    BY <1>1, <2>3, <2>4 DEF Request, pismVars
<1>2. CASE outputFromLeft
  <2>1. leftData # <<>> /\ leftData' = Tail(leftData)
        /\ UNCHANGED <<rightData, pism_initialized>>
    BY <1>2 DEF outputFromLeft, source, pismVars
  <2> QED
    BY <1>0, <2>1
<1>3. CASE outputFromRight
  <2>1. rightData # <<>> /\ rightData' = Tail(rightData)
        /\ UNCHANGED <<leftData, pism_initialized>>
    BY <1>3 DEF outputFromRight, source, pismVars
  <2> QED
    BY <1>0, <2>1
<1>4. CASE setupPISMMemory
  BY <1>4 DEF setupPISMMemory, pism_init, Around, masterVars
<1>5. CASE \/ translateReqAndPrepareResp \/ putReq \/ completeErrorResp
           \/ completeWriteResp \/ completeReadResp \/ get \/ tickPISM \/ putIrqs
           \/ Connect \/ Type \/ HangUp \/ DebugRules \/ Hosts \/ UNCHANGED vars
  <2>1. UNCHANGED <<leftData, rightData, pism_initialized>>
    BY <1>5 DEF translateReqAndPrepareResp, putReq, pism_request_put, completeErrorResp,
                completeWriteResp, completeReadResp, Complete, pism_response_get, get,
                tickPISM, pism_cycle_tick, putIrqs, pism_interrupt_get, Connect, Type,
                HangUp, OtherEnd, Around, DebugRules, Hosts, Beside, vars, pismVars,
                masterVars
  <2> QED
    BY <2>1
<1> QED
  BY <1>1, <1>2, <1>3, <1>4, <1>5 DEF Next, Rules

LEMMA InitTyped == Init => DataOK /\ QueuesOK
<1> SUFFICES ASSUME Init PROVE DataOK /\ QueuesOK
  OBVIOUS
<1>1. wait \in [Timed -> 0 .. Delay] /\ UartOK(uart) /\ ImageOK(image)
  <2>1. wait \in [Timed -> 0 .. Delay]
    BY PismAssumption DEF Init, PismInit
  <2>2. UartOK(uart)
    BY DEF Init, PismInit, UartOK, UartFields
  <2>3. /\ image.block = [b \in 0 .. ArgRange \div SECTORSIZE - 1 |-> Zero]
        /\ image.size \in (1 .. Blocks * SECTORSIZE) \cup {0}
    BY DEF Init, PismInit
  <2>4. image.size \in 0 .. ArgRange
    BY <2>3, PismAssumption DEF SECTORSIZE
  <2>5. ImageOK(image)
    BY <2>3, <2>4, PismAssumption DEF ImageOK
  <2> QED
    BY <2>1, <2>2, <2>5
<1>2. \A d \in Drams : data[d] \in [Lanes -> Bytes]
  BY PismAssumption DEF Init, PismInit, Timed
<1>3. CardOK(data["sdcard"])
  <2>1. data["sdcard"] = [arg |-> 0, cmd |-> "none", asr |-> {}, rr1 |-> "ok", buf |-> Zero]
    BY PismAssumption DEF Init, PismInit, Timed
  <2>2. 0 \in 0 .. ArgRange - 1
    BY PismAssumption DEF SECTORSIZE
  <2> QED
    BY <2>1, <2>2, PismAssumption DEF CardOK
<1>4. QueuesOK
  <2>1. leftData = <<>> /\ rightData = <<>> /\ Len(<<>>) = 0
    BY DEF Init
  <2>2. pism_initialized \in BOOLEAN
    BY DEF Init, PismInit
  <2> QED
    BY <2>1, <2>2 DEF QueuesOK, Depth
<1> QED
  BY <1>1, <1>2, <1>3, <1>4 DEF DataOK

(* The FIFOs of PISM never overflow, only the device at the head of the    *)
(* response FIFO holds a request, and registers and memories keep their    *)
(* types, for every instance.                                              *)
THEOREM TypeCorrect == Spec => []TypeOK
<1>1. TInv => TypeOK
  <2> SUFFICES ASSUME TInv PROVE TypeOK
    OBVIOUS
  <2>1. \/ Idle
        \/ \E r : pism_fifo = <<r.dev>>
                 /\ \A d \in Devices : reqfifo[d] = IF d = r.dev THEN <<r>> ELSE <<>>
    BY DEF TInv, IInv, Serial, Asked
  <2>2. /\ Len(pism_fifo) < PISM_FIFO_DEPTH
        /\ \A d \in Devices : IF pism_fifo # <<>> /\ d = Head(pism_fifo)
                               THEN Len(reqfifo[d]) = 1 ELSE reqfifo[d] = <<>>
    <3>1. CASE Idle
      BY <3>1, PismAssumption DEF Idle
    <3>2. CASE \E r : pism_fifo = <<r.dev>>
                    /\ \A d \in Devices : reqfifo[d] = IF d = r.dev THEN <<r>> ELSE <<>>
      <4>1. PICK r : pism_fifo = <<r.dev>>
                     /\ \A d \in Devices : reqfifo[d] = IF d = r.dev THEN <<r>> ELSE <<>>
        BY <3>2
      <4>2. Head(pism_fifo) = r.dev /\ pism_fifo # <<>> /\ Len(pism_fifo) = 1 /\ Len(<<r>>) = 1
        BY <4>1, Ends
      <4> QED
        BY <4>1, <4>2, PismAssumption
    <3> QED
      BY <2>1, <3>1, <3>2
  <2>3. Len(completeResps) <= 1
    <3>1. CASE completeResps = <<>>
      BY <3>1
    <3>2. CASE completeResps # <<>>
      <4>1. PICK x : completeResps = <<x>>
        BY <3>2 DEF TInv, IInv, Shapes
      <4> QED
        BY <4>1
    <3> QED
      BY <3>1, <3>2
  <2> QED
    BY <2>2, <2>3 DEF TypeOK, TInv, IInv, Shapes, DataOK, QueuesOK, ImageOK, UartOK
<1>2. TInv /\ [Next]_vars => DataOK' /\ QueuesOK'
  BY DataStep, QueuesStep DEF TInv
<1> QED
  BY InitTyped, <1>1, <1>2, SerialAlways, PTL DEF Spec, TInv

-----------------------------------------------------------------------------
(***************************************************************************)
(* The commands of the card.  A store to a status register would make it   *)
(* say what the store says: drivers only read them.                        *)
(***************************************************************************)
StatusIsOnlyRead ==
  \A r \in Requests : (r.dev = "sdcard" /\ r.acctype = Store) =>
    "asr" \notin r.byteenable /\ "rr1" \notin r.byteenable

LEMMA RefusedIs ==
  ASSUME NEW sd, CardOK(sd), NEW e, NEW rr1
  PROVE  /\ Refused(sd, e, rr1)["cmd"] = sd["cmd"] /\ Refused(sd, e, rr1)["arg"] = sd["arg"]
         /\ Refused(sd, e, rr1)["asr"] = (sd["asr"] \ {"VALID"}) \cup e
  BY DEF CardOK, Refused

(* What the properties below ask of one command: of the registers before   *)
(* and after it and of the image before and after it.                      *)
DoneTold(old, new, img, img2) ==
  /\ ~SaysDone(old) /\ SaysDone(new) => Agree(new, img2)
  /\ SaysDone(old) /\ ~SaysDone(new) => "VALID" \notin new["asr"] /\ img2 = img

OnlyBlock(new, img, img2) ==
  /\ ~BadArgument(new) /\ img.size <= img2.size
  /\ \A b \in DOMAIN img.block : b # BlockOf(new) => img2.block[b] = img.block[b]

(* A read that shows VALID alone has loaded the block, and one that fails   *)
(* does not make the registers say done.                                   *)
LEMMA ReadSays ==
  ASSUME NEW sd, CardOK(sd), NEW img, ImageOK(img), NEW s \in sdcard_cmd_read(sd, img)
  PROVE  /\ s["cmd"] = sd["cmd"] /\ (s["asr"] = {"VALID"} => Agree(s, img))
         /\ DoneTold(sd, s, img, img)
<1>1. CASE BadArgument(sd) /\ s = Argument(sd)
  BY <1>1, RefusedIs DEF Argument, SaysDone, DoneTold
<1>2. CASE \E w \in Words \cup {Partial} : s = [Failed(sd) EXCEPT !["buf"] = w]
  <2>1. /\ s["cmd"] = sd["cmd"] /\ s["asr"] = sd["asr"] \cup {"DATAERROR"}
        /\ s["rr1"] = sd["rr1"]
    BY <1>2, FailedIs, BufferIs
  <2> QED
    BY <2>1 DEF SaysDone, DoneTold
<1>3. CASE /\ InFile(img, BlockOf(sd)) /\ img.block[BlockOf(sd)] \in Words \cup {Partial}
           /\ s = [Done(sd, {"VALID"}) EXCEPT !["buf"] = img.block[BlockOf(sd)]]
  <2>1. /\ s["cmd"] = sd["cmd"] /\ s["arg"] = sd["arg"] /\ s["asr"] = {"VALID"}
        /\ s["rr1"] = "ok" /\ s["buf"] = img.block[BlockOf(sd)]
    BY <1>3, DoneIs, BufferIs
  <2>2. Agree(s, img) /\ SaysDone(s)
    BY <1>3, <2>1 DEF Agree, BlockOf, SaysDone
  <2> QED
    BY <2>1, <2>2 DEF DoneTold
<1> QED
  BY <1>1, <1>2, <1>3, ReadEnds

(* A write that makes the registers say done is in the image, one that is  *)
(* in the image makes them say so, and no other block changes.             *)
LEMMA WriteSays ==
  ASSUME NEW sd, CardOK(sd), NEW img, ImageOK(img), NEW o \in sdcard_cmd_write(sd, img)
  PROVE  /\ o[1]["cmd"] = sd["cmd"] /\ DoneTold(sd, o[1], img, o[2])
         /\ ~SaysDone(o[1]) /\ o[1]["buf"] # Partial /\ Agree(o[1], o[2]) => Agree(o[1], img)
         /\ o[2] # img => OnlyBlock(o[1], img, o[2])
<1> DEFINE done  == Done(sd, {"VALID", "DATAERROR"})
           whole == Written(img, BlockOf(sd), sd["buf"])
           part  == WrittenShort(img, BlockOf(sd), sd["buf"])
<1>1. CASE BadArgument(sd) /\ o = <<Argument(sd), img>>
  BY <1>1, RefusedIs DEF Argument, SaysDone, DoneTold
<1>2. /\ Failed(sd)["cmd"] = sd["cmd"] /\ Failed(sd)["buf"] = sd["buf"]
      /\ BlockOf(Failed(sd)) = BlockOf(sd) /\ (SaysDone(Failed(sd)) <=> SaysDone(sd))
      /\ BadArgument(Failed(sd)) <=> BadArgument(sd)
  BY FailedIs DEF BlockOf, SaysDone, BadArgument, Misaligned, OutOfRange
<1>3. CASE ~BadArgument(sd) /\ o = <<Failed(sd), img>>
  BY <1>2, <1>3 DEF DoneTold
<1>4. CASE ~BadArgument(sd) /\ o = <<Failed(sd), part>>
  <2>1. /\ part.block[BlockOf(sd)] = Mixed(img.block[BlockOf(sd)], sd["buf"])
        /\ img.size <= part.size /\ (InFile(part, BlockOf(sd)) => InFile(img, BlockOf(sd)))
        /\ \A b \in DOMAIN img.block : b # BlockOf(sd) => part.block[b] = img.block[b]
    BY WrittenShortIs
  <2> HIDE DEF part
  <2>2. sd["buf"] # Partial /\ Agree(Failed(sd), part) => Agree(Failed(sd), img)
    BY <1>2, <2>1 DEF Agree, Mixed
  <2>3. o[1] = Failed(sd) /\ o[2] = part
    BY <1>4
  <2> QED
    BY <1>2, <1>4, <2>1, <2>2, <2>3 DEF DoneTold, OnlyBlock
<1>5. CASE ~BadArgument(sd) /\ o = <<done, whole>>
  <2>1. /\ done["cmd"] = sd["cmd"] /\ done["buf"] = sd["buf"] /\ BlockOf(done) = BlockOf(sd)
        /\ SaysDone(done) /\ ~BadArgument(done)
    BY <1>5, DoneIs DEF BlockOf, SaysDone, BadArgument, Misaligned, OutOfRange
  <2>2. /\ InFile(whole, BlockOf(sd)) /\ whole.block[BlockOf(sd)] = sd["buf"]
        /\ img.size <= whole.size
        /\ \A b \in DOMAIN img.block : b # BlockOf(sd) => whole.block[b] = img.block[b]
    BY WrittenIs
  <2>3. o[1] = done /\ o[2] = whole
    BY <1>5
  <2> HIDE DEF done, whole
  <2> QED
    BY <2>1, <2>2, <2>3 DEF Agree, DoneTold, OnlyBlock
<1> QED
  BY <1>1, <1>3, <1>4, <1>5, WriteEnds

LEMMA CardSays ==
  ASSUME StatusIsOnlyRead, NEW old, CardOK(old), NEW img, ImageOK(img),
         NEW r \in Requests, r.dev = "sdcard", r.acctype = Store, NEW sd, sd = Enabled(old, r),
         NEW o \in sdcard_cmd_handle(sd, img, r)
  PROVE  LET put(cmd) == "cmd" \in r.byteenable /\ o[1]["cmd"] = cmd
         IN  /\ put("READ_BLOCK") /\ o[1]["asr"] = {"VALID"} => Agree(o[1], img)
             /\ DoneTold(old, o[1], img, o[2])
             /\ ~SaysDone(old) /\ SaysDone(o[1]) => put("READ_BLOCK") \/ put("WRITE_BLOCK")
             /\ put("WRITE_BLOCK") /\ ~SaysDone(o[1]) /\ o[1]["buf"] # Partial
                /\ Agree(o[1], o[2]) => Agree(o[1], img)
             /\ o[2] # img => put("WRITE_BLOCK") /\ OnlyBlock(o[1], img, o[2])
<1>1. CardOK(sd)
  <2>1. /\ "arg" \in r.byteenable => r.data["arg"] \in 0 .. ArgRange - 1
        /\ "buf" \in r.byteenable => r.data["buf"] \in Words
    BY PismAssumption
  <2> QED
    BY <2>1 DEF CardOK, Enabled
<1>2. sd["asr"] = old["asr"] /\ sd["rr1"] = old["rr1"]
  BY DEF StatusIsOnlyRead, Enabled, CardOK
<1>3. (SaysDone(sd) <=> SaysDone(old)) /\ \A n, i : DoneTold(sd, n, img, i) => DoneTold(old, n, img, i)
  BY <1>2 DEF SaysDone, DoneTold
<1>4. CASE "cmd" \notin r.byteenable
  <2>1. o = <<sd, img>>
    BY <1>4 DEF sdcard_cmd_handle
  <2> QED
    BY <1>3, <1>4, <2>1 DEF DoneTold
<1>5. CASE "cmd" \in r.byteenable /\ sd["cmd"] = "READ_BLOCK"
  <2>1. PICK s \in sdcard_cmd_read(sd, img) : o = <<s, img>>
    BY <1>5 DEF sdcard_cmd_handle
  <2>2. /\ s["cmd"] = sd["cmd"] /\ (s["asr"] = {"VALID"} => Agree(s, img))
        /\ DoneTold(sd, s, img, img)
    BY <1>1, ReadSays
  <2>3. o[1] = s /\ o[2] = img
    BY <2>1
  <2> QED
    BY <1>3, <1>5, <2>2, <2>3
<1>6. CASE "cmd" \in r.byteenable /\ sd["cmd"] = "WRITE_BLOCK"
  <2>1. o \in sdcard_cmd_write(sd, img)
    BY <1>6 DEF sdcard_cmd_handle
  <2>2. /\ o[1]["cmd"] = sd["cmd"] /\ DoneTold(sd, o[1], img, o[2])
        /\ ~SaysDone(o[1]) /\ o[1]["buf"] # Partial /\ Agree(o[1], o[2]) => Agree(o[1], img)
        /\ o[2] # img => OnlyBlock(o[1], img, o[2])
    BY <1>1, <2>1, WriteSays
  <2> QED
    BY <1>3, <1>6, <2>2
<1>7. CASE "cmd" \in r.byteenable /\ sd["cmd"] \notin {"READ_BLOCK", "WRITE_BLOCK"}
  <2>1. o = <<Refused(sd, {}, "illegal"), img>>
    BY <1>7 DEF sdcard_cmd_handle
  <2>2. o[1]["cmd"] = sd["cmd"] /\ o[2] = img /\ "VALID" \notin o[1]["asr"]
    BY <1>1, <2>1, RefusedIs
  <2> QED
    BY <1>7, <2>2 DEF DoneTold, SaysDone
<1> QED
  BY <1>4, <1>5, <1>6, <1>7

(* Only putReq empties pismRequests, changes the card or its image.        *)
LEMMA CardElsewhere ==
  ASSUME IInv, [Next]_vars, ~putReq
  PROVE  /\ image' = image /\ data'["sdcard"] = data["sdcard"]
         /\ ~(pismRequests # <<>> /\ pismRequests' = <<>>)
<1>1. CASE translateReqAndPrepareResp
  <2>1. UNCHANGED <<data, image>> /\ pismRequests = <<>>
    BY <1>1 DEF translateReqAndPrepareResp, NotFull, pismVars
  <2> QED
    BY <2>1
<1>2. CASE \/ \E r \in Requests : Request(r)
           \/ outputFromLeft \/ outputFromRight \/ get
           \/ completeErrorResp \/ completeWriteResp \/ completeReadResp
           \/ setupPISMMemory \/ tickPISM \/ putIrqs \/ Connect \/ Type \/ HangUp
           \/ DebugRules \/ Hosts \/ UNCHANGED vars
  <2>1. UNCHANGED <<data, image, pismRequests>>
    BY <1>2 DEF Request, outputFromLeft, outputFromRight, get, completeErrorResp,
                completeWriteResp, completeReadResp, Complete, pism_response_get,
                setupPISMMemory, pism_init, tickPISM, pism_cycle_tick, putIrqs,
                pism_interrupt_get, Connect, Type, HangUp, OtherEnd, Around, DebugRules,
                Hosts, Beside, vars, pismVars, tlmVars
  <2> QED
    BY <2>1
<1> QED
  BY <1>1, <1>2 DEF Next, Rules

LEMMA CommandStep ==
  ASSUME StatusIsOnlyRead, IInv, DataOK, [Next]_vars
  PROVE  ReadReported /\ DoneReported /\ OnlyItsBlock
<1>1. CASE ~putReq
  BY <1>1, CardElsewhere DEF ReadReported, DoneReported, OnlyItsBlock, CommandPut
<1>2. CASE putReq
  <2>1. PICK r \in Requests : pismRequests = <<r>>
    BY <1>2, InOne DEF IInv, Shapes, putReq
  <2>2. pism_request_put(r) /\ pismRequests' = <<>> /\ pismRequests # <<>> /\ Head(pismRequests) = r
    BY <1>2, <2>1, Ends DEF putReq
  <2>3. r.dev \in Devices
    BY <2>1, PutIs, PismAssumption DEF pism_addr_valid, IInv, Shapes
  <2>4. CASE r.acctype # Store \/ r.dev # "sdcard"
    <3>1. image' = image
      BY <2>2, <2>3, <2>4, PismAssumption DEF pism_request_put, DeviceStore, Devices, Timed
    <3>2. data'["sdcard"] = data["sdcard"]
      <4>1. data' = data \/ (data' = [data EXCEPT ![r.dev] = Enabled(@, r)] /\ r.dev \in Drams)
        BY <2>2, <2>3, <2>4, PismAssumption DEF pism_request_put, DeviceStore, Devices, Timed
      <4>2. data = [d \in Timed |-> data[d]] /\ "sdcard" \in Timed /\ "sdcard" \notin Drams
        BY PismAssumption DEF IInv, Shapes, Timed
      <4> QED
        BY <4>1, <4>2
    <3> QED
      BY <2>2, <2>4, <3>1, <3>2 DEF ReadReported, DoneReported, OnlyItsBlock, CommandPut
  <2>5. CASE r.acctype = Store /\ r.dev = "sdcard"
    <3> DEFINE old == data["sdcard"]
               sd  == Enabled(old, r)
               put(cmd) == "cmd" \in r.byteenable /\ data'["sdcard"]["cmd"] = cmd
    <3>1. PICK o \in sdcard_cmd_handle(sd, image, r) :
            data' = [data EXCEPT !["sdcard"] = o[1]] /\ image' = o[2]
      BY <2>2, <2>5, PismAssumption DEF pism_request_put, DeviceStore
    <3>2. data'["sdcard"] = o[1]
      BY <3>1 DEF IInv, Shapes, Timed
    <3>3. CardOK(old) /\ ImageOK(image)
      BY DEF DataOK
    <3>4. \A cmd : CommandPut(cmd) <=> put(cmd)
      BY <2>2, <2>5 DEF CommandPut
    <3> HIDE DEF old, sd
    <3>5. sd = Enabled(old, r)
      BY DEF sd
    <3>6. /\ put("READ_BLOCK") /\ data'["sdcard"]["asr"] = {"VALID"} =>
               Agree(data'["sdcard"], image)
          /\ DoneTold(old, data'["sdcard"], image, image')
          /\ ~SaysDone(old) /\ SaysDone(data'["sdcard"]) =>
               put("READ_BLOCK") \/ put("WRITE_BLOCK")
          /\ put("WRITE_BLOCK") /\ ~SaysDone(data'["sdcard"])
             /\ data'["sdcard"]["buf"] # Partial /\ Agree(data'["sdcard"], image') =>
               Agree(data'["sdcard"], image)
          /\ image' # image =>
               put("WRITE_BLOCK") /\ OnlyBlock(data'["sdcard"], image, image')
      BY <2>5, <3>1, <3>2, <3>3, <3>5, CardSays
    <3> HIDE DEF put
    <3>7. ReadReported
      BY <3>4, <3>6 DEF ReadReported
    <3>8. DoneReported
      BY <3>4, <3>6 DEF DoneReported, DoneTold, old
    <3>9. OnlyItsBlock
      BY <3>4, <3>6 DEF OnlyItsBlock, OnlyBlock
    <3> QED
      BY <3>7, <3>8, <3>9
  <2> QED
    BY <2>4, <2>5
<1> QED
  BY <1>1, <1>2

(* How far the status registers of the card can be relied on (sdcard.c),   *)
(* for any card, image and requests, if none writes these registers: VALID *)
(* alone after a read means that the block was loaded; the registers begin *)
(* to say done only with a command that completes, do so after every write *)
(* that completes, and stop only with one that is refused; and a write,    *)
(* also one that failed half way, changes no other block.  They do not say *)
(* that the last write completed if they said done before it.              *)
THEOREM CommandsReported ==
  ASSUME StatusIsOnlyRead
  PROVE  Spec => CommandReported
<1>1. Init => DataOK
  BY InitTyped
<1>2. IInv /\ DataOK /\ [Next]_vars => DataOK'
  BY DataStep
<1>3. IInv /\ DataOK /\ [Next]_vars => [ReadReported /\ DoneReported /\ OnlyItsBlock]_vars
  BY CommandStep
<1> QED
  BY <1>1, <1>2, <1>3, SerialAlways, PTL DEF Spec, CommandReported

-----------------------------------------------------------------------------
(* The input of the UART, for any connections, bytes and requests: what    *)
(* the processor reads is what was typed.                                  *)
Byte == Nat \X Nat

-----------------------------------------------------------------------------
(* Sequences of bytes in turn. *)
Ordered(s, c) ==
  /\ s \in Seq(Byte)
  /\ \A i \in DOMAIN s : InTurn(s, i) /\ s[i][1] <= c

(* What connection c has typed, m bytes. *)
Whole(c, m) == [n \in 1 .. m |-> <<c, n>>]

LEMMA WholeIs ==
  ASSUME NEW c \in Nat, NEW m \in Nat
  PROVE  /\ Whole(c, m) \in Seq(Byte) /\ Len(Whole(c, m)) = m
         /\ \A n \in 1 .. m : Whole(c, m)[n] = <<c, n>>
  BY DEF Whole, Byte

LEMMA WholeGrows ==
  ASSUME NEW c \in Nat, NEW m \in Nat
  PROVE  Append(Whole(c, m), <<c, m + 1>>) = Whole(c, m + 1)
<1> DEFINE s == Append(Whole(c, m), <<c, m + 1>>)
<1>1. s \in Seq(Byte) /\ Len(s) = m + 1 /\ \A i \in 1 .. Len(s) : s[i] = <<c, i>>
  <2> DEFINE w == Whole(c, m)
  <2>1. w \in Seq(Byte) /\ Len(w) = m /\ \A n \in 1 .. m : w[n] = <<c, n>>
    BY WholeIs
  <2>2. <<c, m + 1>> \in Byte
    BY DEF Byte
  <2> HIDE DEF w
  <2>3. /\ Append(w, <<c, m + 1>>) \in Seq(Byte) /\ Len(Append(w, <<c, m + 1>>)) = m + 1
        /\ \A i \in 1 .. m : Append(w, <<c, m + 1>>)[i] = w[i]
        /\ Append(w, <<c, m + 1>>)[m + 1] = <<c, m + 1>>
    BY <2>1, <2>2
  <2>4. \A i \in 1 .. m + 1 : i \in 1 .. m \/ i = m + 1
    OBVIOUS
  <2> QED
    BY <2>1, <2>3, <2>4 DEF w
<1> HIDE DEF s
<1>2. /\ Whole(c, m + 1) \in Seq(Byte) /\ Len(Whole(c, m + 1)) = m + 1
      /\ \A i \in 1 .. m + 1 : Whole(c, m + 1)[i] = <<c, i>>
  <2> DEFINE k == m + 1
  <2>1. k \in Nat
    OBVIOUS
  <2> HIDE DEF k
  <2>2. /\ Whole(c, k) \in Seq(Byte) /\ Len(Whole(c, k)) = k
        /\ \A i \in 1 .. k : Whole(c, k)[i] = <<c, i>>
    BY <2>1, WholeIs
  <2> QED
    BY <2>2 DEF k
<1>3. s = Whole(c, m + 1)
  BY <1>1, <1>2, SeqEqual
<1> QED
  BY <1>3 DEF s

LEMMA AppendIs ==
  ASSUME NEW s \in Seq(Byte), NEW b \in Byte
  PROVE  Append(s, b) = s \o <<b>>
<1>1. /\ Append(s, b) \in Seq(Byte) /\ Len(Append(s, b)) = Len(s) + 1
      /\ \A i \in 1 .. Len(s) : Append(s, b)[i] = s[i]
      /\ Append(s, b)[Len(s) + 1] = b /\ Len(s) \in Nat
  OBVIOUS
<1>2. <<b>> \in Seq(Byte) /\ Len(<<b>>) = 1 /\ <<b>>[1] = b
  OBVIOUS
<1>3. /\ s \o <<b>> \in Seq(Byte) /\ Len(s \o <<b>>) = Len(s) + 1
      /\ \A i \in 1 .. Len(s) + 1 : (s \o <<b>>)[i] = IF i <= Len(s) THEN s[i] ELSE <<b>>[i - Len(s)]
  BY <1>2, ConcatProperties
<1>4. \A i \in 1 .. Len(Append(s, b)) : Append(s, b)[i] = (s \o <<b>>)[i]
  <2> TAKE i \in 1 .. Len(Append(s, b))
  <2>1. CASE i \in 1 .. Len(s)
    BY <1>1, <1>3, <2>1
  <2>2. CASE i = Len(s) + 1
    <3>1. (s \o <<b>>)[i] = <<b>>[1]
      BY <1>1, <1>3, <2>2
    <3> QED
      BY <1>1, <1>2, <2>2, <3>1
  <2> QED
    BY <1>1, <2>1, <2>2
<1> QED
  BY <1>1, <1>3, <1>4, SeqEqual

LEMMA Regroup ==
  ASSUME NEW s \in Seq(Byte), NEW t \in Seq(Byte), NEW u \in Seq(Byte)
  PROVE  (s \o t) \o u = s \o (t \o u)
  BY ConcatAssociative

LEMMA AppendBehind ==
  ASSUME NEW s \in Seq(Byte), NEW t \in Seq(Byte), NEW b \in Byte
  PROVE  s \o Append(t, b) = Append(s \o t, b)
<1>1. <<b>> \in Seq(Byte)
  OBVIOUS
<1>2. Append(t, b) = t \o <<b>>
  BY AppendIs
<1>3. s \o t \in Seq(Byte)
  BY ConcatProperties
<1>4. Append(s \o t, b) = (s \o t) \o <<b>>
  BY <1>3, AppendIs
<1>5. (s \o t) \o <<b>> = s \o (t \o <<b>>)
  BY <1>1, Regroup
<1> QED
  BY <1>2, <1>4, <1>5

LEMMA HeadThenTail ==
  ASSUME NEW s \in Seq(Byte), s # <<>>
  PROVE  <<Head(s)>> \o Tail(s) = s
<1> DEFINE h == <<Head(s)>>
           t == Tail(s)
<1>1. /\ h \in Seq(Byte) /\ Len(h) = 1 /\ h[1] = s[1] /\ s \in Seq(Byte)
      /\ t \in Seq(Byte) /\ Len(s) \in Nat \ {0} /\ Len(t) = Len(s) - 1
      /\ \A i \in 1 .. Len(t) : t[i] = s[i + 1]
  BY HeadTailProperties, EmptySeq, LenProperties
<1> HIDE DEF h, t
<1>2. /\ h \o t \in Seq(Byte) /\ Len(h \o t) = Len(s)
      /\ \A i \in 1 .. Len(s) : (h \o t)[i] = IF i <= 1 THEN h[i] ELSE t[i - 1]
  <2>1. /\ h \o t \in Seq(Byte) /\ Len(h \o t) = Len(h) + Len(t)
        /\ \A i \in 1 .. Len(h) + Len(t) :
              (h \o t)[i] = IF i <= Len(h) THEN h[i] ELSE t[i - Len(h)]
    BY <1>1, ConcatProperties
  <2>2. Len(h) + Len(t) = Len(s)
    BY <1>1
  <2> QED
    BY <1>1, <2>1, <2>2
<1>3. ASSUME NEW i \in 1 .. Len(s)
      PROVE  (h \o t)[i] = s[i]
  <2>1. CASE i = 1
    BY <1>1, <1>2, <2>1
  <2>2. CASE i > 1
    <3> DEFINE j == i - 1
    <3>1. j \in 1 .. Len(t) /\ j + 1 = i /\ ~(i <= 1)
      BY <1>1, <2>2
    <3>2. (h \o t)[i] = IF i <= 1 THEN h[i] ELSE t[j]
      BY <1>2
    <3> HIDE DEF j
    <3>3. t[j] = s[j + 1]
      BY <1>1, <3>1
    <3>4. t[j] = s[i]
      BY <3>1, <3>3
    <3>5. (h \o t)[i] = t[j]
      BY <2>2, <3>1, <3>2
    <3> QED
      BY <3>4, <3>5
  <2>3. i = 1 \/ i > 1
    OBVIOUS
  <2> QED
    BY <2>1, <2>2, <2>3
<1> QED
  BY <1>1, <1>2, <1>3, SeqEqual DEF h, t

LEMMA ByteIsOne ==
  ASSUME NEW b \in Byte
  PROVE  b # NoByte
<1>1. PICK m \in Nat, n \in Nat : b = <<m, n>>
  BY DEF Byte
<1>2. <<m, n>> # <<>>
  OBVIOUS
<1> QED
  BY <1>1, <1>2 DEF NoByte

(* What has arrived remains in turn when the rest of a line is dropped. *)
LEMMA OrderedPrefix ==
  ASSUME NEW c, NEW s \in Seq(Byte), NEW t \in Seq(Byte), Ordered(s \o t, c)
  PROVE  Ordered(s, c)
<1>1. /\ Len(s \o t) = Len(s) + Len(t) /\ Len(s) \in Nat /\ Len(t) \in Nat
      /\ \A i \in 1 .. Len(s) : (s \o t)[i] = s[i]
  BY ConcatProperties, LenProperties
<1>2. DOMAIN s = 1 .. Len(s) /\ DOMAIN (s \o t) = 1 .. Len(s) + Len(t)
  BY <1>1, LenProperties, ConcatProperties
<1> SUFFICES ASSUME NEW i \in 1 .. Len(s)
             PROVE  InTurn(s, i) /\ s[i][1] <= c
  BY <1>2 DEF Ordered
<1>3. InTurn(s \o t, i) /\ (s \o t)[i][1] <= c /\ (s \o t)[i] = s[i]
  BY <1>1, <1>2 DEF Ordered
<1>4. i > 1 => (s \o t)[i - 1] = s[i - 1]
  BY <1>1
<1> QED
  BY <1>3, <1>4 DEF InTurn

(* A new line begins after the bytes of earlier ones. *)
LEMMA OrderedNext ==
  ASSUME NEW b \in Nat, NEW c \in Nat, b < c, NEW m \in Nat, NEW s, Ordered(s, b)
  PROVE  Ordered(s \o Whole(c, m), c) /\ LastOf(s \o Whole(c, m), c) = m
<1> DEFINE w == Whole(c, m)
           t == s \o w
<1>1. s \in Seq(Byte) /\ Len(s) \in Nat /\ DOMAIN s = 1 .. Len(s)
  BY LenProperties DEF Ordered
<1>2. w \in Seq(Byte) /\ Len(w) = m /\ \A n \in 1 .. m : w[n] = <<c, n>>
  BY WholeIs
<1> HIDE DEF w
<1>3. /\ t \in Seq(Byte) /\ Len(t) = Len(s) + m /\ DOMAIN t = 1 .. Len(s) + m
      /\ \A i \in 1 .. Len(s) : t[i] = s[i]
      /\ \A i \in Len(s) + 1 .. Len(s) + m : t[i] = <<c, i - Len(s)>>
  <2>1. /\ t \in Seq(Byte) /\ Len(t) = Len(s) + m
        /\ \A i \in 1 .. Len(s) + m : t[i] = IF i <= Len(s) THEN s[i] ELSE w[i - Len(s)]
    BY <1>1, <1>2, ConcatProperties
  <2> HIDE DEF t
  <2> QED
    BY <1>1, <1>2, <2>1, LenProperties
<1> HIDE DEF t
<1>4. \A i \in 1 .. Len(s) : s[i][1] <= b /\ InTurn(s, i) /\ s[i][1] \in Nat
  BY <1>1, ElementOfSeq DEF Ordered, Byte
<1>5. ASSUME NEW i \in 1 .. Len(s) + m
      PROVE  InTurn(t, i) /\ t[i][1] <= c
  <2>1. CASE i <= Len(s)
    <3>1. t[i] = s[i] /\ (i > 1 => t[i - 1] = s[i - 1])
      BY <1>1, <1>3, <2>1
    <3> QED
      BY <1>4, <2>1, <3>1 DEF InTurn
  <2>2. CASE i = Len(s) + 1
    <3>1. t[i] = <<c, 1>>
      BY <1>1, <1>3, <2>2
    <3>2. i > 1 => t[i - 1] = s[Len(s)] /\ s[Len(s)][1] < c
      <4>1. i > 1 => Len(s) \in 1 .. Len(s) /\ i - 1 = Len(s)
        BY <1>1, <2>2
      <4>2. i > 1 => s[Len(s)][1] <= b /\ s[Len(s)][1] \in Nat /\ t[i - 1] = s[Len(s)]
        BY <1>3, <1>4, <4>1
      <4> QED
        BY <4>2
    <3> QED
      BY <3>1, <3>2 DEF InTurn
  <2>3. CASE i > Len(s) + 1
    <3> DEFINE n == i - 1 - Len(s)
    <3>1. /\ i - 1 \in Len(s) + 1 .. Len(s) + m /\ i > 1
          /\ n \in Nat /\ i - Len(s) = n + 1
      BY <1>1, <2>3
    <3>2. t[i] = <<c, n + 1>> /\ t[i - 1] = <<c, n>>
      BY <1>1, <1>3, <2>3, <3>1
    <3> HIDE DEF n
    <3>3. t[i] = <<t[i - 1][1], t[i - 1][2] + 1>> /\ t[i][1] = c
      BY <3>2
    <3> QED
      BY <3>1, <3>3 DEF InTurn
  <2> QED
    BY <1>1, <2>1, <2>2, <2>3
<1>6. LastOf(t, c) = m
  <2>1. CASE m = 0
    <3>1. t # <<>> => t[Len(t)][1] < c
      BY <1>1, <1>3, <1>4, <2>1, EmptySeq
    <3> QED
      BY <1>1, <1>3, <1>4, <2>1, <3>1 DEF LastOf
  <2>2. CASE m > 0
    <3>1. t # <<>> /\ t[Len(t)] = <<c, m>>
      BY <1>1, <1>3, <2>2
    <3> QED
      BY <3>1 DEF LastOf
  <2> QED
    BY <2>1, <2>2
<1>7. Ordered(t, c)
  BY <1>3, <1>5 DEF Ordered
<1> QED
  BY <1>6, <1>7 DEF t, w

(* One more byte is typed. *)
LEMMA OrderedMore ==
  ASSUME NEW c \in Nat, NEW m \in Nat, NEW s, Ordered(s, c), LastOf(s, c) = m
  PROVE  /\ Ordered(Append(s, <<c, m + 1>>), c)
         /\ LastOf(Append(s, <<c, m + 1>>), c) = m + 1
<1> DEFINE d == <<c, m + 1>>
           t == Append(s, d)
<1>0. d \in Byte /\ d = <<c, m + 1>>
  BY DEF Byte
<1> HIDE DEF d
<1>1. s \in Seq(Byte) /\ Len(s) \in Nat /\ DOMAIN s = 1 .. Len(s)
  BY LenProperties DEF Ordered
<1>2. /\ t \in Seq(Byte) /\ Len(t) = Len(s) + 1 /\ DOMAIN t = 1 .. Len(s) + 1
      /\ \A i \in 1 .. Len(s) : t[i] = s[i]
      /\ t[Len(s) + 1] = <<c, m + 1>>
  <2>1. /\ t \in Seq(Byte) /\ Len(t) = Len(s) + 1
        /\ \A i \in 1 .. Len(s) : t[i] = s[i]
        /\ t[Len(s) + 1] = d
    BY <1>0, <1>1
  <2> HIDE DEF t
  <2>2. DOMAIN t = 1 .. Len(t)
    BY <2>1, LenProperties
  <2> QED
    BY <1>0, <2>1, <2>2
<1> HIDE DEF t
<1>3. \A i \in 1 .. Len(s) : s[i][1] <= c /\ InTurn(s, i) /\ s[i] = <<s[i][1], s[i][2]>>
                            /\ s[i][1] \in Nat /\ s[i][2] \in Nat
  BY <1>1, ElementOfSeq DEF Ordered, Byte
<1>4. ASSUME NEW i \in 1 .. Len(s) + 1
      PROVE  InTurn(t, i) /\ t[i][1] <= c
  <2>1. CASE i <= Len(s)
    <3>1. t[i] = s[i] /\ (i > 1 => t[i - 1] = s[i - 1])
      BY <1>1, <1>2, <2>1
    <3> QED
      BY <1>3, <2>1, <3>1 DEF InTurn
  <2>2. CASE i = Len(s) + 1
    <3>1. t[i] = <<c, m + 1>> /\ t[i][1] <= c
      BY <1>2, <2>2
    <3>2. i > 1 => t[i - 1] = s[Len(s)] /\ s # <<>>
      BY <1>1, <1>2, <2>2, EmptySeq
    <3>3. CASE i > 1 /\ s[Len(s)][1] = c
      <4>1. s[Len(s)][2] = m
        BY <3>2, <3>3 DEF LastOf
      <4> QED
        BY <3>1, <3>2, <3>3, <4>1 DEF InTurn
    <3>4. CASE i > 1 /\ s[Len(s)][1] # c
      <4>1. m = 0 /\ s[Len(s)][1] < c
        BY <1>1, <1>3, <2>2, <3>2, <3>4 DEF LastOf
      <4> QED
        BY <3>1, <3>2, <3>4, <4>1 DEF InTurn
    <3>5. CASE i = 1
      <4>1. s = <<>>
        BY <1>1, <2>2, <3>5, EmptySeq
      <4>2. m = 0
        BY <4>1 DEF LastOf
      <4> QED
        BY <3>1, <3>5, <4>2 DEF InTurn
    <3> QED
      BY <3>3, <3>4, <3>5
  <2> QED
    BY <1>1, <2>1, <2>2
<1>5. LastOf(t, c) = m + 1
  <2>1. t # <<>> /\ t[Len(t)] = <<c, m + 1>>
    BY <1>1, <1>2
  <2> QED
    BY <2>1 DEF LastOf
<1>6. Ordered(t, c)
  BY <1>2, <1>4 DEF Ordered
<1> QED
  BY <1>5, <1>6 DEF t, d

-----------------------------------------------------------------------------
(* The invariant, of what has arrived and of a UART: what has arrived is   *)
(* in turn and so is the line behind it, up to the last byte typed; a      *)
(* caller is of a later connection and nothing of it has been read.        *)
Line == [conn : Nat, wire : Seq(Byte), typed : Nat, open : BOOLEAN]

CallerOK(u) ==
  \/ u.caller = <<>>
  \/ \E l \in Line : /\ u.caller = <<l>> /\ l.wire = Whole(l.conn, l.typed)
                     /\ u.line.conn < l.conn /\ l.conn <= u.conns

Fed(log, u) ==
  /\ DOMAIN u = UartFields
  /\ u.fdinput \in BOOLEAN /\ u.line \in Line /\ u.conns \in Nat /\ u.line.conn <= u.conns
  /\ log \in Seq(Byte) /\ Ordered(log \o Unread(u), u.line.conn)
  /\ u.fdinput => LastOf(log \o Unread(u), u.line.conn) = u.line.typed
  /\ CallerOK(u)

LEMMA FedSame ==
  ASSUME NEW log, NEW u, Fed(log, u), NEW v, DOMAIN v = UartFields,
         v.fdinput = u.fdinput, v.line = u.line, v.caller = u.caller, v.conns = u.conns
  PROVE  Fed(log, v)
  BY DEF Fed, Unread, CallerOK

LEMMA FedLog ==
  ASSUME NEW log, NEW u, Fed(log, u)
  PROVE  Ordered(log, u.line.conn) /\ Unread(u) \in Seq(Byte)
<1>1. log \in Seq(Byte) /\ Unread(u) \in Seq(Byte)
  BY EmptySeq DEF Fed, Unread, Line
<1> QED
  BY <1>1, OrderedPrefix DEF Fed

(* A connection is closed with what is still unread. *)
LEMMA FedClosed ==
  ASSUME NEW log, NEW u, Fed(log, u)
  PROVE  Fed(log, uart_dev_socket_cleanup(u))
<1> DEFINE v == uart_dev_socket_cleanup(u)
<1>1. /\ DOMAIN v = UartFields /\ v.fdinput = FALSE /\ v.line = u.line
      /\ v.caller = u.caller /\ v.conns = u.conns
  BY DEF Fed, UartFields, uart_dev_socket_cleanup
<1> HIDE DEF v
<1>2. log \o Unread(v) = log
  BY <1>1, ConcatEmptySeq DEF Fed, Unread
<1>3. Fed(log, v)
  BY <1>1, <1>2, FedLog DEF Fed, CallerOK
<1> QED
  BY <1>3 DEF v

(* A caller's connection is accepted. *)
LEMMA FedPolled ==
  ASSUME NEW log, NEW u, Fed(log, u)
  PROVE  Fed(log, uart_dev_listensock_poll(u))
<1> DEFINE v == [u EXCEPT !.fdinput = TRUE, !.fdoutput = TRUE,
                          !.line = Head(u.caller), !.caller = <<>>]
<1>1. CASE u.caller # <<>>
  <2>1. PICK l \in Line : /\ u.caller = <<l>> /\ l.wire = Whole(l.conn, l.typed)
                          /\ u.line.conn < l.conn /\ l.conn <= u.conns
    BY <1>1 DEF Fed, CallerOK
  <2>2. /\ DOMAIN v = UartFields /\ v.fdinput = TRUE /\ v.line = l
        /\ v.caller = <<>> /\ v.conns = u.conns
    BY <2>1, Ends DEF Fed, UartFields
  <2> HIDE DEF v
  <2>3. u.line.conn \in Nat /\ l.conn \in Nat /\ l.typed \in Nat
    BY <2>1 DEF Fed, Line
  <2>4. /\ Ordered(log \o Whole(l.conn, l.typed), l.conn)
        /\ LastOf(log \o Whole(l.conn, l.typed), l.conn) = l.typed
    BY <2>1, <2>3, FedLog, OrderedNext
  <2>5. Fed(log, v)
    BY <2>1, <2>2, <2>4 DEF Fed, Unread, CallerOK
  <2> QED
    BY <2>5 DEF v, uart_dev_listensock_poll
<1>2. CASE u.caller = <<>>
  BY <1>2 DEF uart_dev_listensock_poll
<1> QED
  BY <1>1, <1>2

(* The byte that is found has arrived, and is gone from the line.          *)
Found(b) == IF b # NoByte THEN <<b>> ELSE <<>>

LEMMA FedFetched ==
  ASSUME NEW log, NEW u, Fed(log, u)
  PROVE  Fed(log \o Found(uart_dev_fetch_byte(u)), uart_dev_fetch(u))
<1> DEFINE v == uart_dev_listensock_poll(u)
           w == [v EXCEPT !.line.wire = Tail(@)]
           b == Head(v.line.wire)
<1>1. Fed(log, v) /\ Fed(log, uart_dev_socket_cleanup(v))
  BY FedPolled, FedClosed
<1> HIDE DEF v
<1>2. CASE v.fdinput /\ v.line.wire # <<>>
  <2>1. /\ v.line \in Line /\ v.line.wire \in Seq(Byte) /\ DOMAIN v = UartFields
        /\ log \in Seq(Byte)
    BY <1>1 DEF Fed, Line
  <2>2. /\ b \in Byte /\ Tail(v.line.wire) \in Seq(Byte)
    BY <1>2, <2>1, HeadTailProperties
  <2>3. /\ DOMAIN w = UartFields /\ w.fdinput = v.fdinput /\ w.caller = v.caller
        /\ w.conns = v.conns /\ w.line = [v.line EXCEPT !.wire = Tail(v.line.wire)]
    BY <2>1 DEF UartFields
  <2>4. /\ w.line \in Line /\ w.line.wire = Tail(v.line.wire)
        /\ w.line.conn = v.line.conn /\ w.line.typed = v.line.typed
    <3> DEFINE r == Tail(v.line.wire)
               k == [v.line EXCEPT !.wire = r]
    <3>1. r \in Seq(Byte) /\ w.line = k
      BY <2>2, <2>3
    <3> HIDE DEF r, w
    <3>2. k \in Line /\ k.wire = r /\ k.conn = v.line.conn /\ k.typed = v.line.typed
      BY <2>1, <3>1 DEF Line
    <3> QED
      BY <3>1, <3>2 DEF r
  <2>5. /\ <<b>> \in Seq(Byte) /\ log \o <<b>> \in Seq(Byte)
        /\ <<b>> \o Tail(v.line.wire) = v.line.wire
    <3>1. <<b>> \o Tail(v.line.wire) = v.line.wire
      BY <1>2, <2>1, HeadThenTail
    <3> HIDE DEF b
    <3>2. <<b>> \in Seq(Byte)
      BY <2>2
    <3> QED
      BY <2>1, <3>1, <3>2, ConcatProperties
  <2> HIDE DEF w, b
  <2>6. (log \o <<b>>) \o Tail(v.line.wire) = log \o v.line.wire
    <3>1. (log \o <<b>>) \o Tail(v.line.wire) = log \o (<<b>> \o Tail(v.line.wire))
      BY <2>1, <2>2, <2>5, Regroup
    <3> QED
      BY <2>5, <3>1
  <2>7. Fed(log \o <<b>>, w)
    BY <1>1, <1>2, <2>3, <2>4, <2>5, <2>6 DEF Fed, Unread, CallerOK
  <2>8. uart_dev_fetch(u) = w
    BY <1>2 DEF uart_dev_fetch, v, w, POLLIN
  <2>9. uart_dev_fetch_byte(u) = b
    BY <1>2 DEF uart_dev_fetch_byte, v, b
  <2>10. b # NoByte
    BY <2>2, ByteIsOne
  <2> QED
    BY <2>7, <2>8, <2>9, <2>10 DEF Found
<1>3. CASE ~(v.fdinput /\ v.line.wire # <<>>)
  <2>1. log \o Found(uart_dev_fetch_byte(u)) = log
    BY <1>1, <1>3, ConcatEmptySeq DEF Fed, Found, uart_dev_fetch_byte, v
  <2>2. uart_dev_fetch(u) = v \/ uart_dev_fetch(u) = uart_dev_socket_cleanup(v)
    <3>1. CASE POLLIN(v)
      <4>1. v.line.wire = <<>>
        BY <1>3, <3>1 DEF POLLIN
      <4> QED
        BY <3>1, <4>1 DEF uart_dev_fetch, v
    <3>2. CASE ~POLLIN(v)
      BY <3>2 DEF uart_dev_fetch, v
    <3> QED
      BY <3>1, <3>2
  <2>3. Fed(log, uart_dev_fetch(u))
    BY <1>1, <2>2
  <2> QED
    BY <2>1, <2>3
<1> QED
  BY <1>2, <1>3

LEMMA FedUpdated ==
  ASSUME NEW log, NEW u, Fed(log, u)
  PROVE  Fed(log, uart_dev_control_update(u))
<1> DEFINE v  == IF "RE" \in u.control THEN uart_dev_listensock_poll(u) ELSE u
           AC == IF u.fdoutput \/ u.type = "null" THEN {"AC"} ELSE {}
           RI == IF "RE" \in u.control /\ POLLIN(v) THEN {"RI"} ELSE {}
           WI == IF "WE" \in u.control THEN {"WI"} ELSE {}
           c  == (u.control \cap {"RE", "WE"}) \cup AC \cup RI \cup WI
<1>1. Fed(log, v)
  BY FedPolled
<1>2. uart_dev_control_update(u) = [v EXCEPT !.control = c]
  BY DEF uart_dev_control_update
<1> HIDE DEF v, c
<1>3. Fed(log, [v EXCEPT !.control = c])
  BY <1>1, FedSame DEF Fed, UartFields
<1> QED
  BY <1>2, <1>3

LEMMA FedStored ==
  ASSUME NEW log, NEW u, Fed(log, u), NEW req
  PROVE  Fed(log, uart_dev_store(u, req))
<1> DEFINE v == IF "data" \in req.byteenable THEN uart_dev_put(u) ELSE u
           c == (v.control \ PERSISTENT) \cup (req.data["control"] \cap PERSISTENT)
<1>1. Fed(log, uart_dev_put(u))
  BY FedPolled, FedClosed DEF uart_dev_put
<1>2. Fed(log, v)
  BY <1>1
<1>3. uart_dev_store(u, req) = v \/ uart_dev_store(u, req) = [v EXCEPT !.control = c]
  BY DEF uart_dev_store
<1> HIDE DEF v, c
<1>4. Fed(log, [v EXCEPT !.control = c])
  BY <1>2, FedSame DEF Fed, UartFields
<1> QED
  BY <1>2, <1>3, <1>4

(* A fetch takes a byte from the line exactly if it answers with it. *)
LEMMA FedRead ==
  ASSUME NEW log, NEW u, Fed(log, u), NEW req
  PROVE  Fed(log \o (IF "data" \in req.byteenable THEN Found(uart_dev_fetch_byte(u)) ELSE <<>>),
             uart_fetched(u, req))
<1> DEFINE f == IF "data" \in req.byteenable THEN Found(uart_dev_fetch_byte(u)) ELSE <<>>
           v == IF "data" \in req.byteenable THEN uart_dev_fetch(u) ELSE u
<1>1. log \o <<>> = log
  BY ConcatEmptySeq DEF Fed
<1>2. Fed(log \o f, v)
  BY <1>1, FedFetched
<1>3. uart_fetched(u, req) = v \/ uart_fetched(u, req) = uart_dev_control_update(v)
  BY DEF uart_fetched
<1> HIDE DEF f, v
<1>4. Fed(log \o f, uart_fetched(u, req))
  BY <1>2, <1>3, FedUpdated
<1> QED
  BY <1>4 DEF f

-----------------------------------------------------------------------------
(* The other end. *)
LEMMA LineTyped ==
  ASSUME NEW l \in Line
  PROVE  /\ Typed(l) \in Line /\ Typed(l).conn = l.conn /\ Typed(l).typed = l.typed + 1
         /\ Typed(l).wire = Append(l.wire, <<l.conn, l.typed + 1>>)
<1>1. <<l.conn, l.typed + 1>> \in Byte
  BY DEF Line, Byte
<1>2. Append(l.wire, <<l.conn, l.typed + 1>>) \in Seq(Byte)
  BY <1>1 DEF Line
<1> DEFINE w == Append(l.wire, <<l.conn, l.typed + 1>>)
<1>3. Typed(l) = [l EXCEPT !.wire = w, !.typed = l.typed + 1]
  BY DEF Typed
<1>4. w \in Seq(Byte)
  BY <1>2
<1> HIDE DEF w
<1>5. l.conn \in Nat /\ l.typed + 1 \in Nat /\ l.open \in BOOLEAN
  BY DEF Line
<1>6. Typed(l) = [conn |-> l.conn, wire |-> w, typed |-> l.typed + 1, open |-> l.open]
  BY <1>3 DEF Line
<1>7. Typed(l) \in Line /\ Typed(l).conn = l.conn /\ Typed(l).typed = l.typed + 1 /\ Typed(l).wire = w
  BY <1>4, <1>5, <1>6 DEF Line
<1> QED
  BY <1>7 DEF w

LEMMA FedConnects ==
  ASSUME NEW log, Fed(log, uart), Connect
  PROVE  Fed(log, uart')
<1> DEFINE l == NewLine(uart.conns + 1)
<1>1. uart' = [uart EXCEPT !.caller = <<l>>, !.conns = @ + 1]
  BY DEF Connect, OtherEnd
<1>2. l \in Line /\ l.conn = uart.conns + 1 /\ l.typed = 0 /\ l.wire = <<>>
  BY EmptySeq DEF NewLine, Line, Fed
<1>3. l.wire = Whole(l.conn, l.typed)
  BY <1>2 DEF Whole
<1> HIDE DEF l
<1>4. /\ DOMAIN uart' = UartFields /\ uart'.fdinput = uart.fdinput /\ uart'.line = uart.line
      /\ uart'.caller = <<l>> /\ uart'.conns = uart.conns + 1
  BY <1>1 DEF Fed, UartFields
<1>5. uart.line.conn < l.conn /\ l.conn <= uart'.conns /\ uart.line.conn <= uart'.conns
      /\ uart'.conns \in Nat
  BY <1>2, <1>4 DEF Fed, Line
<1>6. CallerOK(uart')
  BY <1>2, <1>3, <1>4, <1>5 DEF CallerOK
<1> QED
  BY <1>4, <1>5, <1>6 DEF Fed, Unread

LEMMA FedTyped ==
  ASSUME NEW log, Fed(log, uart), Type
  PROVE  Fed(log, uart')
<1>1. CASE uart.fdinput /\ OtherEnd([uart EXCEPT !.line = Typed(@)])
  <2> DEFINE l == uart.line
             b == <<l.conn, l.typed + 1>>
  <2>1. l \in Line /\ l.conn \in Nat /\ l.typed \in Nat /\ l.wire \in Seq(Byte)
        /\ log \in Seq(Byte) /\ b \in Byte
    BY DEF Fed, Line, Byte
  <2>2. /\ DOMAIN uart' = UartFields /\ uart'.fdinput = uart.fdinput /\ uart'.line = Typed(l)
        /\ uart'.caller = uart.caller /\ uart'.conns = uart.conns
    BY <1>1 DEF OtherEnd, Fed, UartFields
  <2>3. /\ Typed(l) \in Line /\ Typed(l).conn = l.conn /\ Typed(l).typed = l.typed + 1
        /\ Typed(l).wire = Append(l.wire, b)
    BY <2>1, LineTyped
  <2>4. Ordered(log \o l.wire, l.conn) /\ LastOf(log \o l.wire, l.conn) = l.typed
    BY <1>1 DEF Fed, Unread
  <2> HIDE DEF l
  <2>5. /\ Ordered(Append(log \o l.wire, b), l.conn)
        /\ LastOf(Append(log \o l.wire, b), l.conn) = l.typed + 1
    BY <2>1, <2>4, OrderedMore
  <2> HIDE DEF b
  <2>6. log \o Append(l.wire, b) = Append(log \o l.wire, b)
    BY <2>1, AppendBehind
  <2>7. CallerOK(uart')
    BY <2>2, <2>3 DEF Fed, CallerOK, l
  <2> QED
    BY <1>1, <2>2, <2>3, <2>5, <2>6, <2>7 DEF Fed, Unread, l
<1>2. CASE uart.caller # <<>> /\ OtherEnd([uart EXCEPT !.caller = <<Typed(Head(@))>>])
  <2>1. PICK l \in Line : /\ uart.caller = <<l>> /\ l.wire = Whole(l.conn, l.typed)
                          /\ uart.line.conn < l.conn /\ l.conn <= uart.conns
    BY <1>2 DEF Fed, CallerOK
  <2>2. /\ DOMAIN uart' = UartFields /\ uart'.fdinput = uart.fdinput /\ uart'.line = uart.line
        /\ uart'.caller = <<Typed(l)>> /\ uart'.conns = uart.conns
    BY <1>2, <2>1, Ends DEF OtherEnd, Fed, UartFields
  <2>3. /\ Typed(l) \in Line /\ Typed(l).conn = l.conn /\ Typed(l).typed = l.typed + 1
        /\ Typed(l).wire = Append(l.wire, <<l.conn, l.typed + 1>>)
    BY LineTyped
  <2>4. Typed(l).wire = Whole(l.conn, l.typed + 1)
    BY <2>1, <2>3, WholeGrows DEF Line
  <2>5. CallerOK(uart')
    BY <2>1, <2>2, <2>3, <2>4 DEF CallerOK
  <2> QED
    BY <2>2, <2>5 DEF Fed, Unread
<1> QED
  BY <1>1, <1>2 DEF Type

LEMMA FedHungUp ==
  ASSUME NEW log, Fed(log, uart), HangUp
  PROVE  Fed(log, uart')
<1>1. CASE OtherEnd([uart EXCEPT !.line.open = FALSE])
  <2>1. /\ DOMAIN uart' = UartFields /\ uart'.fdinput = uart.fdinput
        /\ uart'.line = [uart.line EXCEPT !.open = FALSE]
        /\ uart'.caller = uart.caller /\ uart'.conns = uart.conns
    BY <1>1 DEF OtherEnd, Fed, UartFields
  <2>2. /\ uart'.line \in Line /\ uart'.line.conn = uart.line.conn
        /\ uart'.line.wire = uart.line.wire /\ uart'.line.typed = uart.line.typed
    BY <2>1 DEF Fed, Line
  <2> QED
    BY <2>1, <2>2 DEF Fed, Unread, CallerOK
<1>2. CASE uart.caller # <<>>
           /\ OtherEnd([uart EXCEPT !.caller = <<[Head(@) EXCEPT !.open = FALSE]>>])
  <2>1. PICK l \in Line : /\ uart.caller = <<l>> /\ l.wire = Whole(l.conn, l.typed)
                          /\ uart.line.conn < l.conn /\ l.conn <= uart.conns
    BY <1>2 DEF Fed, CallerOK
  <2> DEFINE k == [l EXCEPT !.open = FALSE]
  <2>2. /\ DOMAIN uart' = UartFields /\ uart'.fdinput = uart.fdinput /\ uart'.line = uart.line
        /\ uart'.caller = <<k>> /\ uart'.conns = uart.conns
    BY <1>2, <2>1, Ends DEF OtherEnd, Fed, UartFields
  <2>3. k \in Line /\ k.conn = l.conn /\ k.wire = l.wire /\ k.typed = l.typed
    BY DEF Line
  <2> HIDE DEF k
  <2>4. CallerOK(uart')
    BY <2>1, <2>2, <2>3 DEF CallerOK
  <2> QED
    BY <2>2, <2>4 DEF Fed, Unread
<1> QED
  BY <1>1, <1>2 DEF HangUp

-----------------------------------------------------------------------------
(* The bus. *)
InputInv == Fed(Arrived, uart)

LEMMA InputStart == Init => InputInv
<1> SUFFICES ASSUME Init PROVE InputInv
  OBVIOUS
<1>1. Arrived = <<>>
  BY DEF Init, Arrived
<1>2. /\ DOMAIN uart = UartFields /\ uart.fdinput \in BOOLEAN /\ uart.line = NewLine(0)
      /\ uart.caller = <<>> /\ uart.conns = 0
  BY DEF Init, PismInit, UartFields
<1>3. /\ NewLine(0) \in Line /\ NewLine(0).conn = 0 /\ NewLine(0).typed = 0
      /\ NewLine(0).wire = <<>>
  BY EmptySeq DEF NewLine, Line
<1>4. Arrived \o Unread(uart) = <<>>
  BY <1>1, <1>2, <1>3, Join DEF Unread
<1>5. Ordered(<<>>, 0) /\ LastOf(<<>>, 0) = 0
  BY EmptySeq DEF Ordered, LastOf
<1> QED
  BY <1>1, <1>2, <1>3, <1>4, <1>5, EmptySeq DEF InputInv, Fed, CallerOK

(* A reply that is an acknowledgement has no byte. *)
LEMMA InputCompletes ==
  ASSUME IInv, InputInv, completeErrorResp \/ completeWriteResp
  PROVE  InputInv'
<1>1. incompleteResps # <<>> /\ Complete(<<>>) /\ uart' = uart
  BY DEF completeErrorResp, completeWriteResp, pismVars
<1>2. PICK x \in Resp :
           /\ incompleteResps = <<x>> /\ Head(incompleteResps) = x
           /\ incompleteResps' = <<>> /\ completeResps = <<>>
           /\ completeResps' = <<[x EXCEPT !.data = <<>>]>>
           /\ UNCHANGED <<masterVars, tlmRequests, pismRequests, console>>
  BY <1>1, CompleteMoves
<1>3. x.status # "SUCCESS" \/ x.request.acctype # Fetch
  BY <1>2 DEF completeErrorResp, completeWriteResp, Fetch, Store
<1> DEFINE y == [x EXCEPT !.data = <<>>]
<1>4. y.status = x.status /\ y.request = x.request
  BY <1>2 DEF Resp
<1> HIDE DEF y
<1>5. ByteOf(y) = <<>>
  BY <1>3, <1>4 DEF ByteOf
<1>6. Arrived = console /\ console \in Seq(Byte)
  BY <1>2 DEF Arrived, InputInv, Fed
<1>7. completeResps' # <<>> /\ Head(completeResps') = y
  BY <1>2, Ends DEF y
<1>8. Arrived' = console \o <<>>
  BY <1>2, <1>5, <1>7 DEF Arrived
<1>9. Arrived' = Arrived
  BY <1>6, <1>8, ConcatEmptySeq
<1> QED
  BY <1>1, <1>9 DEF InputInv

(* The reply to a fetch has the byte that the fetch took from the line. *)
LEMMA InputRead ==
  ASSUME IInv, InputInv, completeReadResp
  PROVE  InputInv'
<1>1. PICK x \in Resp :
           /\ incompleteResps = <<x>> /\ incompleteResps' = <<>>
           /\ completeResps = <<>>
           /\ completeResps' = <<[x EXCEPT !.data = Answer]>>
           /\ x.status = "SUCCESS" /\ x.request.acctype = Fetch
           /\ Awaited = <<x.request>>
           /\ pism_addr_valid(x.request) /\ x.request.dev \in Devices
           /\ pismRequests = <<>> /\ pism_fifo = <<x.request.dev>>
           /\ \A d \in Devices :
                reqfifo[d] = IF d = x.request.dev THEN <<x.request>> ELSE <<>>
           /\ UNCHANGED <<masterVars, tlmRequests, pismRequests, console>>
  BY ReadIs
<1> DEFINE r == x.request
           y == [x EXCEPT !.data = Answer]
<1>2. y.status = "SUCCESS" /\ y.request = r /\ y.data = Answer
  BY <1>1 DEF Resp
<1>3. Head(pism_fifo) = r.dev /\ Head(reqfifo[r.dev]) = r
  BY <1>1, Ends
<1>4. uart' = IF r.dev = "uart" THEN uart_fetched(uart, r) ELSE uart
  BY <1>3 DEF completeReadResp, pism_response_get
<1>5. r.dev = "uart" => Answer = uart_answer(uart, r)
  BY <1>3 DEF Answer
<1> HIDE DEF y
<1>6. ByteOf(y) = IF r.dev = "uart" /\ "data" \in r.byteenable
                  THEN Found(uart_dev_fetch_byte(uart)) ELSE <<>>
  <2>1. r.dev = "uart" /\ "data" \in r.byteenable => y.data["data"] = uart_dev_fetch_byte(uart)
    BY <1>2, <1>5 DEF uart_answer
  <2> QED
    BY <1>1, <1>2, <2>1 DEF ByteOf, Found
<1>7. Arrived = console /\ console \in Seq(Byte)
  BY <1>1 DEF Arrived, InputInv, Fed
<1>8. completeResps' # <<>> /\ Head(completeResps') = y
  BY <1>1, Ends DEF y
<1>9. Arrived' = console \o ByteOf(y)
  BY <1>1, <1>8 DEF Arrived
<1>10. CASE r.dev = "uart"
  BY <1>4, <1>6, <1>7, <1>9, <1>10, FedRead DEF InputInv
<1>11. CASE r.dev # "uart"
  BY <1>4, <1>6, <1>7, <1>9, <1>11, ConcatEmptySeq DEF InputInv
<1> QED
  BY <1>10, <1>11

LEMMA InputStep ==
  ASSUME IInv, InputInv, [Next]_vars
  PROVE  InputInv'
<1>1. CASE get
  <2>1. completeResps # <<>> /\ completeResps' = <<>>
    BY <1>1, Ends DEF get, IInv, Shapes
  <2>2. Arrived' = Arrived /\ uart' = uart
    BY <1>1, <2>1 DEF get, Arrived, pismVars
  <2> QED
    BY <2>2 DEF InputInv
<1>2. CASE \/ putReq \/ putIrqs \/ Connect \/ Type \/ HangUp
  <2>1. Arrived' = Arrived
    BY <1>2 DEF putReq, putIrqs, Connect, Type, HangUp, OtherEnd, Around, tlmVars, Arrived
  <2>2. Fed(Arrived, uart')
    <3>1. CASE putReq
      <4>1. \/ uart' = uart
            \/ uart' = uart_dev_store(uart, Head(pismRequests))
        <5>1. PICK r \in Requests : pismRequests = <<r>>
          BY <3>1, InOne DEF IInv, Shapes, putReq
        <5>2. pism_request_put(r) /\ Head(pismRequests) = r
          BY <3>1, <5>1, Ends DEF putReq
        <5>3. r.dev \in Devices
          BY <5>1, PutIs, PismAssumption DEF pism_addr_valid, IInv, Shapes
        <5> QED
          BY <5>2, <5>3 DEF pism_request_put, DeviceStore, Devices, Timed
      <4> QED
        BY <4>1, FedStored DEF InputInv
    <3>2. CASE putIrqs
      BY <3>2, FedUpdated DEF putIrqs, pism_interrupt_get, InputInv
    <3> QED
      BY <1>2, <3>1, <3>2, FedConnects, FedTyped, FedHungUp DEF InputInv
  <2> QED
    BY <2>1, <2>2 DEF InputInv
<1>3. CASE \/ \E r \in Requests : Request(r)
           \/ outputFromLeft \/ outputFromRight \/ translateReqAndPrepareResp
           \/ setupPISMMemory \/ tickPISM
           \/ DebugRules \/ Hosts \/ UNCHANGED vars
  <2>1. UNCHANGED <<uart, console, completeResps>>
    BY <1>3 DEF Request, outputFromLeft, outputFromRight, translateReqAndPrepareResp,
                setupPISMMemory, pism_init, tickPISM, pism_cycle_tick, Around,
                DebugRules, Hosts, Beside, vars, pismVars, tlmVars
  <2> QED
    BY <2>1 DEF InputInv, Arrived
<1> QED
  BY <1>1, <1>2, <1>3, InputCompletes, InputRead DEF Next, Rules

(* The processor reads what was typed to the UART, connection after        *)
(* connection, each from its first byte on and without a gap, a repetition *)
(* or a change of order: what a connection loses when it is closed is its  *)
(* end.  It does not matter which lanes the processor fetches and when     *)
(* connections come and go (uart.c).                                       *)
THEOREM InputCorrect == Spec => []InputInOrder
<1>1. InputInv => InputInOrder
  BY DEF InputInv, Fed, InputInOrder, Ordered
<1>2. IInv /\ InputInv /\ [Next]_vars => InputInv'
  BY InputStep
<1> QED
  BY <1>1, <1>2, InputStart, SerialAlways, PTL DEF Spec

-----------------------------------------------------------------------------
(* The debug socket, for any number of hosts and bytes: what hosts send    *)
(* and receive is in order and does not mix.                               *)
Host == [wire : Seq(Byte), sent : Nat, got : Seq(Nat), open : BOOLEAN]

Short(s, S) == s = <<>> \/ \E x \in S : s = <<x>>

-----------------------------------------------------------------------------
(* The inductive invariant.                                                *)
Sockets ==
  /\ hosts \in Seq(Host) /\ accepted \in 0 .. Len(hosts)
  /\ debug_session_socket \in {NoSession, accepted}
  /\ heard \in Seq(Byte) /\ Short(toUnit, Byte) /\ Short(debug_buffer, Byte)
  /\ said \in Nat /\ (fromUnit = <<>> \/ (said > 0 /\ fromUnit = <<said>>))
  /\ debugOutFires # "no" => fromUnit # <<>>

(* The bytes of a host that is served or still waits are those that have   *)
(* arrived, followed by those in its socket; none arrives from a host that *)
(* was not accepted.                                                       *)
Input ==
  /\ \A i \in DOMAIN Delivered :
       InTurn(Delivered, i) /\ Delivered[i][1] \in 1 .. accepted
  /\ \A c \in DOMAIN hosts : Current(c) =>
       Had(c) <= hosts[c].sent /\ hosts[c].wire = Sent(c, Had(c), hosts[c].sent)

(* The last byte that has left.                                            *)
Left == IF fromUnit = <<>> THEN said ELSE said - 1

(* A host has received a range of what has left, up to the last while it   *)
(* is served; one that was not accepted has received nothing.              *)
Output ==
  /\ \A c \in DOMAIN hosts :
       /\ \A i \in DOMAIN hosts[c].got :
            /\ hosts[c].got[i] = hosts[c].got[1] + i - 1
            /\ hosts[c].got[i] <= Left
            /\ \A d \in 1 .. c - 1 : \A j \in DOMAIN hosts[d].got :
                 hosts[d].got[j] < hosts[c].got[i]
       /\ c > accepted => hosts[c].got = <<>>
  /\ debug_session_socket # NoSession =>
       LET got == hosts[debug_session_socket].got
       IN  got # <<>> => got[Len(got)] = Left

SInv == Sockets /\ Input /\ Output

-----------------------------------------------------------------------------
(* Sequences.                                                              *)
LEMMA ShortIsSeq == ASSUME NEW S, NEW s, Short(s, S) PROVE s \in Seq(S)
<1>1. CASE s = <<>>
  BY <1>1
<1>2. ASSUME NEW x \in S, s = <<x>> PROVE s \in Seq(S)
  BY <1>2
<1> QED BY <1>1, <1>2 DEF Short

LEMMA HostOf ==
  ASSUME NEW hs \in Seq(Host), NEW c \in DOMAIN hs
  PROVE  /\ hs[c].wire \in Seq(Byte) /\ hs[c].sent \in Nat /\ hs[c].got \in Seq(Nat)
         /\ hs[c].open \in BOOLEAN /\ hs[c] \in Host /\ c \in 1 .. Len(hs)
         /\ DOMAIN hs = 1 .. Len(hs) /\ Len(hs) \in Nat
<1>1. DOMAIN hs = 1 .. Len(hs) /\ Len(hs) \in Nat /\ hs \in [1 .. Len(hs) -> Host]
  BY LenProperties
<1>2. hs[c] \in Host
  BY <1>1
<1> QED BY <1>1, <1>2 DEF Host

LEMMA DeliveredSeq ==
  ASSUME Sockets
  PROVE  Delivered \in Seq(Byte) /\ DOMAIN Delivered = 1 .. Len(Delivered) /\ Len(Delivered) \in Nat
<1>1. toUnit \in Seq(Byte) /\ debug_buffer \in Seq(Byte) /\ heard \in Seq(Byte)
  BY ShortIsSeq DEF Sockets
<1>2. Delivered \in Seq(Byte)
  BY <1>1, ConcatProperties DEF Delivered
<1> QED BY <1>2, LenProperties

(* A byte that is read is put at the end; the others only move on.         *)
LEMMA ReadIsLast ==
  ASSUME Sockets, NEW b \in Byte, debug_buffer = <<>>, debug_buffer' = <<b>>,
         UNCHANGED <<heard, toUnit>>
  PROVE  Delivered' = Append(Delivered, b)
<1>1. toUnit \in Seq(Byte) /\ heard \in Seq(Byte)
  BY ShortIsSeq DEF Sockets
<1>2. heard \o toUnit \in Seq(Byte)
  BY <1>1, ConcatProperties
<1>3. Delivered = heard \o toUnit
  BY <1>2, ConcatEmptySeq DEF Delivered
<1> QED BY <1>2, <1>3, AppendIsConcat DEF Delivered

LEMMA MovesToUnit ==
  ASSUME Sockets, toUnit = <<>>, toUnit' = debug_buffer, debug_buffer' = <<>>,
         UNCHANGED heard
  PROVE  Delivered' = Delivered
<1>1. heard \in Seq(Byte) /\ debug_buffer \in Seq(Byte)
  BY ShortIsSeq DEF Sockets
<1>2. heard \o debug_buffer \in Seq(Byte)
  BY <1>1, ConcatProperties
<1>3. heard \o <<>> = heard
  BY <1>1, ConcatEmptySeq
<1>4. (heard \o debug_buffer) \o <<>> = heard \o debug_buffer
  BY <1>2, ConcatEmptySeq
<1> QED BY <1>3, <1>4 DEF Delivered

LEMMA MovesOn ==
  ASSUME Sockets, heard' = heard \o toUnit, toUnit' = <<>>, UNCHANGED debug_buffer
  PROVE  Delivered' = Delivered
<1>1. heard \o toUnit \in Seq(Byte)
  BY ShortIsSeq, ConcatProperties DEF Sockets
<1>2. (heard \o toUnit) \o <<>> = heard \o toUnit
  BY <1>1, ConcatEmptySeq
<1> QED BY <1>2 DEF Delivered

-----------------------------------------------------------------------------
(* What a step leaves of Input and Output when it moves no byte at the     *)
(* hosts' end.                                                             *)
LEMMA InputKept ==
  ASSUME Sockets, Input, Delivered' = Delivered,
         accepted' \in Nat, accepted' >= accepted, DOMAIN hosts' = DOMAIN hosts,
         \A c \in DOMAIN hosts :
           /\ hosts'[c].wire = hosts[c].wire /\ hosts'[c].sent = hosts[c].sent
           /\ Current(c)' => Current(c)
  PROVE  Input'
<1>1. \A i \in DOMAIN Delivered' :
        InTurn(Delivered, i)' /\ Delivered'[i][1] \in 1 .. accepted'
  <2> TAKE i \in DOMAIN Delivered'
  <2>1. InTurn(Delivered, i) /\ Delivered[i][1] \in 1 .. accepted /\ accepted \in Nat
    <3>1. accepted \in Nat
      BY LenProperties DEF Sockets
    <3> QED BY <3>1 DEF Input
  <2> QED BY <2>1 DEF InTurn
<1>2. ASSUME NEW c \in DOMAIN hosts', Current(c)'
      PROVE  Had(c)' <= hosts'[c].sent /\ hosts'[c].wire = Sent(c, Had(c)', hosts'[c].sent)
  <2>1. Current(c) /\ c \in DOMAIN hosts
    BY <1>2
  <2>2. Had(c) <= hosts[c].sent /\ hosts[c].wire = Sent(c, Had(c), hosts[c].sent)
    BY <2>1 DEF Input
  <2>3. Had(c)' = Had(c)
    BY DEF Had
  <2>4. hosts'[c].sent = hosts[c].sent /\ hosts'[c].wire = hosts[c].wire
    BY <2>1
  <2> QED BY <2>2, <2>3, <2>4
<1> QED BY <1>1, <1>2 DEF Input

LEMMA OutputKept ==
  ASSUME Sockets, Output, Left' = Left,
         accepted' \in Nat, accepted' >= accepted, DOMAIN hosts' = DOMAIN hosts,
         \A c \in DOMAIN hosts : hosts'[c].got = hosts[c].got,
         debug_session_socket' # NoSession =>
           /\ debug_session_socket' \in DOMAIN hosts
           /\ \/ debug_session_socket' = debug_session_socket
              \/ hosts[debug_session_socket'].got = <<>>
  PROVE  Output'
<1>1. accepted \in Nat /\ DOMAIN hosts = 1 .. Len(hosts) /\ Len(hosts) \in Nat
  BY LenProperties DEF Sockets
<1>2. ASSUME NEW c \in DOMAIN hosts'
      PROVE  /\ \A i \in DOMAIN hosts'[c].got :
                  /\ hosts'[c].got[i] = hosts'[c].got[1] + i - 1
                  /\ hosts'[c].got[i] <= Left'
                  /\ \A d \in 1 .. c - 1 : \A j \in DOMAIN hosts'[d].got :
                       hosts'[d].got[j] < hosts'[c].got[i]
             /\ c > accepted' => hosts'[c].got = <<>>
  <2>1. \A d \in 1 .. c - 1 : d \in DOMAIN hosts
    BY <1>1, <1>2
  <2> QED BY <1>1, <1>2, <2>1 DEF Output
<1>3. ASSUME debug_session_socket' # NoSession, hosts'[debug_session_socket'].got # <<>>
      PROVE  hosts'[debug_session_socket'].got[Len(hosts'[debug_session_socket'].got)] = Left'
  <2>1. debug_session_socket' = debug_session_socket /\ debug_session_socket \in DOMAIN hosts
    BY <1>3
  <2> QED BY <1>3, <2>1 DEF Output
<1> QED BY <1>2, <1>3 DEF Output

-----------------------------------------------------------------------------
(* Input, in the steps that move a byte or bring a host.                   *)
LEMMA HadType == ASSUME Sockets, NEW c PROVE Had(c) \in Nat
<1>1. CASE Delivered = <<>>
  BY <1>1 DEF Had
<1>2. CASE Delivered # <<>>
  <2>1. Delivered[Len(Delivered)] \in Byte
    BY <1>2, DeliveredSeq, EmptySeq, ElementOfSeq
  <2> QED BY <2>1 DEF Had, Byte
<1> QED BY <1>1, <1>2

LEMMA NoneHad ==
  ASSUME Sockets, Input, NEW c, c \in Nat, c > accepted PROVE Had(c) = 0
<1>1. CASE Delivered = <<>>
  BY <1>1 DEF Had
<1>2. CASE Delivered # <<>>
  <2>1. Len(Delivered) \in DOMAIN Delivered
    BY <1>2, DeliveredSeq, EmptySeq
  <2>2. Delivered[Len(Delivered)][1] \in 1 .. accepted /\ accepted \in Nat
    BY <2>1, LenProperties DEF Input, Sockets
  <2> QED BY <2>2 DEF Had
<1> QED BY <1>1, <1>2

(* The bytes between two numbers, as a sequence. *)
LEMMA SentSeq ==
  ASSUME NEW c, NEW n \in Nat, NEW m \in Nat, n <= m, NEW w \in Seq(Byte), w = Sent(c, n, m)
  PROVE  Len(w) = m - n /\ \A i \in 1 .. Len(w) : w[i] = <<c, n + i>>
<1>1. DOMAIN w = 1 .. m - n /\ \A i \in 1 .. m - n : w[i] = <<c, n + i>>
  BY DEF Sent
<1>2. DOMAIN w = 1 .. Len(w) /\ Len(w) \in Nat
  BY LenProperties
<1>3. Len(w) = m - n
  BY <1>1, <1>2
<1> QED BY <1>1, <1>3

LEMMA RestIs ==
  ASSUME NEW c, NEW n \in Nat, NEW sent \in Nat, n <= sent, NEW w \in Seq(Byte),
         Len(w) = sent - n, \A i \in 1 .. Len(w) : w[i] = <<c, n + i>>
  PROVE  w = Sent(c, n, sent)
<1>1. DOMAIN w = 1 .. Len(w) /\ w = [i \in DOMAIN w |-> w[i]]
  BY LenProperties
<1> QED BY <1>1 DEF Sent

LEMMA TailRest ==
  ASSUME NEW c \in Nat, NEW n \in Nat, NEW sent \in Nat, n <= sent,
         NEW w \in Seq(Byte), w # <<>>, w = Sent(c, n, sent)
  PROVE  \A k \in Nat : k = n + 1 =>
           Head(w) = <<c, k>> /\ k <= sent /\ Tail(w) = Sent(c, k, sent)
<1>1. /\ Len(w) \in Nat /\ Len(w) >= 1
      /\ Len(w) = sent - n /\ \A i \in 1 .. Len(w) : w[i] = <<c, n + i>>
  <2>1. Len(w) \in Nat /\ Len(w) >= 1
    BY EmptySeq
  <2>2. Len(w) = sent - n
    BY SentSeq
  <2>3. \A i \in 1 .. Len(w) : w[i] = <<c, n + i>>
    BY SentSeq
  <2> QED BY <2>1, <2>2, <2>3
<1>2. Head(w) = w[1] /\ w[1] = <<c, n + 1>>
  BY <1>1
<1>3. /\ Tail(w) \in Seq(Byte) /\ Len(Tail(w)) = sent - (n + 1)
      /\ \A i \in 1 .. Len(Tail(w)) : Tail(w)[i] = w[i + 1]
  BY <1>1, HeadTailProperties
<1>4. \A i \in 1 .. Len(Tail(w)) : Tail(w)[i] = <<c, (n + 1) + i>>
  <2> TAKE i \in 1 .. Len(Tail(w))
  <2>1. i + 1 \in 1 .. Len(w) /\ n + (i + 1) = (n + 1) + i
    BY <1>1, <1>3
  <2>2. w[i + 1] = <<c, n + (i + 1)>>
    BY <1>1, <2>1
  <2> QED BY <1>3, <2>1, <2>2
<1> TAKE k \in Nat
<1> HAVE k = n + 1
<1>5. k <= sent
  BY <1>1
<1>6. Tail(w) = Sent(c, k, sent)
  <2> DEFINE t == Tail(w)
  <2>1. k <= sent /\ t \in Seq(Byte) /\ Len(t) = sent - k
        /\ \A i \in 1 .. Len(t) : t[i] = <<c, k + i>>
    BY <1>3, <1>4, <1>5
  <2> HIDE DEF t
  <2>2. t = Sent(c, k, sent)
    BY <2>1, RestIs
  <2> QED BY <2>2 DEF t
<1> QED BY <1>2, <1>5, <1>6

LEMMA BytesRead ==
  ASSUME Sockets, Input, NEW s \in DOMAIN hosts,
         s = debug_session_socket \/ s = accepted + 1, s # NoSession,
         debug_session_socket' = s, accepted' = s,
         debug_buffer = <<>>, hosts[s].wire # <<>>,
         debug_buffer' = <<Head(hosts[s].wire)>>,
         hosts' = [hosts EXCEPT ![s].wire = Tail(@)],
         UNCHANGED <<heard, toUnit>>
  PROVE  Input'
<1> DEFINE n == Had(s)
           k == n + 1
           b == <<s, k>>
           L == Len(Delivered)
<1>1. /\ accepted \in Nat /\ s \in Nat /\ s > 0 /\ s >= accepted
      /\ debug_session_socket \in {NoSession, accepted}
  BY HostOf DEF Sockets, NoSession
<1>2. Current(s)
  BY <1>1 DEF Current
<1>3. /\ hosts[s].wire \in Seq(Byte) /\ n \in Nat /\ hosts[s].sent \in Nat
      /\ n <= hosts[s].sent /\ hosts[s].wire = Sent(s, n, hosts[s].sent)
  BY <1>2, HostOf, HadType DEF Sockets, Input
<1>4. Head(hosts[s].wire) = b /\ k <= hosts[s].sent /\ Tail(hosts[s].wire) = Sent(s, k, hosts[s].sent)
  <2>1. k \in Nat /\ k = n + 1
    BY <1>3
  <2> HIDE DEF k, n
  <2> QED BY <1>1, <1>3, <2>1, TailRest
<1>5. b \in Byte
  BY <1>1, <1>3 DEF Byte
<1>6. Delivered' = Append(Delivered, b)
  BY <1>4, <1>5, ReadIsLast
<1>7. /\ Delivered \in Seq(Byte) /\ L \in Nat /\ Len(Delivered') = L + 1
      /\ DOMAIN Delivered = 1 .. L /\ DOMAIN Delivered' = 1 .. L + 1
      /\ Delivered'[L + 1] = b /\ \A i \in 1 .. L : Delivered'[i] = Delivered[i]
  BY <1>5, <1>6, DeliveredSeq, AppendProperties, LenProperties
<1>8. ASSUME NEW i \in DOMAIN Delivered'
      PROVE  InTurn(Delivered, i)' /\ Delivered'[i][1] \in 1 .. accepted'
  <2>1. CASE i <= L
    <3>1. InTurn(Delivered, i) /\ Delivered[i][1] \in 1 .. accepted
      BY <1>7, <2>1 DEF Input
    <3>2. Delivered'[i] = Delivered[i] /\ (i > 1 => Delivered'[i - 1] = Delivered[i - 1])
      BY <1>7, <2>1
    <3>3. InTurn(Delivered, i)'
      BY <3>1, <3>2 DEF InTurn
    <3>4. Delivered'[i][1] \in 1 .. accepted'
      BY <1>1, <3>1, <3>2
    <3> QED BY <3>3, <3>4
  <2>2. CASE i = L + 1
    <3>1. Delivered'[i] = b /\ b[1] = s /\ b[2] = n + 1
      BY <1>7, <2>2
    <3>2. CASE Delivered = <<>>
      <4>1. n = 0 /\ i = 1
        BY <1>7, <2>2, <3>2 DEF Had
      <4> QED BY <1>1, <3>1, <4>1 DEF InTurn
    <3>3. CASE Delivered # <<>>
      <4>1. L >= 1 /\ Delivered'[i - 1] = Delivered[L] /\ i > 1
        BY <1>7, <2>2, <3>3, EmptySeq
      <4>2. Delivered[L] \in Byte /\ Delivered[L][1] \in 1 .. accepted
        BY <1>7, <4>1, ElementOfSeq DEF Input
      <4>3. CASE Delivered[L][1] = s
        <5>1. n = Delivered[L][2]
          BY <3>3, <4>3 DEF Had
        <5>2. b = <<Delivered'[i - 1][1], Delivered'[i - 1][2] + 1>>
          BY <4>1, <4>3, <5>1
        <5> QED BY <1>1, <3>1, <4>1, <5>2 DEF InTurn
      <4>4. CASE Delivered[L][1] # s
        <5>1. n = 0
          BY <4>4 DEF Had
        <5>2. Delivered'[i - 1][1] < s
          BY <1>1, <4>1, <4>2, <4>4
        <5> QED BY <1>1, <3>1, <5>1, <5>2 DEF InTurn
      <4> QED BY <4>3, <4>4
    <3> QED BY <3>2, <3>3
  <2> QED BY <1>7, <2>1, <2>2
<1>9. ASSUME NEW c \in DOMAIN hosts', Current(c)'
      PROVE  Had(c)' <= hosts'[c].sent /\ hosts'[c].wire = Sent(c, Had(c)', hosts'[c].sent)
  <2>1. /\ c \in DOMAIN hosts /\ c \in Nat /\ (c = s \/ c > s)
        /\ Had(c)' = IF c = s THEN n + 1 ELSE 0
    <3>1. c \in DOMAIN hosts
      BY <1>9
    <3>2. c \in Nat
      BY <3>1, HostOf DEF Sockets
    <3>3. Delivered' # <<>> /\ Delivered'[Len(Delivered')] = b
      BY <1>7
    <3> QED BY <1>9, <3>1, <3>2, <3>3 DEF Had, Current
  <2>2. CASE c = s
    <3>1. hosts'[s].sent = hosts[s].sent /\ hosts'[s].wire = Tail(hosts[s].wire)
      <4>1. hosts[s] \in Host
        BY HostOf DEF Sockets
      <4> QED BY <4>1 DEF Host
    <3> QED BY <1>3, <1>4, <2>1, <2>2, <3>1
  <2>3. CASE c # s
    <3>1. c > accepted /\ Current(c)
      BY <1>1, <2>1, <2>3 DEF Current
    <3>2. Had(c) = 0
      BY <2>1, <3>1, NoneHad
    <3>3. Had(c) <= hosts[c].sent /\ hosts[c].wire = Sent(c, Had(c), hosts[c].sent)
      BY <2>1, <3>1 DEF Input
    <3>4. hosts'[c] = hosts[c]
      BY <2>1, <2>3
    <3> QED BY <2>1, <2>3, <3>2, <3>3, <3>4
  <2> QED BY <2>2, <2>3
<1> QED BY <1>8, <1>9 DEF Input

LEMMA InputConnects ==
  ASSUME Sockets, Input, HostConnects PROVE Input'
<1> DEFINE h == [wire |-> <<>>, sent |-> 0, got |-> <<>>, open |-> TRUE]
           N == Len(hosts)
<1>1. /\ hosts' = Append(hosts, h)
      /\ UNCHANGED <<accepted, debug_session_socket, heard, toUnit, debug_buffer>>
  BY DEF HostConnects, HostDoes, socketVars
<1>2. h \in Host /\ N \in Nat /\ accepted \in 0 .. N /\ hosts \in Seq(Host)
  BY LenProperties DEF Host, Sockets
<1>3. /\ DOMAIN hosts = 1 .. N /\ DOMAIN hosts' = 1 .. N + 1
      /\ hosts'[N + 1] = h /\ \A c \in 1 .. N : hosts'[c] = hosts[c]
  BY <1>1, <1>2, AppendProperties, LenProperties
<1>4. Delivered' = Delivered
  BY <1>1 DEF Delivered
<1>5. \A i \in DOMAIN Delivered' :
        InTurn(Delivered, i)' /\ Delivered'[i][1] \in 1 .. accepted'
  BY <1>1, <1>4 DEF Input, InTurn
<1>6. ASSUME NEW c \in DOMAIN hosts', Current(c)'
      PROVE  Had(c)' <= hosts'[c].sent /\ hosts'[c].wire = Sent(c, Had(c)', hosts'[c].sent)
  <2>1. Had(c)' = Had(c) /\ c \in Nat
    BY <1>2, <1>3, <1>4 DEF Had
  <2>2. CASE c \in 1 .. N
    <3>1. Current(c)
      BY <1>1, <1>6 DEF Current
    <3> QED BY <1>3, <2>1, <2>2, <3>1 DEF Input
  <2>3. CASE c = N + 1
    <3>1. Had(c) = 0
      BY <1>2, <2>1, <2>3, NoneHad
    <3>2. hosts'[c].sent = 0 /\ hosts'[c].wire = <<>>
      BY <1>3, <2>3
    <3>3. Sent(c, 0, 0) = <<>>
      BY DEF Sent
    <3> QED BY <2>1, <3>1, <3>2, <3>3
  <2> QED BY <1>2, <1>3, <2>2, <2>3
<1> QED BY <1>5, <1>6 DEF Input

LEMMA AppendSent ==
  ASSUME NEW c \in Nat, NEW n \in Nat, NEW sent \in Nat, n <= sent,
         NEW w \in Seq(Byte), w = Sent(c, n, sent)
  PROVE  \A k \in Nat : k = sent + 1 => Append(w, <<c, k>>) = Sent(c, n, k)
<1>1. Len(w) = sent - n
  BY SentSeq
<1>2. \A i \in 1 .. Len(w) : w[i] = <<c, n + i>>
  BY SentSeq
<1> TAKE k \in Nat
<1> HAVE k = sent + 1
<1> DEFINE t == Append(w, <<c, k>>)
<1>3. <<c, k>> \in Byte
  BY DEF Byte
<1>4. /\ t \in Seq(Byte) /\ Len(t) = Len(w) + 1 /\ t[Len(w) + 1] = <<c, k>>
      /\ \A i \in 1 .. Len(w) : t[i] = w[i]
  BY <1>3, AppendProperties
<1>5. \A i \in 1 .. Len(t) : t[i] = <<c, n + i>>
  <2> TAKE i \in 1 .. Len(t)
  <2>1. CASE i \in 1 .. Len(w)
    BY <1>2, <1>4, <2>1
  <2>2. CASE i = Len(w) + 1
    <3>1. n + i = k
      BY <1>1, <2>2
    <3> QED BY <1>4, <2>2, <3>1
  <2> QED BY <1>1, <1>4, <2>1, <2>2
<1>6. n <= k /\ Len(t) = k - n
  BY <1>1, <1>4
<1>7. t \in Seq(Byte) /\ n <= k /\ Len(t) = k - n /\ \A i \in 1 .. Len(t) : t[i] = <<c, n + i>>
  BY <1>4, <1>5, <1>6
<1> HIDE DEF t
<1>8. t = Sent(c, n, k)
  BY <1>7, RestIs
<1> QED BY <1>8 DEF t

LEMMA InputSends ==
  ASSUME Sockets, Input, NEW s \in DOMAIN hosts, HostSends(s) PROVE Input'
<1> DEFINE k == hosts[s].sent + 1
<1>1. /\ hosts' = [hosts EXCEPT ![s].sent = @ + 1,
                                ![s].wire = Append(@, <<s, hosts[s].sent + 1>>)]
      /\ UNCHANGED <<accepted, debug_session_socket, heard, toUnit, debug_buffer>>
  BY DEF HostSends, HostDoes, socketVars
<1>2. Delivered' = Delivered /\ DOMAIN hosts' = DOMAIN hosts
  BY <1>1 DEF Delivered
<1>3. \A i \in DOMAIN Delivered' :
        InTurn(Delivered, i)' /\ Delivered'[i][1] \in 1 .. accepted'
  BY <1>1, <1>2 DEF Input, InTurn
<1>4. /\ hosts[s] \in Host /\ s \in Nat /\ hosts[s].sent \in Nat /\ hosts[s].wire \in Seq(Byte)
      /\ Had(s) \in Nat /\ hosts \in Seq(Host)
  BY HostOf, HadType DEF Sockets
<1>5. /\ hosts'[s].sent = k /\ hosts'[s].wire = Append(hosts[s].wire, <<s, k>>)
      /\ \A c \in DOMAIN hosts : c # s => hosts'[c] = hosts[c]
  BY <1>1, <1>4 DEF Host
<1>6. ASSUME NEW c \in DOMAIN hosts', Current(c)'
      PROVE  Had(c)' <= hosts'[c].sent /\ hosts'[c].wire = Sent(c, Had(c)', hosts'[c].sent)
  <2>1. /\ Current(c) /\ Had(c)' = Had(c) /\ c \in DOMAIN hosts
        /\ Had(c) <= hosts[c].sent /\ hosts[c].wire = Sent(c, Had(c), hosts[c].sent)
    <3>1. Current(c) /\ c \in DOMAIN hosts
      BY <1>1, <1>2, <1>6 DEF Current
    <3> QED BY <1>2, <3>1 DEF Input, Had
  <2>2. CASE c = s
    <3>1. k \in Nat /\ k = hosts[s].sent + 1
      BY <1>4
    <3>2. Append(hosts[s].wire, <<s, k>>) = Sent(s, Had(s), k)
      <4> DEFINE w == hosts[s].wire
                 n == Had(s)
                 m == hosts[s].sent
      <4>1. s \in Nat /\ w \in Seq(Byte) /\ n \in Nat /\ m \in Nat /\ n <= m /\ w = Sent(s, n, m)
        BY <1>4, <2>1, <2>2
      <4> HIDE DEF k, w, n, m
      <4>2. k \in Nat /\ k = m + 1
        BY <3>1 DEF m
      <4>3. Append(w, <<s, k>>) = Sent(s, n, k)
        <5>1. \A j \in Nat : j = m + 1 => Append(w, <<s, j>>) = Sent(s, n, j)
          BY <4>1, AppendSent
        <5> QED BY <4>2, <5>1
      <4> QED BY <4>3 DEF w, n
    <3>3. Had(s) <= k
      BY <1>4, <2>1, <2>2
    <3> QED BY <1>5, <2>1, <2>2, <3>2, <3>3
  <2>3. CASE c # s
    BY <1>5, <2>1, <2>3
  <2> QED BY <2>2, <2>3
<1> QED BY <1>3, <1>6 DEF Input

-----------------------------------------------------------------------------
(* Output, in the steps that move a byte of the unit or bring a host.      *)
LEMMA HostChanged ==
  ASSUME NEW hs \in Seq(Host), NEW s \in DOMAIN hs, NEW h \in Host,
         NEW ht, ht = [hs EXCEPT ![s] = h]
  PROVE  /\ ht \in Seq(Host) /\ DOMAIN ht = DOMAIN hs /\ Len(ht) = Len(hs)
         /\ ht[s] = h /\ \A c \in DOMAIN hs : c # s => ht[c] = hs[c]
<1>1. s \in 1 .. Len(hs) /\ DOMAIN hs = 1 .. Len(hs)
  BY HostOf
<1>2. ht \in Seq(Host) /\ Len(ht) = Len(hs)
  BY <1>1, ExceptSeq
<1> QED BY <1>1, <1>2

LEMMA OutputGone ==
  ASSUME Sockets, Output, UNCHANGED <<hosts, accepted>>,
         debug_session_socket' = NoSession, Left \in Int, Left' \in Int, Left <= Left'
  PROVE  Output'
<1>1. accepted \in Nat /\ DOMAIN hosts = 1 .. Len(hosts) /\ Len(hosts) \in Nat /\ hosts \in Seq(Host)
  BY LenProperties DEF Sockets
<1>2. ASSUME NEW c \in DOMAIN hosts, NEW i \in DOMAIN hosts[c].got
      PROVE  hosts[c].got[i] <= Left'
  <2>1. hosts[c].got \in Seq(Nat)
    BY <1>1, HostOf
  <2>2. hosts[c].got[i] \in Nat
    BY <2>1, ElementOfSeq, LenProperties
  <2>3. hosts[c].got[i] <= Left
    BY DEF Output
  <2> QED BY <2>2, <2>3
<1> QED BY <1>2 DEF Output

Consecutive(g) == \A i \in DOMAIN g : g[i] = g[1] + i - 1

LEMMA OneMore ==
  ASSUME NEW g \in Seq(Nat), NEW n \in Nat, Consecutive(g),
         g # <<>> => g[Len(g)] + 1 = n, NEW t, t = Append(g, n)
  PROVE  /\ t \in Seq(Nat) /\ t[Len(t)] = n
         /\ Consecutive(t)
<1> DEFINE N == Len(g)
<1>1. N \in Nat /\ DOMAIN g = 1 .. N
  BY LenProperties
<1>2. /\ t \in Seq(Nat) /\ DOMAIN t = 1 .. N + 1 /\ Len(t) = N + 1 /\ t[N + 1] = n
      /\ \A i \in 1 .. N : t[i] = g[i]
  BY <1>1, AppendProperties, LenProperties
<1>3. ASSUME NEW i \in 1 .. N PROVE t[i] = t[1] + i - 1
  <2>1. i \in DOMAIN g /\ 1 \in 1 .. N
    BY <1>1
  <2>2. g[i] = g[1] + i - 1
    BY <2>1 DEF Consecutive
  <2>3. t[i] = g[i] /\ t[1] = g[1]
    BY <1>2, <2>1
  <2> QED BY <2>2, <2>3
<1>4. t[N + 1] = t[1] + (N + 1) - 1
  <2>1. CASE N = 0
    BY <1>2, <2>1
  <2>2. CASE N > 0
    <3>1. N \in DOMAIN g /\ 1 \in DOMAIN g /\ g # <<>>
      BY <1>1, <2>2
    <3>2. g[N] = g[1] + N - 1 /\ g[N] + 1 = n
      BY <3>1 DEF Consecutive
    <3>3. g[1] \in Nat /\ t[1] = g[1]
      BY <1>1, <1>2, <2>2, ElementOfSeq
    <3> QED BY <1>1, <1>2, <3>2, <3>3
  <2> QED BY <1>1, <2>1, <2>2
<1>5. \A i \in DOMAIN t : i \in 1 .. N \/ i = N + 1
  BY <1>1, <1>2
<1>6. \A i \in DOMAIN t : t[i] = t[1] + i - 1
  BY <1>3, <1>4, <1>5
<1> QED BY <1>1, <1>2, <1>6 DEF Consecutive

LEMMA OutputSent ==
  ASSUME Sockets, Output, NEW s \in DOMAIN hosts, s = debug_session_socket,
         Left \in Nat, Left' = Left + 1,
         hosts' = [hosts EXCEPT ![s].got = Append(@, Left')],
         UNCHANGED <<accepted, debug_session_socket>>
  PROVE  Output'
<1> DEFINE g == hosts[s].got
           t == hosts'[s].got
<1>1. /\ hosts \in Seq(Host) /\ accepted \in Nat /\ s = accepted /\ s \in Nat /\ s # NoSession
      /\ hosts[s] \in Host /\ g \in Seq(Nat)
  BY HostOf, LenProperties DEF Sockets, NoSession
<1>2. /\ DOMAIN hosts' = DOMAIN hosts /\ t = Append(g, Left')
      /\ \A c \in DOMAIN hosts : c # s => hosts'[c] = hosts[c]
  BY <1>1 DEF Host
<1>3. /\ t[Len(t)] = Left'
      /\ \A i \in DOMAIN t : t[i] = t[1] + i - 1
      /\ \A i \in DOMAIN t : t[i] = IF i \in DOMAIN g THEN g[i] ELSE Left'
  <2>1. g \in Seq(Nat) /\ Left' \in Nat
    BY <1>1
  <2>2. Consecutive(g)
    BY DEF Output, Consecutive
  <2>3. g # <<>> => g[Len(g)] + 1 = Left'
    BY <1>1 DEF Output
  <2> HIDE DEF g, t
  <2>4. ASSUME NEW n, n = Left', NEW x, x = g, NEW y, y = t
        PROVE  /\ y[Len(y)] = n
               /\ \A i \in DOMAIN y : y[i] = y[1] + i - 1
               /\ \A i \in DOMAIN y : y[i] = IF i \in DOMAIN x THEN x[i] ELSE n
    <3>1. /\ y = Append(x, n) /\ x \in Seq(Nat) /\ n \in Nat
          /\ Consecutive(x)
          /\ x # <<>> => x[Len(x)] + 1 = n
      BY <1>2, <2>1, <2>2, <2>3, <2>4
    <3>2. y[Len(y)] = n
      BY <3>1, OneMore
    <3>5. Consecutive(y)
      BY <3>1, OneMore
    <3>3. /\ y \in Seq(Nat) /\ DOMAIN y = 1 .. Len(y)
          /\ DOMAIN y = 1 .. Len(x) + 1 /\ y[Len(x) + 1] = n
          /\ \A i \in 1 .. Len(x) : y[i] = x[i]
      BY <3>1, AppendProperties, LenProperties
    <3>4. DOMAIN x = 1 .. Len(x) /\ Len(x) \in Nat
      BY <3>1, LenProperties
    <3> QED BY <3>2, <3>3, <3>4, <3>5 DEF Consecutive
  <2> QED BY <2>4
<1>4. \A c \in DOMAIN hosts : \A i \in DOMAIN hosts[c].got : hosts[c].got[i] \in Nat
  <2> TAKE c \in DOMAIN hosts
  <2>1. hosts[c].got \in Seq(Nat)
    BY <1>1, HostOf
  <2> QED BY <2>1, ElementOfSeq, LenProperties
<1>5. \A d \in 1 .. s - 1 : d \in DOMAIN hosts /\ hosts'[d] = hosts[d]
  <2>1. DOMAIN hosts = 1 .. Len(hosts) /\ Len(hosts) \in Nat /\ s <= Len(hosts)
    BY <1>1, HostOf
  <2> QED BY <1>1, <1>2, <2>1
<1>6. \A i \in DOMAIN t :
        /\ t[i] = t[1] + i - 1
        /\ t[i] <= Left'
        /\ \A d \in 1 .. s - 1 : \A j \in DOMAIN hosts'[d].got : hosts'[d].got[j] < t[i]
  <2> TAKE i \in DOMAIN t
  <2>1. CASE i \in DOMAIN g /\ t[i] = g[i]
    <3>1. g[i] \in Nat /\ g[i] <= Left
      BY <1>4, <2>1 DEF Output
    <3>2. \A d \in 1 .. s - 1 : \A j \in DOMAIN hosts[d].got : hosts[d].got[j] < g[i]
      BY <2>1 DEF Output
    <3>3. t[i] <= Left'
      BY <2>1, <3>1
    <3>4. \A d \in 1 .. s - 1 : \A j \in DOMAIN hosts'[d].got : hosts'[d].got[j] < t[i]
      BY <1>5, <2>1, <3>2
    <3> QED BY <1>3, <3>3, <3>4
  <2>2. CASE t[i] = Left'
    <3>1. ASSUME NEW d \in 1 .. s - 1, NEW j \in DOMAIN hosts'[d].got
          PROVE  hosts'[d].got[j] < t[i]
      <4>1. /\ d \in DOMAIN hosts /\ hosts'[d].got = hosts[d].got
            /\ j \in DOMAIN hosts[d].got
        BY <1>5, <3>1
      <4>2. hosts[d].got[j] \in Nat /\ hosts[d].got[j] <= Left
        BY <1>4, <4>1 DEF Output
      <4>3. hosts[d].got[j] < Left'
        BY <4>2
      <4> QED BY <2>2, <4>1, <4>3
    <3>2. t[i] <= Left'
      BY <2>2
    <3> QED BY <1>3, <3>1, <3>2
  <2> QED BY <1>3, <2>1, <2>2
<1>7. ASSUME NEW c \in DOMAIN hosts', c # s, NEW i \in DOMAIN hosts'[c].got
      PROVE  /\ hosts'[c].got[i] = hosts'[c].got[1] + i - 1
             /\ hosts'[c].got[i] <= Left'
             /\ \A d \in 1 .. c - 1 : \A j \in DOMAIN hosts'[d].got :
                  hosts'[d].got[j] < hosts'[c].got[i]
  <2>1. c \in DOMAIN hosts /\ hosts'[c] = hosts[c] /\ hosts[c].got[i] \in Nat
    BY <1>2, <1>4, <1>7
  <2>2. /\ hosts[c].got[i] = hosts[c].got[1] + i - 1 /\ hosts[c].got[i] <= Left
        /\ \A d \in 1 .. c - 1 : \A j \in DOMAIN hosts[d].got :
             hosts[d].got[j] < hosts[c].got[i]
    BY <1>7, <2>1 DEF Output
  <2>3. c < s /\ c \in Nat /\ \A d \in 1 .. c - 1 : d \in DOMAIN hosts /\ hosts'[d] = hosts[d]
    <3>1. c \in Nat /\ DOMAIN hosts = 1 .. Len(hosts) /\ Len(hosts) \in Nat /\ c <= Len(hosts)
      BY <1>1, <2>1, HostOf
    <3>2. ~ (c > s)
      BY <1>1, <1>7, <2>1 DEF Output
    <3> QED BY <1>1, <1>2, <1>7, <3>1, <3>2
  <2> QED BY <2>1, <2>2, <2>3
<1>8. \A c \in DOMAIN hosts' : c > accepted' => hosts'[c].got = <<>>
  BY <1>1, <1>2 DEF Output
<1>9. \A c \in DOMAIN hosts' : \A i \in DOMAIN hosts'[c].got :
        /\ hosts'[c].got[i] = hosts'[c].got[1] + i - 1
        /\ hosts'[c].got[i] <= Left'
        /\ \A d \in 1 .. c - 1 : \A j \in DOMAIN hosts'[d].got :
             hosts'[d].got[j] < hosts'[c].got[i]
  <2> TAKE c \in DOMAIN hosts'
  <2>1. CASE c = s
    BY <1>6, <2>1
  <2>2. CASE c # s
    BY <1>7, <2>2
  <2> QED BY <2>1, <2>2
<1> QED BY <1>3, <1>8, <1>9 DEF Output

LEMMA OutputConnects ==
  ASSUME Sockets, Output, HostConnects PROVE Output'
<1> DEFINE h == [wire |-> <<>>, sent |-> 0, got |-> <<>>, open |-> TRUE]
           N == Len(hosts)
<1>1. /\ hosts' = Append(hosts, h)
      /\ UNCHANGED <<accepted, debug_session_socket, fromUnit, said>>
  BY DEF HostConnects, HostDoes, socketVars
<1>2. /\ h \in Host /\ N \in Nat /\ accepted \in 0 .. N /\ hosts \in Seq(Host)
      /\ debug_session_socket \in {NoSession, accepted}
  BY LenProperties DEF Host, Sockets
<1>3. /\ DOMAIN hosts = 1 .. N /\ DOMAIN hosts' = 1 .. N + 1
      /\ hosts'[N + 1].got = <<>> /\ \A c \in 1 .. N : hosts'[c] = hosts[c]
  BY <1>1, <1>2, AppendProperties, LenProperties
<1>4. Left' = Left
  BY <1>1 DEF Left
<1>5. ASSUME NEW c \in DOMAIN hosts', NEW i \in DOMAIN hosts'[c].got
      PROVE  /\ hosts'[c].got[i] = hosts'[c].got[1] + i - 1
             /\ hosts'[c].got[i] <= Left'
             /\ \A d \in 1 .. c - 1 : \A j \in DOMAIN hosts'[d].got :
                  hosts'[d].got[j] < hosts'[c].got[i]
  <2>1. c \in 1 .. N
    BY <1>2, <1>3, <1>5
  <2>2. hosts'[c] = hosts[c] /\ \A d \in 1 .. c - 1 : hosts'[d] = hosts[d]
    BY <1>2, <1>3, <2>1
  <2> QED BY <1>3, <1>4, <1>5, <2>1, <2>2 DEF Output
<1>6. \A c \in DOMAIN hosts' : c > accepted' => hosts'[c].got = <<>>
  BY <1>1, <1>2, <1>3 DEF Output
<1>7. debug_session_socket' # NoSession =>
        LET got == hosts'[debug_session_socket'].got
        IN  got # <<>> => got[Len(got)] = Left'
  <2>1. debug_session_socket # NoSession =>
          hosts'[debug_session_socket] = hosts[debug_session_socket]
    BY <1>2, <1>3 DEF NoSession
  <2> QED BY <1>1, <1>4, <2>1 DEF Output
<1> QED BY <1>5, <1>6, <1>7 DEF Output

-----------------------------------------------------------------------------
(* The steps.                                                              *)
LEMMA SocketFacts ==
  ASSUME Sockets
  PROVE  /\ accepted \in Nat /\ Len(hosts) \in Nat /\ accepted <= Len(hosts)
         /\ DOMAIN hosts = 1 .. Len(hosts) /\ hosts \in Seq(Host)
         /\ debug_session_socket \in {NoSession, accepted}
         /\ debug_session_socket # NoSession => debug_session_socket \in DOMAIN hosts
         /\ Left \in Int
BY LenProperties DEF Sockets, NoSession, Left

(* The poll that reads no byte, or finds no session. *)
LEMMA PollReadsNone ==
  ASSUME SInv, UNCHANGED <<hosts, debug_buffer, toUnit, fromUnit, heard, said>>,
         debugOutFires' # "no" => debugOutFires # "no",
         accepted' \in accepted .. Len(hosts), debug_session_socket' \in {NoSession, accepted'},
         accepted' = accepted => debug_session_socket' \in {NoSession, debug_session_socket}
  PROVE  SInv'
<1>1. Sockets /\ Input /\ Output
  BY DEF SInv
<1>2. Sockets' /\ accepted' \in Nat /\ accepted' >= accepted
  BY <1>1, SocketFacts DEF Sockets
<1>3. Delivered' = Delivered /\ Left' = Left
  BY DEF Delivered, Left
<1>4. \A c \in DOMAIN hosts : Current(c)' => Current(c)
  BY <1>1, <1>2, SocketFacts DEF Current, NoSession
<1>5. debug_session_socket' # NoSession =>
        /\ debug_session_socket' \in DOMAIN hosts
        /\ \/ debug_session_socket' = debug_session_socket
           \/ hosts[debug_session_socket'].got = <<>>
  <2>1. CASE accepted' = accepted
    BY <1>1, <2>1, SocketFacts
  <2>2. CASE accepted' > accepted /\ debug_session_socket' # NoSession
    <3>1. debug_session_socket' = accepted' /\ accepted' \in DOMAIN hosts
      BY <1>1, <2>2, SocketFacts
    <3>2. hosts[accepted'].got = <<>>
      BY <1>1, <2>2, <3>1 DEF Output
    <3> QED BY <3>1, <3>2
  <2> QED BY <1>1, <1>2, <2>1, <2>2, SocketFacts
<1>6. Input'
  BY <1>1, <1>2, <1>3, <1>4, InputKept
<1>7. Output'
  BY <1>1, <1>2, <1>3, <1>5, OutputKept
<1> QED BY <1>2, <1>6, <1>7 DEF SInv

LEMMA PollReads ==
  ASSUME SInv, NEW s \in DOMAIN hosts,
         s = debug_session_socket \/ s = accepted + 1, s # NoSession,
         debug_session_socket' = s, accepted' = s,
         debug_buffer = <<>>, hosts[s].wire # <<>>,
         debug_buffer' = <<Head(hosts[s].wire)>>,
         hosts' = [hosts EXCEPT ![s].wire = Tail(@)],
         debugOutFires' # "no" => debugOutFires # "no",
         UNCHANGED <<toUnit, fromUnit, heard, said>>
  PROVE  SInv'
<1> DEFINE h == [hosts[s] EXCEPT !.wire = Tail(hosts[s].wire)]
<1>1. Sockets /\ Input /\ Output
  BY DEF SInv
<1>2. /\ hosts[s] \in Host /\ Head(hosts[s].wire) \in Byte /\ h \in Host
      /\ h.got = hosts[s].got
  <2>1. /\ hosts[s] \in Host /\ hosts[s].wire \in Seq(Byte)
    BY <1>1, SocketFacts, HostOf
  <2>2. Head(hosts[s].wire) \in Byte /\ Tail(hosts[s].wire) \in Seq(Byte)
    BY <2>1, HeadTailProperties
  <2> QED BY <2>1, <2>2 DEF Host
<1>3. hosts' = [hosts EXCEPT ![s] = h]
  OBVIOUS
<1>4. /\ hosts' \in Seq(Host) /\ DOMAIN hosts' = DOMAIN hosts /\ Len(hosts') = Len(hosts)
      /\ hosts'[s] = h /\ \A c \in DOMAIN hosts : c # s => hosts'[c] = hosts[c]
  <2>1. hosts \in Seq(Host)
    BY <1>1, SocketFacts
  <2> HIDE DEF h
  <2>2. ASSUME NEW hs, hs = hosts, NEW ht, ht = hosts', NEW x, x = h
        PROVE  /\ ht \in Seq(Host) /\ DOMAIN ht = DOMAIN hs /\ Len(ht) = Len(hs)
               /\ ht[s] = x /\ \A c \in DOMAIN hs : c # s => ht[c] = hs[c]
    <3>1. hs \in Seq(Host) /\ s \in DOMAIN hs /\ x \in Host /\ ht = [hs EXCEPT ![s] = x]
      BY <1>2, <1>3, <2>1, <2>2
    <3> QED BY <3>1, HostChanged
  <2> QED BY <2>2
<1>5. accepted' \in 0 .. Len(hosts) /\ accepted' \in Nat /\ accepted' >= accepted
  BY <1>1, SocketFacts
<1>6. Short(debug_buffer, Byte)'
  BY <1>2 DEF Short
<1>7. Sockets'
  BY <1>1, <1>4, <1>5, <1>6 DEF Sockets, Short
<1>8. Input'
  BY <1>1, BytesRead
<1>9. Output'
  <2>1. Left' = Left
    BY DEF Left
  <2>2. \A c \in DOMAIN hosts : hosts'[c].got = hosts[c].got
    BY <1>2, <1>4
  <2>3. debug_session_socket' = debug_session_socket \/ hosts[debug_session_socket'].got = <<>>
    BY <1>1, SocketFacts DEF Output
  <2> QED BY <1>1, <1>4, <1>5, <2>1, <2>2, <2>3, OutputKept
<1> QED BY <1>7, <1>8, <1>9 DEF SInv

LEMMA PollStep == ASSUME SInv, debug_poll PROVE SInv'
<1> DEFINE s == IF Accepts THEN accepted + 1 ELSE debug_session_socket
<1>1. Sockets
  BY DEF SInv
<1>2. /\ accepted' = IF Accepts THEN accepted + 1 ELSE accepted
      /\ debugOutFires' # "no" => debugOutFires # "no"
      /\ UNCHANGED <<toUnit, fromUnit, heard, said>>
      /\ IF s = NoSession
         THEN UNCHANGED <<hosts, debug_session_socket, debug_session_socket_writable, debug_buffer>>
         ELSE Polled(s)
  BY DEF debug_poll
<1>3. accepted' \in accepted .. Len(hosts)
  BY <1>1, <1>2, SocketFacts DEF Accepts
<1>4. CASE s = NoSession
  <2>1. accepted' = accepted /\ UNCHANGED <<hosts, debug_session_socket, debug_buffer>>
    BY <1>1, <1>2, <1>4, SocketFacts DEF NoSession
  <2> QED BY <1>1, <1>2, <1>3, <2>1, SocketFacts, PollReadsNone
<1>5. CASE s # NoSession
  <2>1. /\ s \in DOMAIN hosts /\ accepted' = s
        /\ s = debug_session_socket \/ s = accepted + 1
        /\ accepted' = accepted => s = debug_session_socket
    BY <1>1, <1>2, <1>5, SocketFacts DEF Accepts, NoSession
  <2>2. Polled(s)
    BY <1>2, <1>5
  <2> HIDE DEF s
  <2>3. CASE MayRead /\ hosts[s].wire # <<>>
    <3>1. /\ debug_session_socket' = s /\ debug_buffer = <<>>
          /\ debug_buffer' = <<Head(hosts[s].wire)>>
          /\ hosts' = [hosts EXCEPT ![s].wire = Tail(@)]
      BY <2>2, <2>3 DEF Polled, MayRead
    <3> QED BY <1>2, <1>5, <2>1, <2>3, <3>1, PollReads
  <2>4. CASE ~ (MayRead /\ hosts[s].wire # <<>>)
    <3>1. debug_session_socket' \in {NoSession, s} /\ UNCHANGED <<hosts, debug_buffer>>
      BY <2>2, <2>4 DEF Polled
    <3> QED BY <1>2, <1>3, <2>1, <3>1, PollReadsNone
  <2> QED BY <2>3, <2>4
<1> QED BY <1>4, <1>5

(* A step in which bytes only move towards the unit, or nothing does. *)
LEMMA MovesStep ==
  ASSUME SInv, Sockets', UNCHANGED <<hosts, accepted, debug_session_socket>>,
         Delivered' = Delivered, Left' = Left
  PROVE  SInv'
<1>1. Sockets /\ Input /\ Output
  BY DEF SInv
<1>2. accepted' \in Nat /\ accepted' >= accepted /\ DOMAIN hosts' = DOMAIN hosts
  BY <1>1, SocketFacts
<1>3. \A c \in DOMAIN hosts : Current(c)' => Current(c)
  BY DEF Current
<1>4. Input'
  BY <1>1, <1>2, <1>3, InputKept
<1>5. Output'
  BY <1>1, <1>2, SocketFacts, OutputKept
<1> QED BY <1>4, <1>5 DEF SInv

LEMMA InStep == ASSUME SInv, debugIn PROVE SInv'
<1>1. /\ toUnit = <<>> /\ toUnit' = debug_buffer /\ debug_buffer' = <<>>
      /\ UNCHANGED <<hosts, accepted, debug_session_socket, debugOutFires, fromUnit, heard, said>>
  BY DEF debugIn, socketVars
<1>2. Sockets
  BY DEF SInv
<1>3. Sockets'
  BY <1>1, <1>2 DEF Sockets, Short
<1>4. Delivered' = Delivered
  BY <1>1, <1>2, MovesToUnit
<1>5. Left' = Left
  BY <1>1 DEF Left
<1> QED BY <1>1, <1>3, <1>4, <1>5, MovesStep

LEMMA ReadyStep == ASSUME SInv, debug_stream_sink_ready PROVE SInv'
<1>1. /\ fromUnit # <<>>
      /\ UNCHANGED <<hosts, accepted, debug_session_socket, debug_buffer, toUnit, fromUnit,
                     heard, said>>
  BY DEF debug_stream_sink_ready, socketVars
<1>2. Sockets
  BY DEF SInv
<1>3. Sockets'
  BY <1>1, <1>2 DEF Sockets, Short
<1>4. Delivered' = Delivered /\ Left' = Left
  BY <1>1 DEF Delivered, Left
<1> QED BY <1>1, <1>3, <1>4, MovesStep

LEMMA TakesStep == ASSUME SInv, UnitTakes PROVE SInv'
<1>1. /\ heard' = heard \o toUnit /\ toUnit' = <<>>
      /\ UNCHANGED <<hosts, accepted, debug_session_socket, debug_buffer, debugOutFires,
                     fromUnit, said>>
  BY DEF UnitTakes, socketVars
<1>2. Sockets
  BY DEF SInv
<1>3. heard' \in Seq(Byte)
  BY <1>1, <1>2, ShortIsSeq, ConcatProperties DEF Sockets
<1>4. Sockets'
  BY <1>1, <1>2, <1>3 DEF Sockets, Short
<1>5. Delivered' = Delivered
  BY <1>1, <1>2, MovesOn
<1>6. Left' = Left
  BY <1>1 DEF Left
<1> QED BY <1>1, <1>4, <1>5, <1>6, MovesStep

LEMMA SendsStep == ASSUME SInv, UnitSends PROVE SInv'
<1>1. /\ fromUnit = <<>> /\ said' = said + 1 /\ fromUnit' = <<said'>>
      /\ UNCHANGED <<hosts, accepted, debug_session_socket, debug_buffer, debugOutFires,
                     toUnit, heard>>
  BY DEF UnitSends, socketVars
<1>2. Sockets
  BY DEF SInv
<1>3. Sockets'
  BY <1>1, <1>2 DEF Sockets, Short
<1>4. Delivered' = Delivered
  BY <1>1 DEF Delivered
<1>5. Left' = Left
  BY <1>1, <1>2 DEF Left, Sockets
<1> QED BY <1>1, <1>3, <1>4, <1>5, MovesStep

LEMMA OutStep == ASSUME SInv, debugOut PROVE SInv'
<1>1. Sockets /\ Input /\ Output
  BY DEF SInv
<1>2. /\ fromUnit = <<said>> /\ said \in Nat /\ said > 0
      /\ debugOutFires' = "no" /\ fromUnit' = <<>>
      /\ UNCHANGED <<debug_buffer, toUnit, heard, said>>
      /\ debug_stream_sink_put(said)
  BY <1>1 DEF debugOut, Sockets
<1>3. Left \in Nat /\ Left' = Left + 1 /\ Left' = said
  BY <1>2 DEF Left
<1>4. Delivered' = Delivered
  BY <1>2 DEF Delivered
<1>5. CASE UNCHANGED <<hosts, accepted>> /\ debug_session_socket' = NoSession
  <2>1. Sockets'
    <3>1. /\ hosts' \in Seq(Host) /\ accepted' \in 0 .. Len(hosts')
          /\ debug_session_socket' \in {NoSession, accepted'}
      BY <1>1, <1>5 DEF Sockets
    <3>2. heard' \in Seq(Byte) /\ Short(toUnit, Byte)' /\ Short(debug_buffer, Byte)'
      BY <1>1, <1>2 DEF Sockets, Short
    <3>3. said' \in Nat /\ fromUnit' = <<>>
      BY <1>2
    <3>4. debugOutFires' # "no" => fromUnit' # <<>>
      BY <1>2
    <3> QED BY <3>1, <3>2, <3>3, <3>4 DEF Sockets, Short
  <2>2. \A c \in DOMAIN hosts : Current(c)' => Current(c)
    BY <1>1, <1>5, SocketFacts DEF Current, NoSession
  <2>3. Input'
    BY <1>1, <1>4, <1>5, <2>2, SocketFacts, InputKept
  <2>4. Output'
    BY <1>1, <1>3, <1>5, OutputGone
  <2> QED BY <2>1, <2>3, <2>4 DEF SInv
<1>6. CASE /\ debug_session_socket # NoSession
           /\ hosts' = [hosts EXCEPT ![debug_session_socket].got = Append(@, said)]
           /\ UNCHANGED <<accepted, debug_session_socket>>
  <2> DEFINE s == debug_session_socket
             g == hosts[s].got
             h == [hosts[s] EXCEPT !.got = Append(g, said)]
  <2>1. s \in DOMAIN hosts /\ hosts \in Seq(Host)
    BY <1>1, <1>6, SocketFacts
  <2>2. /\ hosts[s] \in Host /\ h \in Host /\ h.wire = hosts[s].wire /\ h.sent = hosts[s].sent
    <3>1. hosts[s] \in Host /\ hosts[s].got \in Seq(Nat)
      BY <2>1, HostOf
    <3>2. Append(hosts[s].got, said) \in Seq(Nat)
      BY <1>2, <3>1, AppendProperties
    <3> QED BY <3>1, <3>2 DEF Host
  <2>3. hosts' = [hosts EXCEPT ![s] = h]
    BY <1>6
  <2>4. /\ hosts' \in Seq(Host) /\ DOMAIN hosts' = DOMAIN hosts /\ Len(hosts') = Len(hosts)
        /\ hosts'[s] = h /\ \A c \in DOMAIN hosts : c # s => hosts'[c] = hosts[c]
    <3> HIDE DEF h, s
    <3>1. ASSUME NEW hs, hs = hosts, NEW ht, ht = hosts', NEW x, x = h, NEW y, y = s
          PROVE  /\ ht \in Seq(Host) /\ DOMAIN ht = DOMAIN hs /\ Len(ht) = Len(hs)
                 /\ ht[y] = x /\ \A c \in DOMAIN hs : c # y => ht[c] = hs[c]
      <4>1. hs \in Seq(Host) /\ y \in DOMAIN hs /\ x \in Host /\ ht = [hs EXCEPT ![y] = x]
        BY <2>1, <2>2, <2>3, <3>1
      <4> QED BY <4>1, HostChanged
    <3> QED BY <3>1
  <2>5. Sockets'
    <3>1. /\ hosts' \in Seq(Host) /\ accepted' \in 0 .. Len(hosts')
          /\ debug_session_socket' \in {NoSession, accepted'}
      BY <1>1, <1>6, <2>4 DEF Sockets
    <3>2. heard' \in Seq(Byte) /\ Short(toUnit, Byte)' /\ Short(debug_buffer, Byte)'
      BY <1>1, <1>2 DEF Sockets, Short
    <3>3. said' \in Nat /\ fromUnit' = <<>>
      BY <1>2
    <3>4. debugOutFires' # "no" => fromUnit' # <<>>
      BY <1>2
    <3> QED BY <3>1, <3>2, <3>3, <3>4 DEF Sockets, Short
  <2>6. Input'
    <3>1. \A c \in DOMAIN hosts : hosts'[c].wire = hosts[c].wire /\ hosts'[c].sent = hosts[c].sent
      BY <2>2, <2>4
    <3>2. \A c \in DOMAIN hosts : Current(c)' => Current(c)
      BY <1>6 DEF Current
    <3>3. accepted' \in Nat /\ accepted' >= accepted
      BY <1>1, <1>6, SocketFacts
    <3> QED BY <1>1, <1>4, <2>4, <3>1, <3>2, <3>3, InputKept
  <2>7. Output'
    BY <1>1, <1>3, <1>6, <2>1, OutputSent
  <2> QED BY <2>5, <2>6, <2>7 DEF SInv
<1>7. CASE debug_session_socket = NoSession
  BY <1>2, <1>5, <1>7 DEF debug_stream_sink_put, socketVars
<1>8. CASE debug_session_socket # NoSession
  BY <1>2, <1>5, <1>6, <1>8 DEF debug_stream_sink_put, socketVars
<1> QED BY <1>7, <1>8

LEMMA ConnectsStep == ASSUME SInv, HostConnects PROVE SInv'
<1> DEFINE h == [wire |-> <<>>, sent |-> 0, got |-> <<>>, open |-> TRUE]
<1>1. Sockets /\ Input /\ Output
  BY DEF SInv
<1>2. /\ hosts' = Append(hosts, h)
      /\ UNCHANGED <<accepted, debug_session_socket, debug_buffer, debugOutFires, toUnit,
                     fromUnit, heard, said>>
  BY DEF HostConnects, HostDoes, socketVars
<1>3. hosts' \in Seq(Host) /\ Len(hosts') = Len(hosts) + 1
  <2>1. h \in Host /\ hosts \in Seq(Host)
    BY <1>1 DEF Host, Sockets
  <2> QED BY <1>2, <2>1, AppendProperties
<1>4. Sockets'
  BY <1>1, <1>2, <1>3, SocketFacts DEF Sockets, Short
<1>5. Input' /\ Output'
  BY <1>1, InputConnects, OutputConnects
<1> QED BY <1>4, <1>5 DEF SInv

(* A host that sends or leaves changes its own record, and not what it got. *)
LEMMA HostStep ==
  ASSUME SInv, NEW s \in DOMAIN hosts, NEW h \in Host, HostDoes([hosts EXCEPT ![s] = h]),
         h.got = hosts[s].got, Input'
  PROVE  SInv'
<1>1. Sockets /\ Input /\ Output
  BY DEF SInv
<1>2. /\ hosts' = [hosts EXCEPT ![s] = h]
      /\ UNCHANGED <<accepted, debug_session_socket, debug_buffer, debugOutFires, toUnit,
                     fromUnit, heard, said>>
  BY DEF HostDoes, socketVars
<1>3. hosts \in Seq(Host)
  BY <1>1, SocketFacts
<1>4. /\ hosts' \in Seq(Host) /\ DOMAIN hosts' = DOMAIN hosts /\ Len(hosts') = Len(hosts)
      /\ hosts'[s] = h /\ \A c \in DOMAIN hosts : c # s => hosts'[c] = hosts[c]
  <2>1. ASSUME NEW hs, hs = hosts, NEW ht, ht = hosts'
        PROVE  /\ ht \in Seq(Host) /\ DOMAIN ht = DOMAIN hs /\ Len(ht) = Len(hs)
               /\ ht[s] = h /\ \A c \in DOMAIN hs : c # s => ht[c] = hs[c]
    <3>1. hs \in Seq(Host) /\ s \in DOMAIN hs /\ ht = [hs EXCEPT ![s] = h]
      BY <1>2, <1>3, <2>1
    <3> QED BY <3>1, HostChanged
  <2> QED BY <2>1
<1>5. Sockets'
  BY <1>1, <1>2, <1>4 DEF Sockets, Short
<1>6. Output'
  <2>1. \A c \in DOMAIN hosts : hosts'[c].got = hosts[c].got
    BY <1>4
  <2>2. Left' = Left
    BY <1>2 DEF Left
  <2>3. /\ accepted' \in Nat /\ accepted' >= accepted
        /\ debug_session_socket' = debug_session_socket
        /\ debug_session_socket # NoSession => debug_session_socket \in DOMAIN hosts
    BY <1>1, <1>2, SocketFacts
  <2>4. DOMAIN hosts' = DOMAIN hosts
    BY <1>4
  <2> QED BY <1>1, <2>1, <2>2, <2>3, <2>4, OutputKept
<1> QED BY <1>5, <1>6 DEF SInv

LEMMA HostSendsStep == ASSUME SInv, NEW s \in DOMAIN hosts, HostSends(s) PROVE SInv'
<1> DEFINE b == <<s, hosts[s].sent + 1>>
           h == [hosts[s] EXCEPT !.sent = @ + 1, !.wire = Append(@, b)]
<1>1. Sockets /\ Input /\ hosts \in Seq(Host)
  BY SocketFacts DEF SInv
<1>2. hosts[s] \in Host /\ hosts[s].wire \in Seq(Byte) /\ hosts[s].sent \in Nat /\ b \in Byte
  BY <1>1, HostOf DEF Byte
<1>3. h \in Host /\ h.got = hosts[s].got
  <2>1. Append(hosts[s].wire, b) \in Seq(Byte)
    <3> HIDE DEF b
    <3> QED BY <1>2, AppendProperties
  <2>2. hosts[s].sent + 1 \in Nat
    BY <1>2
  <2> HIDE DEF b
  <2> QED BY <1>2, <2>1, <2>2 DEF Host
<1>4. HostDoes([hosts EXCEPT ![s] = h])
  BY DEF HostSends
<1>5. Input'
  BY <1>1, InputSends
<1> HIDE DEF h
<1> QED BY <1>3, <1>4, <1>5, HostStep

LEMMA HostLeavesStep == ASSUME SInv, NEW s \in DOMAIN hosts, HostLeaves(s) PROVE SInv'
<1> DEFINE h == [hosts[s] EXCEPT !.open = FALSE]
<1>1. Sockets /\ Input /\ hosts \in Seq(Host)
  BY SocketFacts DEF SInv
<1>2. /\ hosts[s] \in Host /\ h \in Host /\ h.got = hosts[s].got
      /\ h.wire = hosts[s].wire /\ h.sent = hosts[s].sent
  <2>1. hosts[s] \in Host
    BY <1>1, HostOf
  <2> QED BY <2>1 DEF Host
<1>3. HostDoes([hosts EXCEPT ![s] = h])
  BY DEF HostLeaves
<1>4. Input'
  <2>1. /\ UNCHANGED <<accepted, debug_session_socket, debug_buffer, toUnit, heard>>
        /\ hosts' = [hosts EXCEPT ![s] = h]
    BY <1>3 DEF HostDoes, socketVars
  <2>2. DOMAIN hosts' = DOMAIN hosts /\ Delivered' = Delivered
    BY <2>1 DEF Delivered
  <2>3. ASSUME NEW c \in DOMAIN hosts
        PROVE  /\ hosts'[c].wire = hosts[c].wire /\ hosts'[c].sent = hosts[c].sent
               /\ Current(c)' => Current(c)
    <3>1. hosts'[c] = IF c = s THEN h ELSE hosts[c]
      BY <1>1, <2>1
    <3> QED BY <1>2, <2>1, <3>1 DEF Current
  <2>4. accepted' \in Nat /\ accepted' >= accepted
    BY <1>1, <2>1, SocketFacts
  <2> QED BY <1>1, <2>2, <2>3, <2>4, InputKept
<1> HIDE DEF h
<1> QED BY <1>2, <1>3, <1>4, HostStep

(* The rest of the simulated system does not touch the socket. *)
LEMMA OthersStep ==
  ASSUME Rules \/ (\E r \in Requests : Request(r)) \/ Connect \/ Type \/ HangUp
  PROVE  UNCHANGED debugVars
<1>1. CASE outputFromLeft \/ outputFromRight
  BY <1>1 DEF outputFromLeft, outputFromRight
<1>2. CASE translateReqAndPrepareResp \/ putReq
  BY <1>2 DEF translateReqAndPrepareResp, putReq
<1>3. CASE completeErrorResp \/ completeWriteResp \/ completeReadResp
  BY <1>3 DEF completeErrorResp, completeWriteResp, completeReadResp, Complete
<1>4. CASE get
  BY <1>4 DEF get
<1>5. CASE setupPISMMemory \/ tickPISM \/ putIrqs
  BY <1>5 DEF setupPISMMemory, tickPISM, putIrqs, Around
<1>6. CASE \E r \in Requests : Request(r)
  BY <1>6 DEF Request
<1>7. CASE Connect \/ Type \/ HangUp
  BY <1>7 DEF Connect, Type, HangUp, OtherEnd, Around
<1> QED BY <1>1, <1>2, <1>3, <1>4, <1>5, <1>6, <1>7 DEF Rules

LEMMA StillStep == ASSUME SInv, UNCHANGED debugVars PROVE SInv'
<1>1. UNCHANGED <<hosts, accepted, debug_session_socket, debug_buffer, debugOutFires,
                  toUnit, fromUnit, heard, said>>
  BY DEF debugVars
<1>2. Sockets'
  BY <1>1 DEF SInv, Sockets, Short
<1>3. Delivered' = Delivered /\ Left' = Left
  BY <1>1 DEF Delivered, Left
<1> QED BY <1>1, <1>2, <1>3, MovesStep

LEMMA SInvInit == ASSUME Init PROVE SInv
<1>1. /\ hosts = <<>> /\ accepted = 0 /\ debug_session_socket = NoSession
      /\ debug_buffer = <<>> /\ debugOutFires = "no" /\ toUnit = <<>> /\ fromUnit = <<>>
      /\ heard = <<>> /\ said = 0
  BY DEF Init, DebugInit
<1>2. DOMAIN hosts = {} /\ Len(hosts) = 0
  BY <1>1
<1>3. Sockets
  BY <1>1, <1>2 DEF Sockets, Short
<1>4. Delivered = <<>>
  BY <1>1 DEF Delivered
<1>5. Input
  BY <1>2, <1>4 DEF Input
<1>6. Output
  BY <1>1, <1>2 DEF Output
<1> QED BY <1>3, <1>5, <1>6 DEF SInv

LEMMA SInvStep == ASSUME SInv, [Next]_vars PROVE SInv'
<1>1. CASE DebugRules
  BY <1>1, PollStep, InStep, ReadyStep, OutStep, TakesStep, SendsStep DEF DebugRules
<1>2. CASE Hosts
  BY <1>2, ConnectsStep, HostSendsStep, HostLeavesStep DEF Hosts
<1>3. CASE Rules \/ (\E r \in Requests : Request(r)) \/ Connect \/ Type \/ HangUp
  BY <1>3, OthersStep, StillStep
<1>4. CASE UNCHANGED vars
  <2>1. UNCHANGED debugVars
    BY <1>4 DEF vars
  <2> QED BY <2>1, StillStep
<1> QED BY <1>1, <1>2, <1>3, <1>4 DEF Next

LEMMA SInvImplies == ASSUME SInv PROVE SessionsInOrder
<1>1. Input /\ Output
  BY DEF SInv
<1> QED BY <1>1 DEF Input, Output, SessionsInOrder

(* What the unit hears from the hosts and what the hosts hear from the     *)
(* unit is in order, without gaps and not mixed, however many hosts come   *)
(* and go and whenever the socket is polled (debug_stream.c, and the rules *)
(* debugIn and debugOut of TopSimAxi.bsv).                                 *)
THEOREM SessionsCorrect == Spec => []SessionsInOrder
<1>1. Init => SInv
  BY SInvInit
<1>2. SInv /\ [Next]_vars => SInv'
  BY SInvStep
<1>3. SInv => SessionsInOrder
  BY SInvImplies
<1> QED BY <1>1, <1>2, <1>3, PTL DEF Spec
=============================================================================
