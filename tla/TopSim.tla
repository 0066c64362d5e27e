------------------------------- MODULE TopSim -------------------------------
(***************************************************************************)
(* The simulated system around PISM (TopSimAxi.bsv, PutMerge.bsv): reads   *)
(* and writes of the processor are merged into one stream, mkPISMTLM turns *)
(* them into calls of PISM and puts the replies in order again, and the    *)
(* processes at the other end of the UART come and go.  Every rule is an   *)
(* action; a bypass FIFO holds one element.  The socket of the debug unit  *)
(* is beside it (DebugStream).                                             *)
(***************************************************************************)
EXTENDS Pism, DebugStream

CONSTANTS MaxConns, MaxTyped    \* connections, and bytes typed in each

VARIABLES
  leftData, rightData, lastData,    \* mkPutMerge: reads left, writes right
  tlmRequests, pismRequests,
  incompleteResps, completeResps,
  console           \* the bytes the processor has read from the UART

masterVars == <<leftData, rightData, lastData>>
tlmVars == <<tlmRequests, pismRequests, incompleteResps, completeResps>>
vars == <<pismVars, masterVars, tlmVars, console, debugVars>>

Depth == 2          \* of mkFIFOF

(* Mutant: a FIFO of two elements. *)
NotFullOfTwo(bypass) == Len(bypass) < 2

NotFull(bypass) == bypass = <<>>

Reply(r, status, d) == [request |-> r, status |-> status, data |-> d]

-----------------------------------------------------------------------------
(* The masters keep a bounded number of requests in flight and ask nothing *)
(* of devices that are not there, except through Unmapped.                 *)
InFlight == Len(leftData) + Len(rightData) + Len(tlmRequests)
            + Len(incompleteResps) + Len(completeResps)

Request(r) ==
  /\ r.dev \in config.devices \cup {Unmapped}
  /\ InFlight < config.outstanding
  /\ IF r.acctype = Fetch
     THEN /\ Len(leftData) < Depth /\ leftData' = Append(leftData, r)
          /\ UNCHANGED rightData
     ELSE /\ Len(rightData) < Depth /\ rightData' = Append(rightData, r)
          /\ UNCHANGED leftData
  /\ UNCHANGED <<pismVars, lastData, tlmVars, console, debugVars>>

(* Mutant: writes always go first. *)
sourceWritesFirst ==
  IF rightData # <<>> THEN "Right" ELSE IF leftData # <<>> THEN "Left" ELSE "None"

source ==
  CASE leftData # <<>> /\ rightData # <<>> ->
         IF lastData = "Right" THEN "Left" ELSE "Right"
    [] leftData # <<>> /\ rightData = <<>> -> "Left"
    [] leftData = <<>> /\ rightData # <<>> -> "Right"
    [] OTHER -> "None"

outputFromLeft ==
  /\ source = "Left" /\ NotFull(tlmRequests)
  /\ tlmRequests' = Append(tlmRequests, Head(leftData))
  /\ leftData' = Tail(leftData) /\ lastData' = "Left"
  /\ UNCHANGED <<pismVars, rightData, pismRequests, incompleteResps,
                 completeResps, console, debugVars>>

outputFromRight ==
  /\ source = "Right" /\ NotFull(tlmRequests)
  /\ tlmRequests' = Append(tlmRequests, Head(rightData))
  /\ rightData' = Tail(rightData) /\ lastData' = "Right"
  /\ UNCHANGED <<pismVars, leftData, pismRequests, incompleteResps,
                 completeResps, console, debugVars>>

(* A bad request only gets its error reply.  Both FIFOs must have room: the *)
(* rule writes pismRequests under a condition, but waits for it anyway.     *)
translateReqAndPrepareResp ==
  /\ tlmRequests # <<>> /\ NotFull(pismRequests) /\ NotFull(incompleteResps)
  /\ LET r == Head(tlmRequests)
     IN  IF pism_addr_valid(r)
         THEN /\ pismRequests' = Append(pismRequests, r)
              /\ incompleteResps' = Append(incompleteResps, Reply(r, "SUCCESS", <<>>))
         ELSE /\ incompleteResps' = Append(incompleteResps, Reply(r, "ERROR", <<>>))
              /\ UNCHANGED pismRequests
  /\ tlmRequests' = Tail(tlmRequests)
  /\ UNCHANGED <<pismVars, masterVars, completeResps, console, debugVars>>

putReq ==
  /\ pismRequests # <<>> /\ pism_request_ready(Head(pismRequests))
  /\ pism_request_put(Head(pismRequests))
  /\ pismRequests' = Tail(pismRequests)
  /\ UNCHANGED <<masterVars, tlmRequests, incompleteResps, completeResps, console, debugVars>>

Complete(d) ==
  /\ NotFull(completeResps)
  /\ completeResps' = Append(completeResps, [Head(incompleteResps) EXCEPT !.data = d])
  /\ incompleteResps' = Tail(incompleteResps)
  /\ UNCHANGED <<masterVars, tlmRequests, pismRequests, console, debugVars>>

completeErrorResp ==
  /\ incompleteResps # <<>> /\ Head(incompleteResps).status = "ERROR"
  /\ Complete(<<>>) /\ UNCHANGED pismVars

completeWriteResp ==
  /\ incompleteResps # <<>> /\ Head(incompleteResps).status = "SUCCESS"
  /\ Head(incompleteResps).request.acctype = Store
  /\ Complete(<<>>) /\ UNCHANGED pismVars

completeReadResp ==
  /\ incompleteResps # <<>> /\ Head(incompleteResps).status = "SUCCESS"
  /\ Head(incompleteResps).request.acctype = Fetch
  /\ pism_response_ready
  /\ pism_response_get
  /\ Complete(Answer)

(* The byte of a reply from the UART's data register, if it is valid. *)
ByteOf(resp) ==
  IF /\ resp.status = "SUCCESS" /\ resp.request.acctype = Fetch
     /\ resp.request.dev = "uart" /\ "data" \in resp.request.byteenable
     /\ resp.data["data"] # NoByte
  THEN <<resp.data["data"]>> ELSE <<>>

(* The get of the read or of the write port, whichever the head is for. *)
get ==
  /\ completeResps # <<>>
  /\ completeResps' = Tail(completeResps)
  /\ console' = console \o ByteOf(Head(completeResps))
  /\ UNCHANGED <<pismVars, masterVars, tlmRequests, pismRequests, incompleteResps,
                 debugVars>>

Around == UNCHANGED <<masterVars, tlmVars, console, debugVars>>

setupPISMMemory == pism_init /\ Around
tickPISM == pism_cycle_tick /\ Around
putIrqs == pism_interrupt_get /\ Around

-----------------------------------------------------------------------------
(* The process at the other end of the UART: it connects, types, leaves.   *)
OtherEnd(u) ==
  /\ uart' = u
  /\ UNCHANGED <<config, pism_initialized, pism_fifo, reqfifo, wait, data, image>>
  /\ Around

Connect ==
  /\ uart.type = "socket" /\ uart.caller = <<>> /\ uart.conns < MaxConns
  /\ OtherEnd([uart EXCEPT !.caller = <<NewLine(uart.conns + 1)>>,
                           !.conns = @ + 1])

Typed(line) == [line EXCEPT !.wire = Append(@, <<line.conn, line.typed + 1>>),
                            !.typed = @ + 1]

CanType(line) == line.open /\ line.typed < MaxTyped

Type ==
  \/ /\ uart.fdinput /\ CanType(uart.line)
     /\ OtherEnd([uart EXCEPT !.line = Typed(@)])
  \/ /\ uart.caller # <<>> /\ CanType(Head(uart.caller))
     /\ OtherEnd([uart EXCEPT !.caller = <<Typed(Head(@))>>])

HangUp ==
  \/ /\ uart.fdinput /\ uart.line.open
     /\ OtherEnd([uart EXCEPT !.line.open = FALSE])
  \/ /\ uart.caller # <<>> /\ Head(uart.caller).open
     /\ OtherEnd([uart EXCEPT !.caller = <<[Head(@) EXCEPT !.open = FALSE]>>])

-----------------------------------------------------------------------------
(* The debug unit's socket.  Bound: config.sessions hosts connect.         *)
Beside == UNCHANGED <<pismVars, masterVars, tlmVars, console>>

DebugRules ==
  /\ config.sessions > 0
  /\ debug_poll \/ debugIn \/ debug_stream_sink_ready \/ debugOut \/ UnitTakes \/ UnitSends
  /\ Beside

Hosts ==
  /\ \/ Len(hosts) < config.sessions /\ HostConnects
     \/ \E c \in DOMAIN hosts : HostSends(c) \/ HostLeaves(c)
  /\ Beside

-----------------------------------------------------------------------------
Init ==
  /\ PismInit /\ DebugInit
  /\ leftData = <<>> /\ rightData = <<>> /\ lastData = "Right"
  /\ tlmRequests = <<>> /\ pismRequests = <<>>
  /\ incompleteResps = <<>> /\ completeResps = <<>>
  /\ console = <<>>

Rules ==
  \/ outputFromLeft \/ outputFromRight
  \/ translateReqAndPrepareResp \/ putReq
  \/ completeErrorResp \/ completeWriteResp \/ completeReadResp
  \/ get \/ setupPISMMemory \/ tickPISM \/ putIrqs

Next ==
  \/ Rules
  \/ \E r \in Requests : Request(r)
  \/ Connect \/ Type \/ HangUp
  \/ DebugRules \/ Hosts

(* The simulator fires every rule that can fire in every cycle, and the    *)
(* masters take their replies; debug_poll is called in every cycle, as it   *)
(* says it relies on, and the debug unit takes the bytes it is sent.       *)
(* Nobody need ask or type anything.                                       *)
Fairness ==
  /\ WF_vars(outputFromLeft) /\ WF_vars(outputFromRight)
  /\ WF_vars(translateReqAndPrepareResp) /\ WF_vars(putReq)
  /\ WF_vars(completeErrorResp) /\ WF_vars(completeWriteResp)
  /\ WF_vars(completeReadResp) /\ WF_vars(get)
  /\ WF_vars(setupPISMMemory) /\ WF_vars(tickPISM)
  /\ WF_vars(debug_poll /\ Beside) /\ WF_vars(debugIn /\ Beside)
  /\ WF_vars(debug_stream_sink_ready /\ Beside) /\ WF_vars(debugOut /\ Beside)
  /\ WF_vars(UnitTakes /\ Beside)

Spec == Init /\ [][Next]_vars
FairSpec == Spec /\ Fairness

-----------------------------------------------------------------------------
AtMostOne(S) == {<<>>} \cup {<<x>> : x \in S}

Resp == [request : Requests, status : {"SUCCESS", "ERROR"}, data : {<<>>}]

(* Types, and the limits the C code asserts: the response FIFO never fills *)
(* up, and the device at its head, and no other, holds a fetch.            *)
TypeOK ==
  /\ config \in Configs /\ pism_initialized \in BOOLEAN
  /\ Len(pism_fifo) < PISM_FIFO_DEPTH
  /\ \A d \in Devices : IF pism_fifo # <<>> /\ d = Head(pism_fifo)
                         THEN Len(reqfifo[d]) = 1 ELSE reqfifo[d] = <<>>
  /\ wait \in [Timed -> 0 .. Delay]
  /\ \A d \in Drams : data[d] \in [Lanes -> Bytes]
  /\ image.size \in 0 .. ArgRange
  /\ \A b \in DOMAIN image.block : image.block[b] \in Words \cup {Partial}
  /\ uart.control \subseteq PERSISTENT \cup {"RI", "WI"}
  /\ Len(leftData) <= Depth /\ Len(rightData) <= Depth
  /\ tlmRequests \in AtMostOne(Requests) /\ pismRequests \in AtMostOne(Requests)
  /\ incompleteResps \in AtMostOne(Resp) /\ Len(completeResps) <= 1

(* Reads and writes take effect one after another in the order in which    *)
(* the merge accepted them, although a write is acknowledged before PISM   *)
(* has seen it and dram.c reads its bytes only when the reply is taken:    *)
(* a fetch sees every earlier store and no later one.                      *)
Awaited ==      \* the fetch whose reply is still to come
  IF incompleteResps # <<>> /\ Head(incompleteResps).status = "SUCCESS"
     /\ Head(incompleteResps).request.acctype = Fetch
  THEN <<Head(incompleteResps).request>> ELSE <<>>

Acknowledged == IF Awaited = <<>> THEN incompleteResps ELSE <<>>

Visible(resp) ==
  IF resp.request.dev \in Drams THEN resp ELSE [resp EXCEPT !.data = <<>>]

MemoryNow ==
  [d \in Drams |->
     IF pismRequests # <<>> /\ Head(pismRequests).acctype = Store
        /\ Head(pismRequests).dev = d
     THEN Enabled(data[d], Head(pismRequests)) ELSE data[d]]

Bus == INSTANCE SequentialBus WITH
  Memories <- Drams, Protected <- ReadOnly, NoData <- <<>>,
  started <- pism_initialized, devices <- config.devices,
  memory <- MemoryNow, pending <- Awaited \o tlmRequests,
  answers <- [i \in DOMAIN completeResps |-> Visible(completeResps[i])]
             \o Acknowledged

ActsInOrder == Bus!Spec

(* The bytes that the processor has read or that wait in a reply, and     *)
(* those it can still read; the number of the last one if it is c's.       *)
Arrived == IF completeResps = <<>> THEN console
           ELSE console \o ByteOf(Head(completeResps))

Unread(u) == IF u.fdinput THEN u.line.wire ELSE <<>>

LastOf(s, c) == IF s # <<>> /\ s[Len(s)][1] = c THEN s[Len(s)][2] ELSE 0

(* No byte typed is lost, doubled or reordered on its way through poll,    *)
(* the registers and the reply FIFO while the connection lasts, and what   *)
(* an ended connection delivered is a beginning of what was typed.         *)
InputInOrder ==
  LET s == Arrived \o Unread(uart) IN
  /\ \A i \in DOMAIN s : InTurn(s, i)
  /\ uart.fdinput => LastOf(s, uart.line.conn) = uart.line.typed

(* What a driver may conclude from the status registers of the card, which *)
(* a command that fails leaves as they were but for DATAERROR.  VALID and  *)
(* no error in RR1 say that a command completed since the last one that    *)
(* was refused; they do not say that the last one did.                     *)
(*   ReadReported: a read that leaves VALID alone has loaded the block.    *)
(*   DoneReported: the registers begin to say done only with a command     *)
(* that completes, say so after every write that completes, and stop only  *)
(* with a command that is refused and changes nothing.                     *)
(*   OnlyItsBlock: a write, completed or not, changes no other block, so   *)
(* that reading it back tells what became of it.                           *)
CommandPut(cmd) ==
  /\ pismRequests # <<>> /\ pismRequests' = <<>>
  /\ Head(pismRequests).dev = "sdcard" /\ Head(pismRequests).acctype = Store
  /\ "cmd" \in Head(pismRequests).byteenable
  /\ data["sdcard"]'["cmd"] = cmd

(* The buffer and the block of the argument are the same; of two that are  *)
(* Partial this is not known.                                              *)
Agree(sd, img) ==
  InFile(img, BlockOf(sd)) /\ img.block[BlockOf(sd)] = sd["buf"]

SaysDone(sd) == "VALID" \in sd["asr"] /\ sd["rr1"] = "ok"

ReadReported ==
  CommandPut("READ_BLOCK") /\ data["sdcard"]'["asr"] = {"VALID"} =>
    Agree(data["sdcard"]', image)

DoneReported ==
  /\ ~SaysDone(data["sdcard"]) /\ SaysDone(data["sdcard"]') =>
       /\ CommandPut("READ_BLOCK") \/ CommandPut("WRITE_BLOCK")
       /\ Agree(data["sdcard"]', image')
  /\ CommandPut("WRITE_BLOCK") /\ ~SaysDone(data["sdcard"]')
     /\ data["sdcard"]'["buf"] # Partial /\ Agree(data["sdcard"]', image') =>
       Agree(data["sdcard"]', image)
  /\ SaysDone(data["sdcard"]) /\ ~SaysDone(data["sdcard"]') =>
       "VALID" \notin data["sdcard"]'["asr"] /\ image' = image

OnlyItsBlock ==
  image' # image =>
    /\ CommandPut("WRITE_BLOCK") /\ ~BadArgument(data["sdcard"]')
    /\ image.size <= image'.size
    /\ \A b \in DOMAIN image.block :
         b # BlockOf(data["sdcard"]') => image'.block[b] = image.block[b]

CommandReported == [][ReadReported /\ DoneReported /\ OnlyItsBlock]_vars

(* No request waits for ever: the merge lets neither port starve, and      *)
(* every stage of the bus empties again and again.                         *)
EverythingComesOut ==
  /\ []<>(leftData = <<>> \/ lastData = "Left")
  /\ []<>(rightData = <<>> \/ lastData = "Right")
  /\ []<>(tlmRequests = <<>>) /\ []<>(pismRequests = <<>>)
  /\ []<>(incompleteResps = <<>>) /\ []<>(completeResps = <<>>)
=============================================================================
