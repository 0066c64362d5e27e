---------------------------- MODULE DebugConvert ----------------------------
(***************************************************************************)
(* mkDebugConvert: the packets of the debug unit as bytes.  A packet is    *)
(* its op, its length and that many bytes of data.  Rule getCommand builds *)
(* packets from the bytes of the host, deliverResponse takes replies       *)
(* apart; the host library writes and reads the bytes of a packet one      *)
(* after the other.  The unit behind it may send and take packets at any   *)
(* time.                                                                   *)
(*                                                                         *)
(* Each byte in a FIFO is labelled with the packet and the place in it     *)
(* that it comes from.  The labels are history: no guard reads them.       *)
(***************************************************************************)
EXTENDS Integers, Sequences

CONSTANTS Bytes,        \* values of a byte
          Unwritten,    \* data of a packet that no byte was written to
          MaxLength,    \* 32: the bytes of data a MessagePacket holds
          Requests,     \* the packets [op, data] the host may send
          Replies,      \* the packets [op, data] the debug unit may send
          InDepth,      \* 1024: depth of inChar
          OutDepth,     \* 1024: depth of outChar
          MaxRequests,  \* bound: packets sent in a behaviour
          MaxReplies    \* bound: replies sent in a behaviour

Packets == [op : Bytes, data : Seq(Bytes)]

ASSUME ByteAssumption   == Bytes \subseteq Nat /\ Unwritten \notin Bytes
ASSUME DepthAssumption  == /\ InDepth \in Nat \ {0} /\ OutDepth \in Nat \ {0}
                           /\ MaxLength \in Nat \ {0}
ASSUME PacketAssumption == \A p \in Requests \cup Replies :
                             p \in Packets /\ Len(p.data) \in Bytes
ASSUME ReplyAssumption  == \A p \in Replies : Len(p.data) <= MaxLength

VARIABLES
  inChar, commandState, commandCount, command, commands,  \* from the host
  responses, responseState, responseCount, outChar,       \* to the host
  asked, asking,    \* packets the host has begun to send; bytes sent of the last
  written,          \* history: all bytes the host has sent
  taken,            \* history: packets the debug unit has taken
  replied,          \* history: replies it has put
  hearing, heard    \* bytes of the reply the host is reading; replies it has read

input  == <<inChar, commandState, commandCount, command, commands, asked, asking, written,
            taken>>
output == <<responses, responseState, responseCount, outChar, replied, hearing, heard>>
vars   == <<input, output>>

Slots == 0 .. MaxLength - 1
EmptyData == [i \in Slots |-> Unwritten]

(* A packet as the bytes that stand for it, and in the form of a           *)
(* MessagePacket, whose data is longer than its length says.               *)
Wire(p)      == <<p.op, Len(p.data)>> \o p.data
Message(p)   == [op |-> p.op, length |-> Len(p.data),
                 data |-> [i \in Slots |-> IF i < Len(p.data) THEN p.data[i + 1] ELSE Unwritten]]
PacketOf(m)  == [op |-> m.op, data |-> [i \in 1 .. m.length |-> m.data[i - 1]]]
Labelled(b, n, k) == [byte |-> b, of |-> n, at |-> k]

Init ==
  /\ inChar = << >> /\ commands = << >> /\ outChar = << >> /\ responses = << >>
  /\ commandState = "Type" /\ commandCount = 0
  /\ command = [op |-> Unwritten, length |-> 0, data |-> EmptyData]
  /\ responseState = "Type" /\ responseCount = 0
  /\ asked = << >> /\ asking = 0 /\ written = << >> /\ taken = << >>
  /\ replied = << >> /\ hearing = << >> /\ heard = << >>

-----------------------------------------------------------------------------
(* The host writes the bytes of a packet in order and starts the next one  *)
(* only after the last.                                                    *)
current == asked[Len(asked)]
Boundary == IF asked = << >> THEN TRUE ELSE asking = Len(Wire(current))

Send ==
  /\ Len(inChar) < InDepth
  /\ \/ /\ Boundary /\ Len(asked) < MaxRequests
        /\ \E p \in Requests : /\ asked' = Append(asked, p)
                               /\ asking' = 1
                               /\ inChar' = Append(inChar, Labelled(p.op, Len(asked) + 1, 1))
                               /\ written' = Append(written, p.op)
     \/ /\ ~Boundary
        /\ asking' = asking + 1
        /\ inChar' = Append(inChar, Labelled(Wire(current)[asking + 1],
                                             Len(asked), asking + 1))
        /\ written' = Append(written, Wire(current)[asking + 1])
        /\ UNCHANGED asked
  /\ UNCHANGED <<commandState, commandCount, command, commands, taken, output>>

(* Rule getCommand calls inChar.deq in every state and commands.enq in     *)
(* some, so it waits for both FIFOs in all of them.                        *)
CanGetNoRoom == inChar # << >>   \* mutant: a packet not yet taken is overwritten
CanGet == inChar # << >> /\ commands = << >>
char   == Head(inChar).byte

GetType ==
  /\ commandState = "Type"
  /\ command' = [op |-> char, length |-> 0, data |-> EmptyData]
  /\ commandState' = "Length"
  /\ UNCHANGED <<commandCount, commands>>

\* mutants: the limit is one too high; a packet without data waits for data
LengthOkTooLong(length) == length # 0 /\ length <= MaxLength + 1
LengthOkZero(length)    == length <= MaxLength
LengthOk(length)        == length # 0 /\ length <= MaxLength

GetLength ==
  /\ commandState = "Length"
  /\ IF LengthOk(char)
       THEN /\ command' = [command EXCEPT !.length = char]
            /\ commandState' = "Data" /\ commandCount' = 0
            /\ UNCHANGED commands
       ELSE /\ command' = [command EXCEPT !.length = 0]
            /\ commandState' = "Type"
            /\ commands' = <<command'>>
            /\ UNCHANGED commandCount

GetData ==
  /\ commandState = "Data"
  /\ command' = [command EXCEPT !.data = [@ EXCEPT ![commandCount] = char]]
  /\ IF commandCount >= command.length - 1
       THEN commandState' = "Type" /\ commands' = <<command'>>
       ELSE UNCHANGED <<commandState, commands>>
  /\ commandCount' = commandCount + 1

getCommand ==
  /\ CanGet
  /\ inChar' = Tail(inChar)
  /\ GetType \/ GetLength \/ GetData
  /\ UNCHANGED <<asked, asking, written, taken, output>>

(* messages.request.get, called by the debug unit.                         *)
Take ==
  /\ commands # << >>
  /\ commands' = << >> /\ taken' = Append(taken, PacketOf(Head(commands)))
  /\ UNCHANGED <<inChar, commandState, commandCount, command, asked, asking, written, output>>

-----------------------------------------------------------------------------
(* messages.response.put, called by the debug unit.                        *)
Put ==
  /\ responses = << >> /\ Len(replied) < MaxReplies
  /\ \E p \in Replies : responses' = <<Message(p)>> /\ replied' = Append(replied, p)
  /\ UNCHANGED <<responseState, responseCount, outChar, hearing, heard, input>>

\* mutant: waits for room for the whole reply
CanDeliverWhole == responses # << >> /\ Len(outChar) + 2 + Head(responses).length <= OutDepth
CanDeliver == responses # << >> /\ Len(outChar) < OutDepth
myRsp      == Head(responses)
Deliver(b, k) == outChar' = Append(outChar, Labelled(b, Len(replied), k))

DeliverType ==
  /\ responseState = "Type"
  /\ Deliver(myRsp.op, 1)
  /\ responseState' = "Length"
  /\ UNCHANGED <<responses, responseCount>>

\* mutant: a reply without data is followed by a byte of data
DeliverLengthAlwaysData ==
  /\ responseState = "Length"
  /\ Deliver(myRsp.length, 2)
  /\ responseState' = "Data" /\ responseCount' = 0 /\ UNCHANGED responses

DeliverLength ==
  /\ responseState = "Length"
  /\ Deliver(myRsp.length, 2)
  /\ IF myRsp.length # 0
       THEN responseState' = "Data" /\ responseCount' = 0 /\ UNCHANGED responses
       ELSE responseState' = "Type" /\ responses' = << >> /\ UNCHANGED responseCount

DeliverData ==
  /\ responseState = "Data"
  /\ Deliver(myRsp.data[responseCount], responseCount + 3)
  /\ IF responseCount >= myRsp.length - 1
       THEN responseState' = "Type" /\ responses' = << >>
       ELSE UNCHANGED <<responseState, responses>>
  /\ responseCount' = responseCount + 1

deliverResponse ==
  /\ CanDeliver
  /\ DeliverType \/ DeliverLength \/ DeliverData
  /\ UNCHANGED <<replied, hearing, heard, input>>

(* The host reads an op, a length and that many bytes.  (An Invalid reply, *)
(* whose length it leaves unread, is not among Replies.)                   *)
HeardWhole(bs) == Len(bs) >= 2 /\ Len(bs) = 2 + bs[2]

Hear ==
  /\ outChar # << >>
  /\ outChar' = Tail(outChar)
  /\ LET bs == Append(hearing, Head(outChar).byte)
     IN IF HeardWhole(bs)
          THEN /\ hearing' = << >>
               /\ heard' = Append(heard, [op |-> bs[1], data |-> SubSeq(bs, 3, Len(bs))])
          ELSE hearing' = bs /\ UNCHANGED heard
  /\ UNCHANGED <<responses, responseState, responseCount, replied, input>>

Next == Send \/ getCommand \/ Take \/ Put \/ deliverResponse \/ Hear

(* The rules fire when they can; the debug unit polls and the host reads.  *)
Fairness == /\ WF_vars(getCommand) /\ WF_vars(deliverResponse)
            /\ WF_vars(Take) /\ WF_vars(Hear)

Spec == Init /\ [][Next]_vars /\ Fairness

-----------------------------------------------------------------------------
States   == {"Type", "Length", "Data"}
Data     == [Slots -> Bytes \cup {Unwritten}]
Messages == [op : Bytes \cup {Unwritten}, length : 0 .. MaxLength, data : Data]
Labels   == [byte : Bytes, of : Nat \ {0}, at : Nat \ {0}]

InputTypes ==
  /\ inChar \in Seq(Labels) /\ Len(inChar) <= InDepth
  /\ commandState \in States /\ commandCount \in 0 .. MaxLength /\ command \in Messages
  /\ commandState = "Data" => commandCount < command.length
  /\ commands \in Seq(Messages) /\ Len(commands) <= 1
  /\ asked \in Seq(Requests) /\ asking \in Nat /\ taken \in Seq(Packets)

OutputTypes ==
  /\ responses \in Seq(Messages) /\ Len(responses) <= 1
  /\ responseState \in States /\ responseCount \in 0 .. MaxLength
  /\ outChar \in Seq(Labels) /\ Len(outChar) <= OutDepth
  /\ replied \in Seq(Replies) /\ heard \in Seq(Packets) /\ hearing \in Seq(Bytes)

(* The types of the variables.  A MessagePacket never claims more data     *)
(* than it holds, and the counts stay in the data while they index it.     *)
TypeOK == InputTypes /\ OutputTypes /\ written \in Seq(Bytes)

(* While the host sends only packets that fit, the debug unit takes the    *)
(* packets the host sent, complete and in order, however their bytes are   *)
(* delayed: no byte of one ends up in another.                             *)
Fits == \A i \in 1 .. Len(asked) : Len(asked[i].data) <= MaxLength
RequestsArrive ==
  Fits => /\ Len(taken) <= Len(asked)
          /\ \A i \in 1 .. Len(taken) : taken[i] = asked[i]

(* The packets that a sequence of bytes stands for: an op and a length,    *)
(* and that many bytes if the length is neither zero nor too long.  After  *)
(* a length that is too long the data is read as packets.                  *)
DataLength(s) == IF s[2] > MaxLength THEN 0 ELSE s[2]
Frames[s \in Seq(Bytes)] ==
  IF Len(s) < 2 \/ Len(s) < 2 + DataLength(s) THEN << >>
  ELSE <<[op |-> s[1], data |-> SubSeq(s, 3, 2 + DataLength(s))]>>
       \o Frames[SubSeq(s, 3 + DataLength(s), Len(s))]

Read == SubSeq(written, 1, Len(written) - Len(inChar))

(* Whatever the host sends, also packets that do not fit, the debug unit   *)
(* gets the packets that the bytes stand for: after a bad length           *)
(* getCommand starts anew with the very next byte and nothing of the       *)
(* packet before is left in the one after.                                 *)
BytesAreFramed ==
  taken \o [i \in 1 .. Len(commands) |-> PacketOf(commands[i])] = Frames[Read]

(* The host reads the replies the debug unit put, complete and in order:   *)
(* deliverResponse and the host agree on where each of them ends.          *)
RepliesArrive ==
  /\ Len(heard) <= Len(replied)
  /\ \A i \in 1 .. Len(heard) : heard[i] = replied[i]

(* When nothing more is sent nothing stays in the conversion: not even a   *)
(* packet of the wrong length, or a reply without data, stops either rule. *)
EverythingDelivered ==
  <>[](inChar = << >> /\ commands = << >> /\ responses = << >> /\ outChar = << >>)
=============================================================================
