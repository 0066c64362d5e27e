------------------------- MODULE DebugConvertProofs -------------------------
(***************************************************************************)
(* Theorems about DebugConvert, for every set of packets, every depth of   *)
(* the FIFOs, and any length of a behaviour.                               *)
(***************************************************************************)
EXTENDS DebugConvert, SequenceLemmas

-----------------------------------------------------------------------------
(* A packet on the wire: two bytes and its data.                           *)
LEMMA WireBytes ==
  ASSUME NEW p \in Packets
  PROVE  /\ Wire(p) \in Seq(Bytes \cup Nat)
         /\ Len(Wire(p)) = 2 + Len(p.data)
         /\ Wire(p)[1] = p.op /\ Wire(p)[2] = Len(p.data)
         /\ \A k \in 1 .. Len(p.data) : Wire(p)[k + 2] = p.data[k]
         /\ Len(p.data) \in Bytes => \A k \in 1 .. Len(Wire(p)) : Wire(p)[k] \in Bytes
<1>1. p.op \in Bytes /\ p.data \in Seq(Bytes) /\ Len(p.data) \in Nat
  BY DEF Packets
<1>2. <<p.op, Len(p.data)>> \in Seq(Bytes \cup Nat) /\ p.data \in Seq(Bytes \cup Nat)
  BY <1>1
<1>3. /\ Wire(p) \in Seq(Bytes \cup Nat)
      /\ Len(Wire(p)) = 2 + Len(p.data)
      /\ \A i \in 1 .. 2 + Len(p.data) :
           Wire(p)[i] = IF i <= 2 THEN <<p.op, Len(p.data)>>[i] ELSE p.data[i - 2]
  BY <1>1, <1>2, ConcatProperties DEF Wire
<1>4. \A k \in 1 .. Len(p.data) : p.data[k] \in Bytes
  BY <1>1
<1>5. \A k \in 1 .. Len(p.data) : Wire(p)[k + 2] = p.data[k]
  BY <1>1, <1>3
<1>6. Wire(p)[1] = p.op /\ Wire(p)[2] = Len(p.data)
  BY <1>1, <1>3
<1>7. ASSUME Len(p.data) \in Bytes, NEW k \in 1 .. Len(Wire(p))
      PROVE  Wire(p)[k] \in Bytes
  <2>1. CASE k = 1
    BY <1>1, <1>6, <2>1
  <2>2. CASE k = 2
    BY <1>6, <1>7, <2>2
  <2>3. CASE k > 2
    <3>1. k - 2 \in 1 .. Len(p.data) /\ k <= 2 + Len(p.data) /\ k \in Nat
      BY <1>1, <1>3, <2>3
    <3>2. Wire(p)[k] = p.data[k - 2]
      BY <1>3, <2>3, <3>1
    <3> QED BY <1>4, <3>1, <3>2
  <2> QED BY <1>3, <1>1, <2>1, <2>2, <2>3
<1> QED BY <1>3, <1>5, <1>6, <1>7

LEMMA KnownPacket ==
  ASSUME NEW p \in Requests \cup Replies
  PROVE  p \in Packets /\ Len(p.data) \in Bytes /\ Len(p.data) \in Nat
BY PacketAssumption, ByteAssumption

LEMMA SequenceOf ==
  ASSUME NEW S, NEW n \in Nat, NEW f, f = [i \in 1 .. n |-> f[i]], \A i \in 1 .. n : f[i] \in S
  PROVE  f \in Seq(S)
OBVIOUS

(* Two packets with the same op and the same data, byte by byte.           *)
LEMMA SamePacket ==
  ASSUME NEW p \in Packets, NEW op, NEW d \in Seq(Bytes),
         op = p.op, Len(d) = Len(p.data), \A k \in 1 .. Len(d) : d[k] = p.data[k]
  PROVE  [op |-> op, data |-> d] = p
<1>1. d = p.data
  BY SeqEqual DEF Packets
<1> QED BY <1>1 DEF Packets

(* What a MessagePacket stands for, if its data agrees with a packet's.    *)
LEMMA SameMessage ==
  ASSUME NEW p \in Packets, NEW m, m.op = p.op, m.length = Len(p.data),
         \A k \in 0 .. m.length - 1 : m.data[k] = p.data[k + 1]
  PROVE  PacketOf(m) = p
<1> DEFINE d == [i \in 1 .. m.length |-> m.data[i - 1]]
<1>1. p.data \in Seq(Bytes) /\ Len(p.data) \in Nat
  BY DEF Packets
<1>2. \A k \in 1 .. m.length : d[k] = p.data[k] /\ p.data[k] \in Bytes
  <2> SUFFICES ASSUME NEW k \in 1 .. m.length PROVE d[k] = p.data[k] /\ p.data[k] \in Bytes
    OBVIOUS
  <2>1. k - 1 \in 0 .. m.length - 1 /\ (k - 1) + 1 = k
    BY <1>1
  <2> QED BY <1>1, <2>1
<1>3. d \in Seq(Bytes) /\ Len(d) = Len(p.data)
  BY <1>1, <1>2, IsASeq, LenProperties
<1> HIDE DEF d
<1>4. [op |-> m.op, data |-> d] = p
  BY <1>2, <1>3, SamePacket
<1> QED BY <1>4 DEF PacketOf, d

-----------------------------------------------------------------------------
(* Bytes under way.  A position is the number of a packet and a place in   *)
(* it.  Carries says that a FIFO holds the bytes from one position up to   *)
(* another, and none but those.                                            *)
Pos(l) == <<l.of, l.at>>
After(sent, l) == IF l.at = Len(Wire(sent[l.of])) THEN <<l.of + 1, 1>> ELSE <<l.of, l.at + 1>>
IsByteOf(sent, l) == /\ l.of \in 1 .. Len(sent) /\ l.at \in 1 .. Len(Wire(sent[l.of]))
                     /\ l.byte = Wire(sent[l.of])[l.at]

Carries(q, sent, from, upto) ==
  /\ \A i \in 1 .. Len(q) : IsByteOf(sent, q[i])
  /\ \A i \in 1 .. Len(q) - 1 : Pos(q[i + 1]) = After(sent, q[i])
  /\ IF q = << >> THEN from = upto ELSE Pos(q[1]) = from /\ After(sent, q[Len(q)]) = upto

LEMMA CarriesAppend ==
  ASSUME NEW q \in Seq(Labels), NEW sent, NEW from, NEW upto, NEW l \in Labels,
         Carries(q, sent, from, upto), IsByteOf(sent, l), Pos(l) = upto
  PROVE  Carries(Append(q, l), sent, from, After(sent, l))
<1> DEFINE r == Append(q, l)
<1>1. /\ r \in Seq(Labels) /\ Len(r) = Len(q) + 1 /\ r # << >> /\ Len(q) \in Nat
      /\ \A i \in 1 .. Len(q) : r[i] = q[i]
      /\ r[Len(r)] = l
  BY AppendProperties
<1>2. q # << >> => Len(q) > 0
  BY EmptySeq
<1> HIDE DEF r
<1>3. \A i \in 1 .. Len(r) : IsByteOf(sent, r[i])
  <2> SUFFICES ASSUME NEW i \in 1 .. Len(r) PROVE IsByteOf(sent, r[i])
    OBVIOUS
  <2>1. CASE i = Len(r)
    BY <1>1, <2>1
  <2>2. CASE i # Len(r)
    BY <1>1, <2>2 DEF Carries
  <2> QED BY <2>1, <2>2
<1>4. ASSUME NEW i \in 1 .. Len(r) - 1 PROVE Pos(r[i + 1]) = After(sent, r[i])
  <2>1. i \in 1 .. Len(q) /\ r[i] = q[i]
    BY <1>1
  <2>2. CASE i = Len(q)
    <3>1. q # << >> /\ r[i + 1] = l
      BY <1>1, <2>1, <2>2
    <3> QED BY <2>1, <2>2, <3>1 DEF Carries
  <2>3. CASE i # Len(q)
    <3>1. i + 1 \in 1 .. Len(q) /\ i \in 1 .. Len(q) - 1
      BY <1>1, <2>1, <2>3
    <3>2. r[i + 1] = q[i + 1]
      BY <1>1, <3>1
    <3> QED BY <2>1, <3>1, <3>2 DEF Carries
  <2> QED BY <2>2, <2>3
<1>5. Pos(r[1]) = from
  <2>1. CASE q = << >>
    <3>1. r[1] = l
      BY <1>1, <2>1
    <3> QED BY <2>1, <3>1 DEF Carries
  <2>2. CASE q # << >>
    <3>1. r[1] = q[1]
      BY <1>1, <1>2, <2>2
    <3> QED BY <2>2, <3>1 DEF Carries
  <2> QED BY <2>1, <2>2
<1>6. After(sent, r[Len(r)]) = After(sent, l)
  BY <1>1
<1>7. Carries(r, sent, from, After(sent, l))
  BY <1>1, <1>3, <1>4, <1>5, <1>6 DEF Carries
<1> QED BY <1>7 DEF r

LEMMA CarriesTail ==
  ASSUME NEW q \in Seq(Labels), NEW sent, NEW from, NEW upto, q # << >>,
         Carries(q, sent, from, upto)
  PROVE  /\ IsByteOf(sent, Head(q)) /\ Pos(Head(q)) = from
         /\ Carries(Tail(q), sent, After(sent, Head(q)), upto)
<1> DEFINE r == Tail(q)
<1>1. /\ r \in Seq(Labels) /\ Len(r) = Len(q) - 1 /\ Len(q) \in Nat /\ Len(q) > 0
      /\ \A i \in 1 .. Len(r) : r[i] = q[i + 1]
      /\ Head(q) = q[1]
  BY HeadTailProperties, EmptySeq, LenProperties
<1>2. r = << >> <=> Len(q) = 1
  BY <1>1, EmptySeq
<1> HIDE DEF r
<1>3. IsByteOf(sent, Head(q)) /\ Pos(Head(q)) = from
  BY <1>1 DEF Carries
<1>4. \A i \in 1 .. Len(r) : IsByteOf(sent, r[i])
  BY <1>1 DEF Carries
<1>5. ASSUME NEW i \in 1 .. Len(r) - 1 PROVE Pos(r[i + 1]) = After(sent, r[i])
  <2>1. i + 1 \in 1 .. Len(q) - 1 /\ i + 1 \in 1 .. Len(r) /\ i \in 1 .. Len(r)
    BY <1>1
  <2>2. r[i] = q[i + 1] /\ r[i + 1] = q[(i + 1) + 1]
    BY <1>1, <2>1
  <2> QED BY <2>1, <2>2 DEF Carries
<1>6. CASE r = << >>
  <2>1. After(sent, Head(q)) = upto
    BY <1>1, <1>2, <1>6 DEF Carries
  <2>2. Carries(r, sent, After(sent, Head(q)), upto)
    BY <1>4, <1>5, <1>6, <2>1 DEF Carries
  <2> QED BY <1>3, <2>2 DEF r
<1>7. CASE r # << >>
  <2>1. Len(q) > 1 /\ 1 \in 1 .. Len(r) /\ 1 \in 1 .. Len(q) - 1 /\ Len(r) \in 1 .. Len(r)
    BY <1>1, <1>2, <1>7
  <2>2. r[1] = q[2] /\ r[Len(r)] = q[Len(q)]
    BY <1>1, <2>1
  <2>3. Pos(r[1]) = After(sent, Head(q))
    <3>1. Pos(q[1 + 1]) = After(sent, q[1])
      BY <2>1 DEF Carries
    <3> QED BY <1>1, <2>2, <3>1
  <2>4. After(sent, r[Len(r)]) = upto
    BY <2>2 DEF Carries
  <2>5. Carries(r, sent, After(sent, Head(q)), upto)
    BY <1>4, <1>5, <1>7, <2>3, <2>4 DEF Carries
  <2> QED BY <1>3, <2>5 DEF r
<1> QED BY <1>6, <1>7

LEMMA CarriesMore ==
  ASSUME NEW S, NEW q \in Seq(Labels), NEW sent \in Seq(S), NEW p \in S, NEW from, NEW upto,
         Carries(q, sent, from, upto)
  PROVE  Carries(q, Append(sent, p), from, upto)
<1>1. /\ Len(Append(sent, p)) = Len(sent) + 1 /\ Len(sent) \in Nat
      /\ \A i \in 1 .. Len(sent) : Append(sent, p)[i] = sent[i]
  BY AppendProperties
<1>2. ASSUME NEW i \in 1 .. Len(q)
      PROVE  IsByteOf(Append(sent, p), q[i]) /\ After(Append(sent, p), q[i]) = After(sent, q[i])
  <2>1. IsByteOf(sent, q[i])
    BY <1>2 DEF Carries
  <2>2. /\ q[i].of \in 1 .. Len(Append(sent, p))
        /\ Append(sent, p)[q[i].of] = sent[q[i].of]
    BY <1>1, <2>1 DEF IsByteOf
  <2> QED BY <2>1, <2>2 DEF IsByteOf, After
<1>3. q # << >> => Len(q) \in 1 .. Len(q)
  BY EmptySeq, LenProperties
<1>4. \A i \in 1 .. Len(q) - 1 : i \in 1 .. Len(q)
  BY LenProperties
<1> DEFINE more == Append(sent, p)
<1> HIDE DEF more
<1>5. \A i \in 1 .. Len(q) : IsByteOf(more, q[i]) /\ After(more, q[i]) = After(sent, q[i])
  BY <1>2 DEF more
<1>6. \A i \in 1 .. Len(q) : IsByteOf(more, q[i])
  BY <1>5
<1>7. ASSUME NEW i \in 1 .. Len(q) - 1 PROVE Pos(q[i + 1]) = After(more, q[i])
  BY <1>4, <1>5 DEF Carries
<1>8. IF q = << >> THEN from = upto ELSE Pos(q[1]) = from /\ After(more, q[Len(q)]) = upto
  BY <1>3, <1>5 DEF Carries
<1>9. Carries(q, more, from, upto)
  BY <1>6, <1>7, <1>8 DEF Carries
<1> QED BY <1>9 DEF more

-----------------------------------------------------------------------------
(* The invariant.  Requests: the host is somewhere in its last packet, and *)
(* while all of them fit, inChar carries the bytes from the place          *)
(* getCommand has reached up to the place the host has reached; what       *)
(* getCommand has built so far is the beginning of that packet.            *)
AskingOk == IF asked = << >> THEN asking = 0 ELSE asking \in 1 .. Len(Wire(current))

AskedUpto == IF Boundary THEN <<Len(asked) + 1, 1>> ELSE <<Len(asked), asking + 1>>
GetOf     == Len(taken) + Len(commands) + 1
GetAt     == IF commandState = "Type" THEN 1
             ELSE IF commandState = "Length" THEN 2 ELSE commandCount + 3

Building ==
  commandState # "Type" =>
    /\ GetOf <= Len(asked) /\ command.op = asked[GetOf].op
    /\ commandState = "Data" =>
         /\ command.length = Len(asked[GetOf].data)
         /\ \A k \in 0 .. commandCount - 1 : command.data[k] = asked[GetOf].data[k + 1]

Built ==
  commands # << >> => /\ Len(taken) + 1 <= Len(asked)
                      /\ PacketOf(commands[1]) = asked[Len(taken) + 1]

(* Also of packets that do not fit only bytes that were read are used.     *)
CommandWritten ==
  /\ commandState # "Type" => command.op \in Bytes
  /\ commandState = "Data" => \A k \in 0 .. commandCount - 1 : command.data[k] \in Bytes
  /\ commands # << >> =>
       /\ commands[1].op \in Bytes
       /\ \A k \in 0 .. commands[1].length - 1 : commands[1].data[k] \in Bytes

RequestsInv ==
  Fits => /\ Carries(inChar, asked, <<GetOf, GetAt>>, AskedUpto)
          /\ Building /\ Built /\ RequestsArrive

(* Replies: responses holds the reply put last, deliverResponse is         *)
(* somewhere in it, outChar carries the bytes from the place the host has  *)
(* reached up to there.                                                    *)
Delivering ==
  /\ responses = << >> => responseState = "Type"
  /\ responses # << >> => replied # << >> /\ responses[1] = Message(replied[Len(replied)])
  /\ responseState = "Data" => responseCount < Len(replied[Len(replied)].data)

DeliverAt == IF responseState = "Type" THEN 1
             ELSE IF responseState = "Length" THEN 2 ELSE responseCount + 3
DeliveredUpto == IF responses = << >> THEN <<Len(replied) + 1, 1>>
                 ELSE <<Len(replied), DeliverAt>>

Hearing ==
  /\ \A k \in 1 .. Len(hearing) : /\ Len(heard) < Len(replied)
                                  /\ k < Len(Wire(replied[Len(heard) + 1]))
                                  /\ hearing[k] = Wire(replied[Len(heard) + 1])[k]
  /\ RepliesArrive

RepliesInv ==
  /\ Carries(outChar, replied, <<Len(heard) + 1, Len(hearing) + 1>>, DeliveredUpto)
  /\ Hearing

InputInv   == InputTypes /\ AskingOk /\ CommandWritten /\ RequestsInv
OutputInv  == OutputTypes /\ Delivering /\ RepliesInv
ConvertInv == InputInv /\ OutputInv

LEMMA InputSame == ASSUME InputInv, UNCHANGED input PROVE InputInv'
BY DEF InputInv, InputTypes, AskingOk, CommandWritten, RequestsInv, Fits, AskedUpto, Boundary,
       current, GetOf, GetAt, Building, Built, RequestsArrive, Carries, IsByteOf, After, input

LEMMA OutputSame == ASSUME OutputInv, UNCHANGED output PROVE OutputInv'
BY DEF OutputInv, OutputTypes, Delivering, RepliesInv, DeliveredUpto, DeliverAt, Hearing,
       RepliesArrive, Carries, IsByteOf, After, output

LEMMA InvInit == Init => ConvertInv
<1> SUFFICES ASSUME Init PROVE ConvertInv
  OBVIOUS
<1>1. \A S : << >> \in Seq(S) /\ Len(<< >>) = 0
  BY EmptySeq
<1>2. EmptyData \in Data /\ MaxLength \in Nat
  BY DepthAssumption DEF EmptyData, Data
<1>3. InputTypes /\ OutputTypes
  BY <1>1, <1>2, DepthAssumption DEF Init, InputTypes, OutputTypes, States, Messages
<1>4. RequestsArrive /\ RepliesArrive
  BY <1>1 DEF Init, RequestsArrive, RepliesArrive
<1>5. RequestsInv /\ AskingOk
  BY <1>1, <1>4 DEF Init, RequestsInv, AskingOk, Carries, AskedUpto, Boundary, GetOf, GetAt,
                    Building, Built
<1>6. Delivering /\ RepliesInv
  BY <1>1, <1>4 DEF Init, Delivering, RepliesInv, Carries, DeliveredUpto, Hearing
<1>7. CommandWritten
  BY DEF Init, CommandWritten
<1> QED BY <1>3, <1>5, <1>6, <1>7 DEF ConvertInv, InputInv, OutputInv

-----------------------------------------------------------------------------
(* What the input invariant says of the packets.                           *)
LEMMA AskedPackets ==
  ASSUME InputTypes, NEW i \in 1 .. Len(asked)
  PROVE  /\ asked[i] \in Requests /\ asked[i] \in Packets
         /\ Len(asked[i].data) \in Bytes /\ Len(asked[i].data) \in Nat
         /\ Len(Wire(asked[i])) = 2 + Len(asked[i].data)
         /\ Wire(asked[i])[1] = asked[i].op /\ Wire(asked[i])[2] = Len(asked[i].data)
         /\ \A k \in 1 .. Len(asked[i].data) : Wire(asked[i])[k + 2] = asked[i].data[k]
         /\ \A k \in 1 .. Len(Wire(asked[i])) : Wire(asked[i])[k] \in Bytes
<1>1. asked[i] \in Requests
  BY DEF InputTypes
<1>2. asked[i] \in Packets /\ Len(asked[i].data) \in Bytes /\ Len(asked[i].data) \in Nat
  BY <1>1, KnownPacket
<1> QED BY <1>1, <1>2, WireBytes

LEMMA SendStart ==
  ASSUME InputInv, Boundary, Len(inChar) < InDepth, NEW p \in Requests,
         asked' = Append(asked, p), asking' = 1,
         inChar' = Append(inChar, Labelled(p.op, Len(asked) + 1, 1)),
         UNCHANGED <<commandState, commandCount, command, commands, taken>>
  PROVE  InputInv'
<1> DEFINE n == Len(asked) + 1
           l == Labelled(p.op, n, 1)
<1>1. InputTypes /\ asked \in Seq(Requests) /\ inChar \in Seq(Labels)
  BY DEF InputInv, InputTypes
<1>2. /\ asked' \in Seq(Requests) /\ Len(asked') = n /\ asked'[n] = p /\ n \in Nat /\ n > 0
      /\ asked' # << >>
      /\ \A i \in 1 .. Len(asked) : asked'[i] = asked[i]
  BY <1>1, AppendProperties, LenProperties
<1>3. p \in Packets /\ p.op \in Bytes /\ Len(p.data) \in Nat
  BY KnownPacket DEF Packets
<1>4. l \in Labels
  BY <1>2, <1>3 DEF Labels, Labelled
<1>5. inChar' \in Seq(Labels) /\ Len(inChar') = Len(inChar) + 1
  BY <1>1, <1>4, AppendProperties
<1>6. InputTypes'
  BY <1>1, <1>2, <1>5, DepthAssumption, LenProperties DEF InputTypes
<1>7. AskingOk'
  BY <1>2, <1>3, WireBytes DEF AskingOk, current
<1>8. ASSUME Fits' PROVE Fits
  BY <1>2, <1>8 DEF Fits
<1>9. ASSUME Fits'
      PROVE  Carries(inChar', asked', <<GetOf, GetAt>>', AskedUpto')
  <2>1. Carries(inChar, asked, <<GetOf, GetAt>>, <<n, 1>>)
    BY <1>8, <1>9 DEF InputInv, RequestsInv, AskedUpto
  <2>2. Carries(inChar, asked', <<GetOf, GetAt>>, <<n, 1>>)
    BY <1>1, <2>1, CarriesMore
  <2>3. IsByteOf(asked', l) /\ Pos(l) = <<n, 1>>
    BY <1>2, <1>3, WireBytes DEF IsByteOf, Labelled, Pos
  <2>4. Carries(inChar', asked', <<GetOf, GetAt>>, After(asked', l))
    BY <1>1, <1>4, <2>2, <2>3, CarriesAppend
  <2>5. After(asked', l) = <<n, 2>>
    BY <1>2, <1>3, WireBytes DEF After, Labelled
  <2>6. AskedUpto' = <<n, 2>>
    <3>1. Len(Wire(p)) = 2 + Len(p.data)
      BY <1>3, WireBytes
    <3>2. current' = p /\ asking' = 1 /\ 1 # Len(Wire(p))
      BY <1>2, <1>3, <3>1 DEF current
    <3>3. ~Boundary'
      BY <1>2, <3>2 DEF Boundary
    <3> QED BY <1>2, <3>2, <3>3 DEF AskedUpto
  <2>7. <<GetOf, GetAt>>' = <<GetOf, GetAt>>
    BY DEF GetOf, GetAt
  <2> QED BY <2>4, <2>5, <2>6, <2>7
<1>10. ASSUME Fits' PROVE (Building /\ Built /\ RequestsArrive)'
  <2>1. Building /\ Built /\ RequestsArrive
    BY <1>8, <1>10 DEF InputInv, RequestsInv
  <2>2. Len(taken) \in Nat /\ Len(commands) \in Nat
    BY <1>1, LenProperties DEF InputTypes
  <2>3. Building'
    BY <1>2, <2>1, <2>2 DEF Building, GetOf
  <2>4. Built'
    BY <1>2, <2>1, <2>2 DEF Built
  <2>5. RequestsArrive'
    BY <1>2, <1>8, <1>10, <2>1, <2>2 DEF RequestsArrive
  <2> QED BY <2>3, <2>4, <2>5
<1>11. CommandWritten'
  BY DEF InputInv, CommandWritten
<1> QED BY <1>6, <1>7, <1>9, <1>10, <1>11 DEF InputInv, RequestsInv

LEMMA SendOn ==
  ASSUME InputInv, ~Boundary, asking' = asking + 1,
         inChar' = Append(inChar, Labelled(Wire(current)[asking + 1], Len(asked), asking + 1)),
         Len(inChar) < InDepth,
         UNCHANGED <<asked, commandState, commandCount, command, commands, taken>>
  PROVE  InputInv'
<1> DEFINE n == Len(asked)
           l == Labelled(Wire(current)[asking + 1], n, asking + 1)
<1>1. InputTypes /\ asked \in Seq(Requests) /\ inChar \in Seq(Labels) /\ asking \in Nat
  BY DEF InputInv, InputTypes
<1>2. asked # << >> /\ n \in 1 .. Len(asked) /\ current = asked[n]
  BY <1>1, EmptySeq, LenProperties DEF Boundary, current
<1>3. asking \in 1 .. Len(Wire(current)) /\ asking # Len(Wire(current))
      /\ Len(Wire(current)) \in Nat
  BY <1>2, <1>1, AskedPackets DEF InputInv, AskingOk, Boundary
<1>4. asking + 1 \in 1 .. Len(Wire(current)) /\ asking + 1 \in Nat \ {0} /\ n \in Nat \ {0}
  BY <1>2, <1>3
<1>5. Wire(current)[asking + 1] \in Bytes
  BY <1>1, <1>2, <1>4, AskedPackets
<1>6. l \in Labels
  BY <1>4, <1>5 DEF Labels, Labelled
<1>7. inChar' \in Seq(Labels) /\ Len(inChar') = Len(inChar) + 1
  BY <1>1, <1>6, AppendProperties
<1>8. InputTypes'
  BY <1>1, <1>4, <1>7, DepthAssumption, LenProperties DEF InputTypes
<1>9. AskingOk' /\ current' = current
  BY <1>2, <1>4 DEF AskingOk, current
<1>10. Fits' <=> Fits
  BY DEF Fits
<1>11. ASSUME Fits
       PROVE  Carries(inChar', asked', <<GetOf, GetAt>>', AskedUpto')
  <2>1. Carries(inChar, asked, <<GetOf, GetAt>>, <<n, asking + 1>>)
    BY <1>11 DEF InputInv, RequestsInv, AskedUpto
  <2>2. IsByteOf(asked, l) /\ Pos(l) = <<n, asking + 1>>
    BY <1>2, <1>4 DEF IsByteOf, Labelled, Pos
  <2>3. Carries(inChar', asked, <<GetOf, GetAt>>, After(asked, l))
    BY <1>1, <1>6, <2>1, <2>2, CarriesAppend
  <2>4. After(asked, l) = AskedUpto'
    BY <1>2, <1>4, <1>9 DEF After, Labelled, AskedUpto, Boundary
  <2>5. <<GetOf, GetAt>>' = <<GetOf, GetAt>>
    BY DEF GetOf, GetAt
  <2> QED BY <2>3, <2>4, <2>5
<1>12. ASSUME Fits PROVE (Building /\ Built /\ RequestsArrive)'
  BY <1>12 DEF InputInv, RequestsInv, Building, Built, RequestsArrive, Fits, GetOf
<1>13. CommandWritten'
  BY DEF InputInv, CommandWritten
<1> QED BY <1>8, <1>9, <1>10, <1>11, <1>12, <1>13 DEF InputInv, RequestsInv

(* The byte getCommand reads is the one of the packet it is building that  *)
(* it expects.                                                             *)
LEMMA NextByte ==
  ASSUME InputInv, Fits, inChar # << >>
  PROVE  /\ GetOf \in 1 .. Len(asked) /\ GetAt \in 1 .. Len(Wire(asked[GetOf]))
         /\ char = Wire(asked[GetOf])[GetAt]
         /\ Len(asked[GetOf].data) <= MaxLength
         /\ Carries(Tail(inChar), asked,
                    IF GetAt = Len(Wire(asked[GetOf])) THEN <<GetOf + 1, 1>>
                                                       ELSE <<GetOf, GetAt + 1>>, AskedUpto)
<1>1. inChar \in Seq(Labels) /\ Carries(inChar, asked, <<GetOf, GetAt>>, AskedUpto)
  BY DEF InputInv, InputTypes, RequestsInv
<1> DEFINE l == Head(inChar)
<1>2. /\ IsByteOf(asked, l) /\ Pos(l) = <<GetOf, GetAt>>
      /\ Carries(Tail(inChar), asked, After(asked, l), AskedUpto)
  BY <1>1, CarriesTail
<1>3. l.of = GetOf /\ l.at = GetAt
  BY <1>2 DEF Pos
<1> QED BY <1>2, <1>3 DEF IsByteOf, After, char, Fits

LEMMA ByteRead ==
  ASSUME InputTypes, inChar # << >>
  PROVE  Tail(inChar) \in Seq(Labels) /\ Len(Tail(inChar)) <= InDepth /\ char \in Bytes
<1>1. inChar \in Seq(Labels) /\ Len(inChar) <= InDepth
  BY DEF InputTypes
<1>2. Head(inChar) \in Labels /\ Tail(inChar) \in Seq(Labels)
      /\ Len(Tail(inChar)) = Len(inChar) - 1 /\ Len(inChar) \in Nat
  BY <1>1, HeadTailProperties, LenProperties
<1> QED BY <1>1, <1>2, DepthAssumption DEF char, Labels

LEMMA GetTypeStep ==
  ASSUME InputInv, CanGet, inChar' = Tail(inChar), GetType, UNCHANGED <<asked, asking, taken>>
  PROVE  InputInv'
<1>1. InputTypes /\ inChar # << >> /\ commands = << >> /\ inChar \in Seq(Labels)
  BY DEF InputInv, InputTypes, CanGet
<1>2. inChar' \in Seq(Labels) /\ Len(inChar') <= InDepth /\ char \in Bytes
  BY <1>1, ByteRead
<1>3. EmptyData \in Data
  BY DEF EmptyData, Data
<1>4. command' \in Messages
  BY <1>2, <1>3, DepthAssumption DEF GetType, Messages
<1>5. InputTypes'
  BY <1>1, <1>2, <1>4 DEF InputTypes, GetType, States
<1>6. AskingOk' /\ (Fits' <=> Fits) /\ AskedUpto' = AskedUpto /\ GetOf' = GetOf
      /\ GetOf \in Nat /\ GetAt = 1 /\ GetAt' = 2
  BY <1>1, LenProperties DEF InputInv, InputTypes, AskingOk, current, Fits, AskedUpto, Boundary,
     GetOf, GetAt, GetType
<1>7. ASSUME Fits PROVE RequestsInv'
  <2>1. /\ GetOf \in 1 .. Len(asked)
        /\ char = Wire(asked[GetOf])[1]
        /\ Carries(Tail(inChar), asked,
                    IF 1 = Len(Wire(asked[GetOf])) THEN <<GetOf + 1, 1>>
                                                   ELSE <<GetOf, 1 + 1>>, AskedUpto)
    BY <1>1, <1>6, <1>7, NextByte
  <2>2. Len(Wire(asked[GetOf])) # 1 /\ char = asked[GetOf].op
    <3>1. GetOf \in 1 .. Len(asked)
      BY <2>1
    <3>2. /\ Len(Wire(asked[GetOf])) = 2 + Len(asked[GetOf].data)
          /\ Len(asked[GetOf].data) \in Nat /\ Wire(asked[GetOf])[1] = asked[GetOf].op
      BY <1>1, <3>1, AskedPackets
    <3>3. Len(Wire(asked[GetOf])) # 1
      BY <3>2
    <3> QED BY <2>1, <3>2, <3>3
  <2>3. Carries(inChar', asked', <<GetOf, GetAt>>', AskedUpto')
    BY <1>6, <2>1, <2>2
  <2>4. Building'
    BY <1>6, <2>1, <2>2 DEF Building, GetType
  <2>5. Built' /\ RequestsArrive'
    BY <1>1, <1>7 DEF InputInv, RequestsInv, Built, RequestsArrive, GetType, Fits
  <2> QED BY <2>3, <2>4, <2>5 DEF RequestsInv
<1>8. ASSUME ~Fits PROVE RequestsInv'
  BY <1>6, <1>8 DEF RequestsInv
<1>9. CommandWritten'
  BY <1>1, <1>2 DEF CommandWritten, GetType
<1> QED BY <1>5, <1>6, <1>7, <1>8, <1>9 DEF InputInv

LEMMA GetLengthStep ==
  ASSUME InputInv, CanGet, inChar' = Tail(inChar), GetLength, UNCHANGED <<asked, asking, taken>>
  PROVE  InputInv'
<1>1. InputTypes /\ inChar # << >> /\ commands = << >> /\ commandState = "Length"
  BY DEF InputInv, CanGet, GetLength
<1>2. inChar' \in Seq(Labels) /\ Len(inChar') <= InDepth /\ char \in Bytes /\ char \in Nat
  BY <1>1, ByteRead, ByteAssumption
<1>3. command \in Messages /\ MaxLength \in Nat /\ MaxLength > 0 /\ Len(taken) \in Nat
  BY <1>1, DepthAssumption, LenProperties DEF InputTypes
<1>4. AskingOk' /\ (Fits' <=> Fits) /\ AskedUpto' = AskedUpto
      /\ GetOf = Len(taken) + 1 /\ GetAt = 2 /\ (RequestsArrive => RequestsArrive')
  BY <1>1, <1>3, EmptySeq DEF InputInv, AskingOk, current, Fits, AskedUpto, Boundary, GetOf,
     GetAt, RequestsArrive
<1>5. ASSUME Fits
      PROVE  /\ GetOf \in 1 .. Len(asked) /\ asked[GetOf] \in Packets
             /\ char = Len(asked[GetOf].data) /\ char <= MaxLength
             /\ Carries(inChar', asked', IF char = 0 THEN <<GetOf + 1, 1>>
                                                     ELSE <<GetOf, 3>>, AskedUpto')
             /\ command.op = asked[GetOf].op /\ RequestsArrive
  <2>1. /\ GetOf \in 1 .. Len(asked)
        /\ char = Wire(asked[GetOf])[2] /\ Len(asked[GetOf].data) <= MaxLength
        /\ Carries(Tail(inChar), asked,
                    IF 2 = Len(Wire(asked[GetOf])) THEN <<GetOf + 1, 1>>
                                                   ELSE <<GetOf, 2 + 1>>, AskedUpto)
    BY <1>1, <1>4, <1>5, NextByte
  <2>2. /\ char = Len(asked[GetOf].data) /\ Len(Wire(asked[GetOf])) = 2 + char
        /\ asked[GetOf] \in Packets
    BY <1>1, <2>1, AskedPackets
  <2>3. Building /\ RequestsArrive
    BY <1>5 DEF InputInv, RequestsInv
  <2> QED BY <1>1, <1>2, <1>4, <2>1, <2>2, <2>3 DEF Building
<1>6. CASE LengthOk(char)
  <2>1. /\ command' = [command EXCEPT !.length = char] /\ commandState' = "Data"
        /\ commandCount' = 0 /\ commands' = << >> /\ char # 0 /\ char <= MaxLength
    BY <1>1, <1>6 DEF GetLength, LengthOk
  <2>2. command' \in Messages /\ command'.length = char /\ command'.op = command.op
    BY <1>2, <1>3, <2>1 DEF Messages
  <2>3. InputTypes'
    BY <1>1, <1>2, <1>3, <2>1, <2>2 DEF InputTypes, States
  <2>4. GetOf' = GetOf /\ GetAt' = 3
    BY <1>1, <2>1 DEF GetOf, GetAt
  <2>5. ASSUME Fits PROVE RequestsInv'
    BY <1>4, <1>5, <2>1, <2>2, <2>4, <2>5 DEF RequestsInv, Building, Built
  <2>6. CommandWritten'
    BY <1>1, <2>1, <2>2 DEF InputInv, CommandWritten
  <2> QED BY <1>4, <2>3, <2>5, <2>6 DEF InputInv, RequestsInv
<1>7. CASE ~LengthOk(char)
  <2>1. /\ command' = [command EXCEPT !.length = 0] /\ commandState' = "Type"
        /\ commands' = <<command'>> /\ commandCount' = commandCount
    BY <1>1, <1>7 DEF GetLength
  <2>2. command' \in Messages /\ command'.length = 0 /\ command'.op = command.op
    BY <1>3, <2>1 DEF Messages
  <2>3. commands' \in Seq(Messages) /\ Len(commands') = 1 /\ commands'[1] = command'
    BY <2>1, <2>2
  <2>4. InputTypes'
    BY <1>1, <1>2, <1>3, <2>1, <2>2, <2>3 DEF InputTypes, States
  <2>5. GetOf' = GetOf + 1 /\ GetAt' = 1
    BY <1>3, <1>4, <2>1, <2>3 DEF GetOf, GetAt
  <2>6. ASSUME Fits PROVE RequestsInv'
    <3>1. char = 0
      BY <1>2, <1>5, <1>7, <2>6 DEF LengthOk
    <3>2. PacketOf(command') = asked[GetOf]
      BY <1>5, <2>2, <2>6, <3>1, SameMessage
    <3>3. Built'
      BY <1>4, <1>5, <2>3, <2>6, <3>2 DEF Built
    <3> QED BY <1>4, <1>5, <2>1, <2>5, <2>6, <3>1, <3>3 DEF RequestsInv, Building
  <2>7. CommandWritten'
    <3>1. commands'[1].op \in Bytes /\ commands'[1].length = 0
      BY <1>1, <2>2, <2>3 DEF InputInv, CommandWritten
    <3> QED BY <2>1, <3>1 DEF CommandWritten
  <2> QED BY <1>4, <2>4, <2>6, <2>7 DEF InputInv, RequestsInv
<1> QED BY <1>6, <1>7

LEMMA GetDataStep ==
  ASSUME InputInv, CanGet, inChar' = Tail(inChar), GetData, UNCHANGED <<asked, asking, taken>>
  PROVE  InputInv'
<1>1. InputTypes /\ inChar # << >> /\ commands = << >> /\ commandState = "Data"
  BY DEF InputInv, CanGet, GetData
<1>2. inChar' \in Seq(Labels) /\ Len(inChar') <= InDepth /\ char \in Bytes
  BY <1>1, ByteRead
<1>3. /\ command \in Messages /\ MaxLength \in Nat /\ Len(taken) \in Nat
      /\ command.length \in 0 .. MaxLength /\ command.data \in Data
      /\ commandCount \in 0 .. command.length - 1
  BY <1>1, DepthAssumption, LenProperties DEF InputTypes, Messages
<1>4. AskingOk' /\ (Fits' <=> Fits) /\ AskedUpto' = AskedUpto
      /\ GetOf = Len(taken) + 1 /\ GetAt = commandCount + 3
      /\ (RequestsArrive => RequestsArrive')
  BY <1>1, <1>3, EmptySeq DEF InputInv, AskingOk, current, Fits, AskedUpto, Boundary, GetOf,
     GetAt, RequestsArrive
<1>5. /\ command' = [command EXCEPT !.data = [command.data EXCEPT ![commandCount] = char]]
      /\ commandCount' = commandCount + 1
  BY DEF GetData
<1>6. /\ command' \in Messages /\ command'.length = command.length /\ command'.op = command.op
      /\ command'.data[commandCount] = char
      /\ \A k \in 0 .. commandCount - 1 : command'.data[k] = command.data[k]
  <2> DEFINE d == [command.data EXCEPT ![commandCount] = char]
  <2>1. commandCount \in Slots /\ \A k \in 0 .. commandCount - 1 : k \in Slots /\ k # commandCount
    BY <1>3 DEF Slots
  <2>2. /\ d \in Data /\ d[commandCount] = char
        /\ \A k \in 0 .. commandCount - 1 : d[k] = command.data[k]
    BY <1>2, <1>3, <2>1 DEF Data
  <2> HIDE DEF d
  <2>3. command' = [command EXCEPT !.data = d]
    BY <1>5 DEF d
  <2> QED BY <1>3, <2>2, <2>3 DEF Messages
<1>7. ASSUME Fits
      PROVE  /\ GetOf \in 1 .. Len(asked) /\ asked[GetOf] \in Packets
             /\ command.op = asked[GetOf].op /\ command.length = Len(asked[GetOf].data)
             /\ \A k \in 0 .. commandCount : command'.data[k] = asked[GetOf].data[k + 1]
             /\ Carries(inChar', asked',
                        IF commandCount = command.length - 1 THEN <<GetOf + 1, 1>>
                                      ELSE <<GetOf, commandCount + 4>>, AskedUpto')
             /\ RequestsArrive
  <2>1. /\ GetOf \in 1 .. Len(asked)
        /\ char = Wire(asked[GetOf])[commandCount + 3]
        /\ Carries(Tail(inChar), asked,
                IF commandCount + 3 = Len(Wire(asked[GetOf])) THEN <<GetOf + 1, 1>>
                                      ELSE <<GetOf, (commandCount + 3) + 1>>, AskedUpto)
    BY <1>1, <1>4, <1>7, NextByte
  <2>2. Building /\ RequestsArrive
    BY <1>7 DEF InputInv, RequestsInv
  <2>3. /\ command.op = asked[GetOf].op /\ command.length = Len(asked[GetOf].data)
        /\ \A k \in 0 .. commandCount - 1 : command.data[k] = asked[GetOf].data[k + 1]
    BY <1>1, <2>2 DEF Building
  <2>4. /\ asked[GetOf] \in Packets /\ Len(Wire(asked[GetOf])) = 2 + command.length
        /\ \A k \in 1 .. command.length : Wire(asked[GetOf])[k + 2] = asked[GetOf].data[k]
    BY <1>1, <2>1, <2>3, AskedPackets
  <2>5. commandCount + 1 \in 1 .. command.length /\ (commandCount + 1) + 2 = commandCount + 3
    BY <1>3
  <2>6. char = asked[GetOf].data[commandCount + 1]
    BY <2>1, <2>4, <2>5
  <2>7. ASSUME NEW k \in 0 .. commandCount PROVE command'.data[k] = asked[GetOf].data[k + 1]
    <3>1. CASE k = commandCount
      BY <1>6, <2>6, <3>1
    <3>2. CASE k # commandCount
      <4>1. k \in 0 .. commandCount - 1
        BY <1>3, <3>2
      <4> QED BY <1>6, <2>3, <4>1
    <3> QED BY <3>1, <3>2
  <2>8. /\ commandCount + 3 = Len(Wire(asked[GetOf])) <=> commandCount = command.length - 1
        /\ (commandCount + 3) + 1 = commandCount + 4
    BY <1>3, <2>4
  <2>9. Carries(inChar', asked',
                IF commandCount = command.length - 1 THEN <<GetOf + 1, 1>>
                                      ELSE <<GetOf, commandCount + 4>>, AskedUpto')
    BY <1>4, <2>1, <2>8
  <2> QED BY <2>1, <2>2, <2>3, <2>4, <2>7, <2>9
<1>10. /\ command'.op \in Bytes
       /\ \A k \in 0 .. commandCount : command'.data[k] \in Bytes
  <2>1. command.op \in Bytes /\ \A k \in 0 .. commandCount - 1 : command.data[k] \in Bytes
    BY <1>1 DEF InputInv, CommandWritten
  <2>2. ASSUME NEW k \in 0 .. commandCount PROVE command'.data[k] \in Bytes
    <3>1. CASE k = commandCount
      BY <1>2, <1>6, <3>1
    <3>2. CASE k # commandCount
      <4>1. k \in 0 .. commandCount - 1
        BY <1>3, <3>2
      <4> QED BY <1>6, <2>1, <4>1
    <3> QED BY <3>1, <3>2
  <2> QED BY <1>6, <2>1, <2>2
<1>8. CASE commandCount >= command.length - 1
  <2>1. commandState' = "Type" /\ commands' = <<command'>> /\ commandCount = command.length - 1
    BY <1>3, <1>8 DEF GetData
  <2>2. commands' \in Seq(Messages) /\ Len(commands') = 1 /\ commands'[1] = command'
    BY <1>6, <2>1
  <2>3. InputTypes'
    BY <1>1, <1>2, <1>3, <1>5, <1>6, <2>1, <2>2 DEF InputTypes, States
  <2>4. GetOf' = GetOf + 1 /\ GetAt' = 1
    BY <1>3, <1>4, <2>1, <2>2 DEF GetOf, GetAt
  <2>5. ASSUME Fits PROVE RequestsInv'
    <3>1. PacketOf(command') = asked[GetOf]
      BY <1>6, <1>7, <2>1, <2>5, SameMessage
    <3>2. Built'
      BY <1>4, <1>7, <2>2, <2>5, <3>1 DEF Built
    <3> QED BY <1>4, <1>7, <2>1, <2>4, <2>5, <3>2 DEF RequestsInv, Building
  <2>6. CommandWritten'
    BY <1>3, <1>6, <1>10, <2>1, <2>2 DEF CommandWritten
  <2> QED BY <1>4, <2>3, <2>5, <2>6 DEF InputInv, RequestsInv
<1>9. CASE ~(commandCount >= command.length - 1)
  <2>1. commandState' = "Data" /\ commands' = << >> /\ commandCount + 1 < command.length
    BY <1>1, <1>3, <1>9 DEF GetData
  <2>2. InputTypes'
    BY <1>1, <1>2, <1>3, <1>5, <1>6, <2>1 DEF InputTypes, States
  <2>3. GetOf' = GetOf /\ GetAt' = commandCount + 4
    BY <1>1, <1>3, <1>5, <2>1 DEF GetOf, GetAt
  <2>4. ASSUME Fits PROVE RequestsInv'
    <3>1. commandCount' - 1 = commandCount
      BY <1>3, <1>5
    <3>2. Building'
      <4>1. GetOf <= Len(asked) /\ GetOf' = GetOf /\ asked' = asked
        BY <1>7, <2>3, <2>4
      <4>2. command'.op = asked[GetOf].op /\ command'.length = Len(asked[GetOf].data)
        BY <1>6, <1>7, <2>4
      <4>3. \A k \in 0 .. commandCount' - 1 : command'.data[k] = asked[GetOf].data[k + 1]
        BY <1>7, <2>4, <3>1
      <4> QED BY <4>1, <4>2, <4>3 DEF Building
    <3>3. Built'
      BY <2>1 DEF Built
    <3>4. Carries(inChar', asked', <<GetOf, GetAt>>', AskedUpto')
      BY <1>3, <1>7, <2>1, <2>3, <2>4
    <3> QED BY <1>4, <1>7, <2>4, <3>2, <3>3, <3>4 DEF RequestsInv
  <2>5. CommandWritten'
    <3>1. commandCount' - 1 = commandCount
      BY <1>3, <1>5
    <3> QED BY <1>10, <2>1, <3>1 DEF CommandWritten
  <2> QED BY <1>4, <2>2, <2>4, <2>5 DEF InputInv, RequestsInv
<1> QED BY <1>8, <1>9

LEMMA TakeStep ==
  ASSUME InputInv, Take
  PROVE  InputInv'
<1> DEFINE p == PacketOf(commands[1])
<1>1. /\ InputTypes /\ commands # << >> /\ commands' = << >>
      /\ UNCHANGED <<inChar, commandState, commandCount, command, asked, asking>>
  BY DEF InputInv, Take
<1>2. Len(commands) = 1 /\ commands[1] \in Messages /\ Head(commands) = commands[1]
  <2>1. commands \in Seq(Messages) /\ Len(commands) <= 1 /\ Len(commands) \in Nat
    BY <1>1, LenProperties DEF InputTypes
  <2>2. Len(commands) # 0
    BY <1>1, <2>1, EmptySeq
  <2>3. Len(commands) = 1 /\ commands[1] \in Messages
    BY <2>1, <2>2
  <2>4. Head(commands) = commands[1]
    BY <2>1, <2>3
  <2> QED BY <2>3, <2>4
<1>3. p \in Packets
  <2> DEFINE m == commands[1]
             d == [i \in 1 .. m.length |-> m.data[i - 1]]
  <2>1. m.op \in Bytes /\ \A k \in 0 .. m.length - 1 : m.data[k] \in Bytes
    BY <1>1 DEF InputInv, CommandWritten
  <2>2. m.length \in Nat
    BY <1>2, DepthAssumption DEF Messages
  <2>3. \A i \in 1 .. m.length : d[i] \in Bytes
    <3> SUFFICES ASSUME NEW i \in 1 .. m.length PROVE m.data[i - 1] \in Bytes
      OBVIOUS
    <3>1. i - 1 \in 0 .. m.length - 1
      BY <2>2
    <3> QED BY <2>1, <3>1
  <2>4. d \in Seq(Bytes)
    BY <2>2, <2>3, SequenceOf
  <2> QED BY <2>1, <2>4 DEF Packets, PacketOf, m
<1> HIDE DEF p
<1>4. taken' = Append(taken, p) /\ taken \in Seq(Packets)
  BY <1>1, <1>2 DEF Take, InputTypes, p
<1>5. /\ taken' \in Seq(Packets) /\ Len(taken') = Len(taken) + 1 /\ Len(taken) \in Nat
      /\ taken'[Len(taken')] = p
      /\ \A i \in 1 .. Len(taken) : taken'[i] = taken[i]
  BY <1>3, <1>4, AppendProperties, LenProperties
<1>6. InputTypes'
  BY <1>1, <1>5, EmptySeq DEF InputTypes
<1>7. AskingOk' /\ CommandWritten' /\ (Fits' <=> Fits) /\ AskedUpto' = AskedUpto
      /\ GetAt' = GetAt
  BY <1>1 DEF InputInv, AskingOk, CommandWritten, current, Fits, AskedUpto, Boundary, GetAt
<1>8. GetOf' = GetOf
  BY <1>1, <1>2, <1>5, EmptySeq DEF GetOf
<1>9. ASSUME Fits PROVE RequestsInv'
  <2>1. RequestsArrive /\ Built /\ Building
        /\ Carries(inChar, asked, <<GetOf, GetAt>>, AskedUpto)
    BY <1>9 DEF InputInv, RequestsInv
  <2>2. Len(taken) + 1 <= Len(asked) /\ p = asked[Len(taken) + 1]
    BY <1>1, <2>1 DEF Built, p
  <2>3. RequestsArrive'
    <3>1. \A i \in 1 .. Len(taken') : taken'[i] = asked[i]
      <4> SUFFICES ASSUME NEW i \in 1 .. Len(taken') PROVE taken'[i] = asked[i]
        OBVIOUS
      <4>1. CASE i = Len(taken')
        BY <1>5, <2>2, <4>1
      <4>2. CASE i # Len(taken')
        <5>1. i \in 1 .. Len(taken)
          BY <1>5, <4>2
        <5> QED BY <1>5, <1>9, <2>1, <5>1 DEF RequestsArrive
      <4> QED BY <4>1, <4>2
    <3> QED BY <1>1, <1>5, <2>2, <3>1 DEF RequestsArrive
  <2>4. Building' /\ Built'
    BY <1>1, <1>8, <2>1 DEF Building, Built
  <2>5. Carries(inChar', asked', <<GetOf, GetAt>>', AskedUpto')
    BY <1>1, <1>7, <1>8, <2>1
  <2> QED BY <2>3, <2>4, <2>5 DEF RequestsInv
<1> QED BY <1>6, <1>7, <1>9 DEF InputInv, RequestsInv

-----------------------------------------------------------------------------
(* What the output invariant says of the replies.                          *)
LEMMA RepliedPackets ==
  ASSUME OutputTypes, NEW i \in 1 .. Len(replied)
  PROVE  /\ replied[i] \in Replies /\ replied[i] \in Packets
         /\ Len(replied[i].data) \in Bytes /\ Len(replied[i].data) \in Nat
         /\ Len(Wire(replied[i])) = 2 + Len(replied[i].data)
         /\ Wire(replied[i])[1] = replied[i].op /\ Wire(replied[i])[2] = Len(replied[i].data)
         /\ \A k \in 1 .. Len(replied[i].data) : Wire(replied[i])[k + 2] = replied[i].data[k]
         /\ \A k \in 1 .. Len(Wire(replied[i])) : Wire(replied[i])[k] \in Bytes
<1>1. replied[i] \in Replies
  BY DEF OutputTypes
<1>2. replied[i] \in Packets /\ Len(replied[i].data) \in Bytes /\ Len(replied[i].data) \in Nat
  BY <1>1, KnownPacket
<1> QED BY <1>1, <1>2, WireBytes

LEMMA ReplyMessage ==
  ASSUME NEW p \in Replies
  PROVE  /\ Message(p) \in Messages
         /\ Message(p).op = p.op /\ Message(p).length = Len(p.data)
         /\ \A k \in 0 .. Len(p.data) - 1 : Message(p).data[k] = p.data[k + 1]
<1>1. p.op \in Bytes /\ p.data \in Seq(Bytes) /\ Len(p.data) \in 0 .. MaxLength
      /\ MaxLength \in Nat
  BY KnownPacket, ReplyAssumption, DepthAssumption DEF Packets
<1> DEFINE d == [i \in Slots |-> IF i < Len(p.data) THEN p.data[i + 1] ELSE Unwritten]
<1>2. d \in Data
  <2>1. ASSUME NEW i \in Slots, i < Len(p.data) PROVE p.data[i + 1] \in Bytes
    <3>1. i + 1 \in 1 .. Len(p.data)
      BY <1>1, <2>1 DEF Slots
    <3> QED BY <1>1, <3>1
  <2> QED BY <2>1 DEF Data
<1>3. \A k \in 0 .. Len(p.data) - 1 : k \in Slots /\ k < Len(p.data)
  BY <1>1 DEF Slots
<1> QED BY <1>1, <1>2, <1>3 DEF Message, Messages

LEMMA PutStep ==
  ASSUME OutputInv, Put
  PROVE  OutputInv'
<1> DEFINE n == Len(replied) + 1
<1>1. PICK p \in Replies : responses' = <<Message(p)>> /\ replied' = Append(replied, p)
  BY DEF Put
<1>2. /\ OutputTypes /\ responses = << >>
      /\ UNCHANGED <<responseState, responseCount, outChar, hearing, heard>>
  BY DEF OutputInv, Put
<1>3. /\ replied \in Seq(Replies) /\ outChar \in Seq(Labels) /\ Len(heard) \in Nat
  BY <1>2, LenProperties DEF OutputTypes
<1>4. /\ replied' \in Seq(Replies) /\ Len(replied') = n /\ replied'[n] = p /\ n \in Nat
      /\ Len(replied) \in Nat /\ replied' # << >>
      /\ \A i \in 1 .. Len(replied) : replied'[i] = replied[i]
  BY <1>1, <1>3, AppendProperties, LenProperties
<1>5. /\ responses' \in Seq(Messages) /\ Len(responses') = 1 /\ responses'[1] = Message(p)
      /\ responses' # << >>
  BY <1>1, ReplyMessage
<1>6. OutputTypes'
  BY <1>2, <1>4, <1>5 DEF OutputTypes
<1>7. responseState = "Type"
  BY <1>2 DEF OutputInv, Delivering
<1>8. Delivering'
  BY <1>2, <1>4, <1>5, <1>7 DEF Delivering
<1>9. Carries(outChar', replied', <<Len(heard) + 1, Len(hearing) + 1>>', DeliveredUpto')
  <2>1. Carries(outChar, replied, <<Len(heard) + 1, Len(hearing) + 1>>, <<n, 1>>)
    BY <1>2 DEF OutputInv, RepliesInv, DeliveredUpto
  <2>2. Carries(outChar, replied', <<Len(heard) + 1, Len(hearing) + 1>>, <<n, 1>>)
    BY <1>1, <1>3, <2>1, CarriesMore
  <2>3. DeliveredUpto' = <<n, 1>>
    BY <1>2, <1>4, <1>5, <1>7 DEF DeliveredUpto, DeliverAt
  <2> QED BY <1>2, <2>2, <2>3
<1>10. Hearing'
  <2>1. Hearing
    BY DEF OutputInv, RepliesInv
  <2>2. RepliesArrive'
    BY <1>2, <1>3, <1>4, <2>1 DEF Hearing, RepliesArrive
  <2>3. ASSUME NEW k \in 1 .. Len(hearing)
        PROVE  /\ Len(heard) < Len(replied')
               /\ k < Len(Wire(replied'[Len(heard) + 1]))
               /\ hearing[k] = Wire(replied'[Len(heard) + 1])[k]
    <3>1. Len(heard) + 1 \in 1 .. Len(replied)
      BY <1>3, <1>4, <2>1 DEF Hearing
    <3> QED BY <1>3, <1>4, <2>1, <3>1 DEF Hearing
  <2> QED BY <1>2, <2>2, <2>3 DEF Hearing
<1> QED BY <1>6, <1>8, <1>9, <1>10 DEF OutputInv, RepliesInv

(* deliverResponse sends the byte of the reply that comes next.            *)
LEMMA DeliverByte ==
  ASSUME OutputInv, CanDeliver, NEW b, NEW k, Deliver(b, k), k = DeliverAt,
         LET p == replied[Len(replied)] IN k \in 1 .. Len(Wire(p)) /\ b = Wire(p)[k]
  PROVE  /\ outChar' \in Seq(Labels) /\ Len(outChar') <= OutDepth
         /\ Carries(outChar', replied, <<Len(heard) + 1, Len(hearing) + 1>>,
                    IF k = Len(Wire(replied[Len(replied)])) THEN <<Len(replied) + 1, 1>>
                                                            ELSE <<Len(replied), k + 1>>)
<1> DEFINE n == Len(replied)
           l == Labelled(b, n, k)
<1>1. OutputTypes /\ outChar \in Seq(Labels) /\ replied \in Seq(Replies) /\ responses # << >>
  BY DEF OutputInv, OutputTypes, CanDeliver
<1>2. n \in 1 .. Len(replied) /\ n \in Nat \ {0}
  <2>1. replied # << >>
    BY <1>1 DEF OutputInv, Delivering
  <2> QED BY <1>1, <2>1, EmptySeq
<1>3. b \in Bytes /\ k \in Nat \ {0}
  <2>1. Len(Wire(replied[n])) \in Nat /\ \A j \in 1 .. Len(Wire(replied[n])) : Wire(replied[n])[j] \in Bytes
    BY <1>1, <1>2, RepliedPackets
  <2>2. k \in 1 .. Len(Wire(replied[n])) /\ b = Wire(replied[n])[k]
    OBVIOUS
  <2> HIDE DEF n
  <2> QED BY <2>1, <2>2
<1>4. l \in Labels
  BY <1>2, <1>3 DEF Labels, Labelled
<1>5. outChar' = Append(outChar, l)
  BY DEF Deliver
<1>6. outChar' \in Seq(Labels) /\ Len(outChar') = Len(outChar) + 1 /\ Len(outChar) \in Nat
  BY <1>1, <1>4, <1>5, AppendProperties, LenProperties
<1>7. IsByteOf(replied, l) /\ Pos(l) = <<n, k>>
  BY <1>2 DEF IsByteOf, Labelled, Pos
<1>8. Carries(outChar, replied, <<Len(heard) + 1, Len(hearing) + 1>>, <<n, k>>)
  BY <1>1 DEF OutputInv, RepliesInv, DeliveredUpto
<1>9. Carries(outChar', replied, <<Len(heard) + 1, Len(hearing) + 1>>, After(replied, l))
  BY <1>1, <1>4, <1>5, <1>7, <1>8, CarriesAppend
<1>10. After(replied, l) = IF k = Len(Wire(replied[n])) THEN <<n + 1, 1>> ELSE <<n, k + 1>>
  BY DEF After, Labelled
<1>11. Len(outChar') <= OutDepth
  BY <1>6, DepthAssumption DEF CanDeliver
<1> QED BY <1>6, <1>9, <1>10, <1>11

LEMMA DeliverStep ==
  ASSUME OutputInv, CanDeliver, DeliverType \/ DeliverLength \/ DeliverData,
         UNCHANGED <<replied, hearing, heard>>
  PROVE  OutputInv'
<1> DEFINE n == Len(replied)
           p == replied[Len(replied)]
<1>1. OutputTypes /\ replied \in Seq(Replies) /\ responses # << >> /\ responses \in Seq(Messages)
  BY DEF OutputInv, OutputTypes, CanDeliver
<1>2. n \in 1 .. Len(replied) /\ replied # << >> /\ n \in Nat
  <2>1. replied # << >>
    BY <1>1 DEF OutputInv, Delivering
  <2> QED BY <1>1, <2>1, EmptySeq
<1>3. /\ p \in Replies /\ Len(p.data) \in Nat /\ Len(Wire(p)) = 2 + Len(p.data)
      /\ Wire(p)[1] = p.op /\ Wire(p)[2] = Len(p.data)
      /\ \A k \in 1 .. Len(p.data) : Wire(p)[k + 2] = p.data[k]
      /\ Len(p.data) <= MaxLength
  BY <1>1, <1>2, RepliedPackets, ReplyAssumption
<1>4. myRsp = Message(p)
  BY <1>1, EmptySeq DEF OutputInv, Delivering, myRsp
<1>5. /\ myRsp.op = p.op /\ myRsp.length = Len(p.data)
      /\ \A k \in 0 .. Len(p.data) - 1 : myRsp.data[k] = p.data[k + 1]
  BY <1>3, <1>4, ReplyMessage
<1>6. /\ replied' = replied /\ hearing' = hearing /\ heard' = heard
      /\ Hearing' /\ MaxLength \in Nat /\ responseCount \in 0 .. MaxLength
  BY <1>1, DepthAssumption DEF OutputInv, OutputTypes, RepliesInv, Hearing, RepliesArrive
<1>7. /\ \A S : << >> \in Seq(S) /\ Len(<< >>) = 0
      /\ responses[1] = Message(p) /\ Len(responses) <= 1
  BY <1>1, EmptySeq DEF OutputInv, OutputTypes, Delivering
<1> DEFINE Sent(k) ==
      /\ outChar' \in Seq(Labels) /\ Len(outChar') <= OutDepth
      /\ Carries(outChar', replied, <<Len(heard) + 1, Len(hearing) + 1>>,
                 IF k = Len(Wire(p)) THEN <<n + 1, 1>> ELSE <<n, k + 1>>)
<1>8. CASE DeliverType
  <2>1. /\ Deliver(p.op, 1) /\ responseState = "Type" /\ responseState' = "Length"
        /\ UNCHANGED <<responses, responseCount>>
    BY <1>5, <1>8 DEF DeliverType
  <2>2. DeliverAt = 1 /\ 1 \in 1 .. Len(Wire(p)) /\ 1 # Len(Wire(p))
    BY <1>3, <2>1 DEF DeliverAt
  <2>3. Sent(1)
    BY <1>3, <2>1, <2>2, DeliverByte
  <2>4. OutputTypes'
    BY <1>1, <1>6, <2>1, <2>3 DEF OutputTypes, States
  <2>5. Delivering'
    BY <1>1, <1>2, <1>6, <1>7, <2>1 DEF Delivering
  <2>6. DeliveredUpto' = <<n, 2>>
    BY <1>1, <1>6, <2>1 DEF DeliveredUpto, DeliverAt
  <2>7. Carries(outChar', replied', <<Len(heard) + 1, Len(hearing) + 1>>', DeliveredUpto')
    BY <1>6, <2>2, <2>3, <2>6
  <2> QED BY <1>6, <2>4, <2>5, <2>7 DEF OutputInv, RepliesInv
<1>9. CASE DeliverLength
  <2>1. Deliver(Len(p.data), 2) /\ responseState = "Length"
    BY <1>5, <1>9 DEF DeliverLength
  <2>2. DeliverAt = 2 /\ 2 \in 1 .. Len(Wire(p)) /\ (2 = Len(Wire(p)) <=> Len(p.data) = 0)
    BY <1>3, <2>1 DEF DeliverAt
  <2>3. Sent(2)
    BY <1>3, <2>1, <2>2, DeliverByte
  <2>4. CASE Len(p.data) # 0
    <3>1. responseState' = "Data" /\ responseCount' = 0 /\ responses' = responses
      BY <1>5, <1>9, <2>4 DEF DeliverLength
    <3>2. OutputTypes'
      BY <1>1, <1>6, <2>3, <3>1 DEF OutputTypes, States
    <3>3. Delivering'
      BY <1>1, <1>2, <1>3, <1>6, <1>7, <2>4, <3>1 DEF Delivering
    <3>4. DeliveredUpto' = <<n, 3>>
      BY <1>1, <1>6, <3>1 DEF DeliveredUpto, DeliverAt
    <3>5. Carries(outChar', replied', <<Len(heard) + 1, Len(hearing) + 1>>', DeliveredUpto')
      BY <1>6, <2>2, <2>3, <2>4, <3>4
    <3> QED BY <1>6, <3>2, <3>3, <3>5 DEF OutputInv, RepliesInv
  <2>5. CASE Len(p.data) = 0
    <3>1. responseState' = "Type" /\ responses' = << >> /\ responseCount' = responseCount
      BY <1>5, <1>9, <2>5 DEF DeliverLength
    <3>2. OutputTypes'
      BY <1>1, <1>6, <1>7, <2>3, <3>1 DEF OutputTypes, States
    <3>3. Delivering' /\ DeliveredUpto' = <<n + 1, 1>>
      BY <1>6, <3>1 DEF Delivering, DeliveredUpto
    <3>4. Carries(outChar', replied', <<Len(heard) + 1, Len(hearing) + 1>>', DeliveredUpto')
      BY <1>6, <2>2, <2>3, <2>5, <3>3
    <3> QED BY <1>6, <3>2, <3>3, <3>4 DEF OutputInv, RepliesInv
  <2> QED BY <2>4, <2>5
<1>10. CASE DeliverData
  <2>1. /\ responseState = "Data" /\ Deliver(myRsp.data[responseCount], responseCount + 3)
        /\ responseCount' = responseCount + 1 /\ responseCount < Len(p.data)
    BY <1>10 DEF DeliverData, OutputInv, Delivering
  <2>2. responseCount \in 0 .. Len(p.data) - 1 /\ responseCount + 1 \in 1 .. Len(p.data)
        /\ (responseCount + 1) + 2 = responseCount + 3
    <3>1. Len(p.data) \in Nat
      BY <1>3
    <3>2. responseCount \in Nat /\ responseCount < Len(p.data)
      BY <1>6, <2>1
    <3> QED BY <3>1, <3>2
  <2>3. /\ DeliverAt = responseCount + 3 /\ responseCount + 3 \in 1 .. Len(Wire(p))
        /\ responseCount + 3 = Len(Wire(p)) <=> responseCount = Len(p.data) - 1
        /\ (responseCount + 3) + 1 = responseCount + 4
    <3>1. DeliverAt = responseCount + 3
      BY <2>1 DEF DeliverAt
    <3>2. Len(p.data) \in Nat /\ Len(Wire(p)) = 2 + Len(p.data)
      BY <1>3
    <3>3. responseCount \in Nat /\ responseCount + 1 <= Len(p.data)
      BY <2>2, <3>2
    <3> DEFINE r == responseCount
               L == Len(p.data)
               w == Len(Wire(p))
    <3> HIDE DEF r, L, w
    <3>4. L \in Nat /\ w = 2 + L /\ r \in Nat /\ r + 1 <= L
      BY <3>2, <3>3 DEF r, L, w
    <3>5. r + 3 \in 1 .. w /\ (r + 3 = w <=> r = L - 1) /\ (r + 3) + 1 = r + 4
      BY <3>4
    <3> QED BY <3>1, <3>5 DEF r, L, w
  <2>4. myRsp.data[responseCount] = Wire(p)[responseCount + 3]
    <3>1. Wire(p)[(responseCount + 1) + 2] = p.data[responseCount + 1]
      BY <1>3, <2>2
    <3> QED BY <1>5, <2>2, <3>1
  <2>5. Sent(responseCount + 3)
    BY <2>1, <2>3, <2>4, DeliverByte
  <2>6. CASE responseCount >= Len(p.data) - 1
    <3>1. responseState' = "Type" /\ responses' = << >> /\ responseCount = Len(p.data) - 1
      BY <1>5, <1>10, <2>2, <2>6 DEF DeliverData
    <3>2. OutputTypes'
      BY <1>1, <1>3, <1>6, <1>7, <2>1, <2>2, <2>5, <3>1 DEF OutputTypes, States
    <3>3. Delivering' /\ DeliveredUpto' = <<n + 1, 1>>
      BY <1>6, <3>1 DEF Delivering, DeliveredUpto
    <3>4. Carries(outChar', replied', <<Len(heard) + 1, Len(hearing) + 1>>', DeliveredUpto')
      BY <1>6, <2>3, <2>5, <3>1, <3>3
    <3> QED BY <1>6, <3>2, <3>3, <3>4 DEF OutputInv, RepliesInv
  <2>7. CASE ~(responseCount >= Len(p.data) - 1)
    <3>1. responseState' = "Data" /\ responses' = responses /\ responseCount # Len(p.data) - 1
          /\ responseCount' < Len(p.data)
      BY <1>3, <1>5, <1>10, <2>1, <2>2, <2>7 DEF DeliverData
    <3>2. OutputTypes'
      BY <1>1, <1>3, <1>6, <2>1, <2>2, <2>5, <3>1 DEF OutputTypes, States
    <3>3. Delivering'
      BY <1>1, <1>2, <1>6, <1>7, <3>1 DEF Delivering
    <3>4. DeliveredUpto' = <<n, responseCount + 4>>
      <4>1. responseCount' + 3 = responseCount + 4
        BY <1>6, <2>1
      <4> QED BY <1>1, <1>6, <3>1, <4>1 DEF DeliveredUpto, DeliverAt
    <3>5. Carries(outChar', replied', <<Len(heard) + 1, Len(hearing) + 1>>', DeliveredUpto')
      BY <1>6, <2>3, <2>5, <3>1, <3>4
    <3> QED BY <1>6, <3>2, <3>3, <3>5 DEF OutputInv, RepliesInv
  <2> QED BY <2>6, <2>7
<1> QED BY <1>8, <1>9, <1>10

LEMMA HearStep ==
  ASSUME OutputInv, Hear
  PROVE  OutputInv'
<1> DEFINE h  == Len(heard) + 1
           p  == replied[Len(heard) + 1]
           b  == Head(outChar).byte
           bs == Append(hearing, b)
<1>1. /\ OutputTypes /\ outChar \in Seq(Labels) /\ outChar # << >> /\ outChar' = Tail(outChar)
      /\ hearing \in Seq(Bytes) /\ heard \in Seq(Packets)
      /\ UNCHANGED <<responses, responseState, responseCount, replied>>
  BY DEF OutputInv, OutputTypes, Hear
<1>2. Carries(outChar, replied, <<h, Len(hearing) + 1>>, DeliveredUpto) /\ Hearing
  BY DEF OutputInv, RepliesInv
<1>3. /\ IsByteOf(replied, Head(outChar)) /\ Pos(Head(outChar)) = <<h, Len(hearing) + 1>>
      /\ Carries(Tail(outChar), replied, After(replied, Head(outChar)), DeliveredUpto)
  BY <1>1, <1>2, CarriesTail
<1>4. Head(outChar).of = h /\ Head(outChar).at = Len(hearing) + 1
  BY <1>3 DEF Pos
<1>5. h \in 1 .. Len(replied) /\ Len(hearing) + 1 \in 1 .. Len(Wire(p))
      /\ b = Wire(p)[Len(hearing) + 1]
  BY <1>3, <1>4 DEF IsByteOf
<1>6. /\ p \in Packets /\ Len(p.data) \in Nat /\ Len(Wire(p)) = 2 + Len(p.data)
      /\ Wire(p)[1] = p.op /\ Wire(p)[2] = Len(p.data)
      /\ \A k \in 1 .. Len(p.data) : Wire(p)[k + 2] = p.data[k]
      /\ b \in Bytes
  BY <1>1, <1>5, RepliedPackets
<1>7. /\ Len(hearing) \in Nat /\ Len(heard) \in Nat /\ bs \in Seq(Bytes)
      /\ Len(bs) = Len(hearing) + 1 /\ bs[Len(hearing) + 1] = b
      /\ \A k \in 1 .. Len(hearing) : bs[k] = hearing[k]
  BY <1>1, <1>6, AppendProperties, LenProperties
<1>8. \A k \in 1 .. Len(bs) : bs[k] = Wire(p)[k]
  <2> SUFFICES ASSUME NEW k \in 1 .. Len(bs) PROVE bs[k] = Wire(p)[k]
    OBVIOUS
  <2>1. CASE k = Len(hearing) + 1
    BY <1>5, <1>7, <2>1
  <2>2. CASE k # Len(hearing) + 1
    <3>1. k \in 1 .. Len(hearing)
      BY <1>7, <2>2
    <3> QED BY <1>2, <1>7, <3>1 DEF Hearing
  <2> QED BY <2>1, <2>2
<1>9. HeardWhole(bs) <=> Len(bs) = Len(Wire(p))
  <2>1. Len(bs) >= 2 => bs[2] = Len(p.data)
    BY <1>6, <1>7, <1>8
  <2> HIDE DEF bs, p
  <2> QED BY <1>6, <1>7, <2>1 DEF HeardWhole
<1>10. outChar' \in Seq(Labels) /\ Len(outChar') <= OutDepth
  <2>1. Len(Tail(outChar)) = Len(outChar) - 1 /\ Tail(outChar) \in Seq(Labels)
        /\ Len(outChar) \in Nat /\ Len(outChar) <= OutDepth
    BY <1>1, HeadTailProperties, LenProperties DEF OutputTypes
  <2> QED BY <1>1, <2>1, DepthAssumption
<1>11. Delivering' /\ DeliveredUpto' = DeliveredUpto
  BY <1>1 DEF OutputInv, Delivering, DeliveredUpto, DeliverAt
<1>12. /\ Carries(outChar', replied, IF Len(bs) = Len(Wire(p)) THEN <<h + 1, 1>>
                                     ELSE <<h, Len(bs) + 1>>, DeliveredUpto')
  BY <1>1, <1>3, <1>4, <1>7, <1>11 DEF After
<1>13. CASE HeardWhole(bs)
  <2> DEFINE d == SubSeq(bs, 3, Len(bs))
  <2>1. hearing' = << >> /\ heard' = Append(heard, [op |-> bs[1], data |-> d])
    BY <1>13 DEF Hear
  <2>2. Len(bs) = 2 + Len(p.data)
    BY <1>6, <1>9, <1>13
  <2>3. /\ d \in Seq(Bytes) /\ Len(d) = Len(p.data)
        /\ \A k \in 1 .. Len(d) : d[k] = bs[k + 2]
    <3> HIDE DEF bs, p
    <3>1. \A i \in 3 .. Len(bs) : bs[i] \in Bytes
      BY <1>6, <1>7, <2>2
    <3>2. /\ d \in Seq(Bytes) /\ Len(d) = IF 3 <= Len(bs) THEN Len(bs) - 3 + 1 ELSE 0
          /\ \A i \in 1 .. Len(bs) - 3 + 1 : d[i] = bs[3 + i - 1]
      BY <1>6, <2>2, <3>1, SubSeqProperties
    <3>3. Len(d) = Len(p.data) /\ Len(bs) - 3 + 1 = Len(p.data)
      BY <1>6, <2>2, <3>2
    <3> HIDE DEF d
    <3>4. ASSUME NEW k \in 1 .. Len(d) PROVE d[k] = bs[k + 2]
      <4>1. 3 + k - 1 = k + 2 /\ k \in 1 .. Len(bs) - 3 + 1
        BY <1>6, <3>3
      <4> QED BY <3>2, <4>1
    <3> QED BY <3>2, <3>3, <3>4
  <2>4. \A k \in 1 .. Len(d) : d[k] = p.data[k]
    <3> SUFFICES ASSUME NEW k \in 1 .. Len(d) PROVE d[k] = p.data[k]
      OBVIOUS
    <3>1. k \in 1 .. Len(p.data) /\ k + 2 \in 1 .. Len(bs)
      BY <1>6, <2>2, <2>3
    <3> QED BY <1>6, <1>8, <2>3, <3>1
  <2>5. bs[1] = p.op
    BY <1>6, <1>7, <1>8
  <2> HIDE DEF d
  <2>6. [op |-> bs[1], data |-> d] = p
    BY <1>6, <2>3, <2>4, <2>5, SamePacket
  <2>7. heard' = Append(heard, p)
    BY <2>1, <2>6
  <2>8. /\ heard' \in Seq(Packets) /\ Len(heard') = h /\ heard'[h] = p
        /\ \A i \in 1 .. Len(heard) : heard'[i] = heard[i]
    BY <1>1, <1>6, <2>7, AppendProperties
  <2>9. hearing' \in Seq(Bytes) /\ Len(hearing') = 0
    BY <2>1, EmptySeq
  <2>10. OutputTypes'
    BY <1>1, <1>10, <2>8, <2>9 DEF OutputTypes
  <2>11. Carries(outChar', replied', <<Len(heard) + 1, Len(hearing) + 1>>', DeliveredUpto')
    BY <1>1, <1>6, <1>12, <2>2, <2>8, <2>9
  <2>12. RepliesArrive'
    <3>1. \A i \in 1 .. h : heard'[i] = replied[i]
      <4> SUFFICES ASSUME NEW i \in 1 .. h PROVE heard'[i] = replied[i]
        OBVIOUS
      <4>1. CASE i = h
        BY <2>8, <4>1
      <4>2. CASE i # h
        <5>1. i \in 1 .. Len(heard)
          BY <1>7, <4>2
        <5>2. heard[i] = replied[i]
          BY <1>2, <5>1 DEF Hearing, RepliesArrive
        <5> QED BY <2>8, <5>1, <5>2
      <4> QED BY <4>1, <4>2
    <3>2. replied' = replied /\ Len(heard') = h
      BY <1>1, <2>8
    <3>3. h <= Len(replied) /\ \A i \in 1 .. Len(heard') : heard'[i] = replied'[i]
      BY <1>5, <3>1, <3>2
    <3> QED BY <3>2, <3>3 DEF RepliesArrive
  <2>13. Hearing'
    BY <2>9, <2>12 DEF Hearing
  <2> QED BY <1>11, <2>10, <2>11, <2>13 DEF OutputInv, RepliesInv
<1>14. CASE ~HeardWhole(bs)
  <2>1. hearing' = bs /\ heard' = heard
    BY <1>14 DEF Hear
  <2>2. Len(bs) < Len(Wire(p))
    BY <1>5, <1>6, <1>7, <1>9, <1>14
  <2>3. OutputTypes'
    BY <1>1, <1>7, <1>10, <2>1 DEF OutputTypes
  <2>4. Carries(outChar', replied', <<Len(heard) + 1, Len(hearing) + 1>>', DeliveredUpto')
    BY <1>1, <1>12, <2>1, <2>2
  <2>5. RepliesArrive'
    BY <1>1, <1>2, <2>1 DEF Hearing, RepliesArrive
  <2>6. Hearing'
    <3>1. ASSUME NEW k \in 1 .. Len(bs)
          PROVE  Len(heard) < Len(replied) /\ k < Len(Wire(p)) /\ bs[k] = Wire(p)[k]
      BY <1>5, <1>6, <1>7, <1>8, <2>2
    <3> HIDE DEF bs
    <3> QED BY <1>1, <2>1, <2>5, <3>1 DEF Hearing
  <2> QED BY <1>11, <2>3, <2>4, <2>6 DEF OutputInv, RepliesInv
<1> QED BY <1>13, <1>14

-----------------------------------------------------------------------------
LEMMA InvNext == ConvertInv /\ [Next]_vars => ConvertInv'
<1> SUFFICES ASSUME ConvertInv, [Next]_vars PROVE ConvertInv'
  OBVIOUS
<1> USE DEF ConvertInv
<1>1. CASE Send
  <2>1. OutputInv'
    BY <1>1, OutputSame DEF Send
  <2>2. InputInv'
    <3>1. /\ Len(inChar) < InDepth
          /\ UNCHANGED <<commandState, commandCount, command, commands, taken>>
      BY <1>1 DEF Send
    <3>2. CASE Boundary
      <4>1. PICK p \in Requests : /\ asked' = Append(asked, p) /\ asking' = 1
                                  /\ inChar' = Append(inChar, Labelled(p.op, Len(asked) + 1, 1))
        BY <1>1, <3>2 DEF Send
      <4> QED BY <3>1, <3>2, <4>1, SendStart
    <3>3. CASE ~Boundary
      BY <1>1, <3>1, <3>3, SendOn DEF Send
    <3> QED BY <3>2, <3>3
  <2> QED BY <2>1, <2>2
<1>2. CASE getCommand
  <2>1. OutputInv'
    BY <1>2, OutputSame DEF getCommand
  <2>2. /\ CanGet /\ inChar' = Tail(inChar)
        /\ GetType \/ GetLength \/ GetData
        /\ UNCHANGED <<asked, asking, taken>>
    BY <1>2 DEF getCommand
  <2>3. InputInv'
    <3>1. CASE GetType
      BY <2>2, <3>1, GetTypeStep
    <3>2. CASE GetLength
      BY <2>2, <3>2, GetLengthStep
    <3>3. CASE GetData
      BY <2>2, <3>3, GetDataStep
    <3> QED BY <2>2, <3>1, <3>2, <3>3
  <2> QED BY <2>1, <2>3
<1>3. CASE Take
  BY <1>3, TakeStep, OutputSame DEF Take
<1>4. CASE Put
  BY <1>4, PutStep, InputSame DEF Put
<1>5. CASE deliverResponse
  BY <1>5, DeliverStep, InputSame DEF deliverResponse
<1>6. CASE Hear
  BY <1>6, HearStep, InputSame DEF Hear
<1>7. CASE UNCHANGED vars
  BY <1>7, InputSame, OutputSame DEF vars
<1> QED BY <1>1, <1>2, <1>3, <1>4, <1>5, <1>6, <1>7 DEF Next

LEMMA InvAlways == Spec => []ConvertInv
BY InvInit, InvNext, PTL DEF Spec

-----------------------------------------------------------------------------
(* Frames is a recursive function.  Its equation holds because functions   *)
(* that satisfy it for sequences up to some length exist, and agree.       *)
Upto(n) == {s \in Seq(Bytes) : Len(s) <= n}
Whole(s) == ~(Len(s) < 2 \/ Len(s) < 2 + DataLength(s))
First(s) == [op |-> s[1], data |-> SubSeq(s, 3, 2 + DataLength(s))]
Rest(s)  == SubSeq(s, 3 + DataLength(s), Len(s))
Framing(f, s) == IF Whole(s) THEN <<First(s)>> \o f[Rest(s)] ELSE << >>
FramesUpto(f, n) == \A s \in Upto(n) : f[s] = Framing(f, s)

LEMMA WholePacket ==
  ASSUME NEW s \in Seq(Bytes), Whole(s)
  PROVE  /\ DataLength(s) \in Nat /\ First(s) \in Packets
         /\ Rest(s) \in Seq(Bytes) /\ Len(Rest(s)) = Len(s) - 2 - DataLength(s)
         /\ Len(Rest(s)) < Len(s)
<1>1. Len(s) \in Nat /\ Len(s) >= 2 /\ s[1] \in Bytes /\ s[2] \in Nat /\ MaxLength \in Nat
  <2>1. Len(s) \in Nat /\ Len(s) >= 2
    BY LenProperties DEF Whole
  <2>2. s[1] \in Bytes /\ s[2] \in Bytes
    BY <2>1
  <2> QED BY <2>1, <2>2, ByteAssumption, DepthAssumption
<1>2. DataLength(s) \in Nat
  BY <1>1 DEF DataLength
<1> DEFINE n == DataLength(s)
<1>3. 2 + n <= Len(s)
  BY <1>1, <1>2 DEF Whole
<1> HIDE DEF n
<1>4. n \in Nat
  BY <1>2 DEF n
<1>5. (\A i \in 3 .. 2 + n : s[i] \in Bytes) /\ (\A i \in 3 + n .. Len(s) : s[i] \in Bytes)
  BY <1>1, <1>3, <1>4
<1>6. SubSeq(s, 3, 2 + n) \in Seq(Bytes)
  BY <1>4, <1>5, SubSeqProperties
<1>7. /\ SubSeq(s, 3 + n, Len(s)) \in Seq(Bytes)
      /\ Len(SubSeq(s, 3 + n, Len(s))) = IF 3 + n <= Len(s) THEN Len(s) - (3 + n) + 1 ELSE 0
  BY <1>1, <1>4, <1>5, SubSeqProperties
<1>8. Len(SubSeq(s, 3 + n, Len(s))) = Len(s) - 2 - n
  BY <1>1, <1>3, <1>4, <1>7
<1> QED BY <1>1, <1>3, <1>4, <1>6, <1>7, <1>8 DEF First, Rest, Packets, n

LEMMA FramingExists ==
  \A n \in Nat : \E f \in [Upto(n) -> Seq(Packets)] : FramesUpto(f, n)
<1> DEFINE T == {n \in Nat : \E f \in [Upto(n) -> Seq(Packets)] : FramesUpto(f, n)}
<1>1. 0 \in T
  <2> DEFINE f == [s \in Upto(0) |-> << >>]
  <2>1. f \in [Upto(0) -> Seq(Packets)]
    OBVIOUS
  <2>2. ASSUME NEW s \in Upto(0) PROVE f[s] = Framing(f, s)
    <3>1. Len(s) < 2
      BY LenProperties DEF Upto
    <3> QED BY <3>1 DEF Framing, Whole
  <2>3. FramesUpto(f, 0)
    BY <2>2 DEF FramesUpto
  <2> HIDE DEF f
  <2> QED BY <2>1, <2>3
<1>2. ASSUME NEW n \in Nat, n \in T PROVE n + 1 \in T
  <2>1. PICK f \in [Upto(n) -> Seq(Packets)] : FramesUpto(f, n)
    BY <1>2
  <2> DEFINE g == [s \in Upto(n + 1) |-> Framing(f, s)]
  <2>2. ASSUME NEW s \in Upto(n + 1), Whole(s)
        PROVE  Rest(s) \in Upto(n) /\ Rest(s) \in Upto(n + 1) /\ First(s) \in Packets
    <3>1. s \in Seq(Bytes) /\ Len(s) <= n + 1 /\ Len(s) \in Nat
      BY LenProperties DEF Upto
    <3>2. /\ Rest(s) \in Seq(Bytes) /\ Len(Rest(s)) < Len(s) /\ Len(Rest(s)) \in Nat
          /\ First(s) \in Packets
      BY <2>2, <3>1, WholePacket, LenProperties
    <3> QED BY <3>1, <3>2 DEF Upto
  <2>3. ASSUME NEW s \in Upto(n + 1) PROVE Framing(f, s) \in Seq(Packets)
    <3>1. CASE Whole(s)
      <4>1. f[Rest(s)] \in Seq(Packets) /\ <<First(s)>> \in Seq(Packets)
        BY <2>1, <2>2, <3>1
      <4>2. <<First(s)>> \o f[Rest(s)] \in Seq(Packets)
        BY <4>1, ConcatProperties
      <4> QED BY <3>1, <4>2 DEF Framing
    <3>2. CASE ~Whole(s)
      BY <3>2, EmptySeq DEF Framing
    <3> QED BY <3>1, <3>2
  <2>4. g \in [Upto(n + 1) -> Seq(Packets)]
    BY <2>3
  <2>5. ASSUME NEW s \in Upto(n) PROVE s \in Upto(n + 1) /\ g[s] = f[s]
    <3>1. s \in Upto(n + 1)
      BY LenProperties DEF Upto
    <3> QED BY <2>1, <3>1 DEF FramesUpto
  <2>6. ASSUME NEW s \in Upto(n + 1) PROVE g[s] = Framing(g, s)
    <3>1. Whole(s) => g[Rest(s)] = f[Rest(s)]
      BY <2>2, <2>5
    <3> HIDE DEF g
    <3>2. g[s] = Framing(f, s)
      BY DEF g
    <3> QED BY <3>1, <3>2 DEF Framing
  <2>7. FramesUpto(g, n + 1)
    BY <2>6 DEF FramesUpto
  <2> HIDE DEF g
  <2> QED BY <2>4, <2>7
<1> HIDE DEF T
<1>3. \A n \in Nat : n \in T
  BY <1>1, <1>2, InductiveSet
<1> QED BY <1>3 DEF T

LEMMA FramingUnique ==
  ASSUME NEW f, NEW g, NEW n \in Nat, FramesUpto(f, n), FramesUpto(g, n)
  PROVE  \A s \in Upto(n) : f[s] = g[s]
<1> DEFINE T == {k \in Nat : k <= n => \A s \in Upto(k) : f[s] = g[s]}
<1>1. 0 \in T
  <2> SUFFICES ASSUME NEW s \in Upto(0) PROVE f[s] = g[s]
    OBVIOUS
  <2>1. s \in Upto(n) /\ Len(s) < 2
    BY LenProperties DEF Upto
  <2>2. f[s] = Framing(f, s) /\ g[s] = Framing(g, s)
    BY <2>1 DEF FramesUpto
  <2> QED BY <2>1, <2>2 DEF Framing, Whole
<1>2. ASSUME NEW k \in Nat, k \in T PROVE k + 1 \in T
  <2> SUFFICES ASSUME k + 1 <= n, NEW s \in Upto(k + 1) PROVE f[s] = g[s]
    OBVIOUS
  <2>1. s \in Seq(Bytes) /\ Len(s) \in Nat /\ Len(s) <= k + 1 /\ s \in Upto(n)
    BY LenProperties DEF Upto
  <2>2. f[s] = Framing(f, s) /\ g[s] = Framing(g, s)
    BY <2>1 DEF FramesUpto
  <2>3. Whole(s) => f[Rest(s)] = g[Rest(s)]
    <3> SUFFICES ASSUME Whole(s) PROVE f[Rest(s)] = g[Rest(s)]
      OBVIOUS
    <3>1. Rest(s) \in Seq(Bytes) /\ Len(Rest(s)) < Len(s) /\ Len(Rest(s)) \in Nat
      BY <2>1, WholePacket, LenProperties
    <3>2. Rest(s) \in Upto(k)
      BY <2>1, <3>1 DEF Upto
    <3> QED BY <1>2, <3>2
  <2> QED BY <2>2, <2>3 DEF Framing
<1> HIDE DEF T
<1>3. n \in T
  BY <1>1, <1>2, InductiveSet
<1> QED BY <1>3 DEF T

LEMMA FramesEquation ==
  ASSUME NEW s \in Seq(Bytes)
  PROVE  Frames[s] = Framing(Frames, s) /\ Frames[s] \in Seq(Packets)
<1> DEFINE Approx(n) == CHOOSE f : f \in [Upto(n) -> Seq(Packets)] /\ FramesUpto(f, n)
           F == [t \in Seq(Bytes) |-> Approx(Len(t))[t]]
           IsFrames(f) ==
             f = [t \in Seq(Bytes) |->
                    IF Len(t) < 2 \/ Len(t) < 2 + DataLength(t) THEN << >>
                    ELSE <<[op |-> t[1], data |-> SubSeq(t, 3, 2 + DataLength(t))]>>
                         \o f[SubSeq(t, 3 + DataLength(t), Len(t))]]
<1>1. \A n \in Nat : Approx(n) \in [Upto(n) -> Seq(Packets)] /\ FramesUpto(Approx(n), n)
  BY FramingExists
<1> HIDE DEF Approx
<1>2. ASSUME NEW n \in Nat, NEW m \in Nat, m <= n, NEW t \in Upto(m)
      PROVE  Approx(n)[t] = Approx(m)[t]
  <2>1. \A u \in Upto(m) : u \in Upto(n)
    BY <1>2, LenProperties DEF Upto
  <2>2. FramesUpto(Approx(n), m) /\ FramesUpto(Approx(m), m)
    BY <1>1, <2>1 DEF FramesUpto
  <2> QED BY <1>2, <2>2, FramingUnique
<1>3. ASSUME NEW t \in Seq(Bytes)
      PROVE  F[t] = Framing(F, t) /\ F[t] \in Seq(Packets)
  <2>1. Len(t) \in Nat /\ t \in Upto(Len(t))
    BY LenProperties DEF Upto
  <2>2. F[t] = Framing(Approx(Len(t)), t) /\ F[t] \in Seq(Packets)
    BY <1>1, <2>1 DEF FramesUpto
  <2>3. Whole(t) => Approx(Len(t))[Rest(t)] = F[Rest(t)]
    <3> SUFFICES ASSUME Whole(t) PROVE Approx(Len(t))[Rest(t)] = F[Rest(t)]
      OBVIOUS
    <3>1. Rest(t) \in Seq(Bytes) /\ Len(Rest(t)) < Len(t) /\ Len(Rest(t)) \in Nat
      BY WholePacket, LenProperties
    <3>2. Rest(t) \in Upto(Len(Rest(t))) /\ Len(Rest(t)) <= Len(t)
      BY <2>1, <3>1 DEF Upto
    <3>3. Approx(Len(t))[Rest(t)] = Approx(Len(Rest(t)))[Rest(t)]
      BY <1>2, <2>1, <3>1, <3>2
    <3> QED BY <3>1, <3>3
  <2> HIDE DEF F
  <2> QED BY <2>2, <2>3 DEF Framing
<1>4. IsFrames(F)
  <2>1. F = [t \in Seq(Bytes) |-> F[t]]
    OBVIOUS
  <2>2. \A t \in Seq(Bytes) :
          F[t] = IF Len(t) < 2 \/ Len(t) < 2 + DataLength(t) THEN << >>
                 ELSE <<[op |-> t[1], data |-> SubSeq(t, 3, 2 + DataLength(t))]>>
                      \o F[SubSeq(t, 3 + DataLength(t), Len(t))]
    BY <1>3 DEF Framing, Whole, First, Rest
  <2> HIDE DEF F
  <2> QED BY <2>1, <2>2
<1> HIDE DEF F
<1>5. IsFrames(CHOOSE f : IsFrames(f))
  BY <1>4
<1>6. Frames = CHOOSE f : IsFrames(f)
  BY DEF Frames
<1>7. IsFrames(Frames)
  BY <1>5, <1>6
<1>8. \A t \in Seq(Bytes) : Frames[t] = Framing(Frames, t)
  BY <1>7 DEF Framing, Whole, First, Rest
<1>9. Frames[s] = F[s]
  <2>1. FramesUpto(Frames, Len(s)) /\ FramesUpto(F, Len(s)) /\ s \in Upto(Len(s))
        /\ Len(s) \in Nat
    BY <1>3, <1>8, LenProperties DEF FramesUpto, Upto
  <2> QED BY <2>1, FramingUnique
<1> QED BY <1>3, <1>8, <1>9

(* A packet in front of other bytes is the first that they stand for.      *)
LEMMA PacketFirst ==
  ASSUME NEW op \in Bytes, NEW n \in Bytes, NEW d \in Seq(Bytes),
         Len(d) = IF n > MaxLength THEN 0 ELSE n, NEW w \in Seq(Bytes)
  PROVE  Frames[(<<op, n>> \o d) \o w] = <<[op |-> op, data |-> d]>> \o Frames[w]
<1> DEFINE h == <<op, n>> \o d
           s == h \o w
           m == Len(d)
<1>1. m \in Nat /\ Len(w) \in Nat /\ <<op, n>> \in Seq(Bytes) /\ Len(<<op, n>>) = 2
  BY LenProperties
<1>2. /\ h \in Seq(Bytes) /\ Len(h) = 2 + m
      /\ \A i \in 1 .. 2 + m : h[i] = IF i <= 2 THEN <<op, n>>[i] ELSE d[i - 2]
  BY <1>1, ConcatProperties
<1> HIDE DEF h
<1>3. /\ s \in Seq(Bytes) /\ Len(s) = 2 + m + Len(w)
      /\ \A i \in 1 .. 2 + m + Len(w) : s[i] = IF i <= 2 + m THEN h[i] ELSE w[i - (2 + m)]
  <2>1. /\ s \in Seq(Bytes) /\ Len(s) = Len(h) + Len(w)
        /\ \A i \in 1 .. Len(h) + Len(w) : s[i] = IF i <= Len(h) THEN h[i] ELSE w[i - Len(h)]
    BY <1>2, ConcatProperties
  <2> HIDE DEF s, m
  <2> QED BY <1>2, <2>1
<1> HIDE DEF s
<1>4. s[1] = op /\ s[2] = n
  <2> HIDE DEF m
  <2>1. h[1] = <<op, n>>[1] /\ h[2] = <<op, n>>[2]
    BY <1>1, <1>2
  <2>2. s[1] = h[1] /\ s[2] = h[2]
    BY <1>1, <1>3
  <2> QED BY <2>1, <2>2
<1>5. DataLength(s) = m
  BY <1>4 DEF DataLength
<1>6. Whole(s)
  BY <1>1, <1>3, <1>5 DEF Whole
<1> HIDE DEF m
<1>7. SubSeq(s, 3, 2 + m) = d
  <2>1. \A i \in 3 .. 2 + m : s[i] \in Bytes
    BY <1>1, <1>3
  <2>2. /\ SubSeq(s, 3, 2 + m) \in Seq(Bytes)
        /\ Len(SubSeq(s, 3, 2 + m)) = IF 3 <= 2 + m THEN (2 + m) - 3 + 1 ELSE 0
        /\ \A i \in 1 .. (2 + m) - 3 + 1 : SubSeq(s, 3, 2 + m)[i] = s[3 + i - 1]
    BY <1>1, <2>1, SubSeqProperties
  <2> DEFINE e == SubSeq(s, 3, 2 + m)
  <2> HIDE DEF e
  <2>3. e \in Seq(Bytes) /\ Len(e) = m
    BY <1>1, <2>2 DEF e
  <2>4. ASSUME NEW i \in 1 .. m PROVE e[i] = d[i]
    <3>1. e[i] = s[3 + i - 1] /\ 3 + i - 1 = i + 2
      BY <1>1, <2>2 DEF e
    <3>2. i + 2 \in 1 .. 2 + m + Len(w) /\ i + 2 <= 2 + m /\ i + 2 \in 1 .. 2 + m /\ ~(i + 2 <= 2)
          /\ (i + 2) - 2 = i
      BY <1>1
    <3> QED BY <1>2, <1>3, <3>1, <3>2
  <2>5. e = d
    BY <2>3, <2>4, SeqEqual DEF m
  <2> QED BY <2>5 DEF e
<1>8. SubSeq(s, 3 + m, Len(s)) = w
  <2> DEFINE e == SubSeq(s, 3 + m, Len(s))
             k == Len(w)
  <2>1. k \in Nat /\ Len(s) = 2 + m + k
    BY <1>1, <1>3
  <2>2. \A i \in 3 + m .. Len(s) : s[i] \in Bytes
    BY <1>1, <1>3
  <2>3. /\ e \in Seq(Bytes)
        /\ Len(e) = IF 3 + m <= Len(s) THEN Len(s) - (3 + m) + 1 ELSE 0
        /\ \A i \in 1 .. Len(s) - (3 + m) + 1 : e[i] = s[3 + m + i - 1]
    BY <1>1, <2>1, <2>2, SubSeqProperties
  <2> HIDE DEF e, k
  <2>4. Len(e) = k /\ Len(s) - (3 + m) + 1 = k
    BY <1>1, <2>1, <2>3
  <2>5. ASSUME NEW i \in 1 .. k PROVE e[i] = w[i]
    <3>1. e[i] = s[3 + m + i - 1] /\ 3 + m + i - 1 = i + 2 + m
      BY <1>1, <2>1, <2>3, <2>4
    <3>2. i + 2 + m \in 1 .. 2 + m + Len(w) /\ ~(i + 2 + m <= 2 + m) /\ (i + 2 + m) - (2 + m) = i
      BY <1>1, <2>1 DEF k
    <3> QED BY <1>3, <3>1, <3>2
  <2>6. e = w
    BY <2>3, <2>4, <2>5, SeqEqual DEF k
  <2> QED BY <2>6 DEF e
<1>9. Frames[s] = <<First(s)>> \o Frames[Rest(s)]
  BY <1>3, <1>6, FramesEquation DEF Framing
<1>10. First(s) = [op |-> op, data |-> d] /\ Rest(s) = w
  BY <1>4, <1>5, <1>7, <1>8 DEF First, Rest
<1> QED BY <1>9, <1>10 DEF s, h

-----------------------------------------------------------------------------
(* The invariant: the bytes written are those of packets the unit has got, *)
(* those from which getCommand is building a packet, and those in inChar.  *)
(* The first stand for the packets got whatever comes after them.          *)
BytesOf(q) == [i \in 1 .. Len(q) |-> q[i].byte]
Begun == CASE commandState = "Type"   -> << >>
           [] commandState = "Length" -> <<command.op>>
           [] OTHER -> <<command.op, command.length>>
                       \o [i \in 1 .. commandCount |-> command.data[i - 1]]
Got == taken \o [i \in 1 .. Len(commands) |-> PacketOf(commands[i])]

StandFor(u, got) == \A w \in Seq(Bytes) : Frames[u \o w] = got \o Frames[w]
Consumed(u) == u \in Seq(Bytes) /\ StandFor(u, Got)
FramesInv ==
  /\ commandState = "Data" => command.length \in Bytes \ {0}
  /\ \E u : Consumed(u) /\ written = (u \o Begun) \o BytesOf(inChar)

LEMMA BytesAre ==
  ASSUME NEW q \in Seq(Labels)
  PROVE  /\ BytesOf(q) \in Seq(Bytes) /\ Len(BytesOf(q)) = Len(q)
         /\ \A i \in 1 .. Len(q) : BytesOf(q)[i] = q[i].byte
<1>1. Len(q) \in Nat /\ \A i \in 1 .. Len(q) : q[i].byte \in Bytes
  <2>1. Len(q) \in Nat /\ \A i \in 1 .. Len(q) : q[i] \in Labels
    BY LenProperties
  <2> QED BY <2>1 DEF Labels
<1>2. [i \in 1 .. Len(q) |-> q[i].byte] \in Seq(Bytes)
  BY <1>1
<1> QED BY <1>1, <1>2 DEF BytesOf

(* Bytes and packets that the parts of the invariant are made of.          *)
LEMMA BytesInvolved ==
  ASSUME InputInv, FramesInv
  PROVE  /\ Begun \in Seq(Bytes) /\ BytesOf(inChar) \in Seq(Bytes) /\ Got \in Seq(Packets)
         /\ Len(BytesOf(inChar)) = Len(inChar)
<1>1. /\ inChar \in Seq(Labels) /\ commandState \in States /\ commandCount \in Nat
      /\ command \in Messages /\ commands \in Seq(Messages) /\ taken \in Seq(Packets)
      /\ commandState = "Data" => commandCount < command.length
      /\ Len(commands) <= 1 /\ MaxLength \in Nat
  BY DepthAssumption DEF InputInv, InputTypes
<1>2. BytesOf(inChar) \in Seq(Bytes) /\ Len(BytesOf(inChar)) = Len(inChar)
  BY <1>1, BytesAre
<1>3. Begun \in Seq(Bytes)
  <2>1. CASE commandState = "Type"
    BY <2>1 DEF Begun
  <2>2. CASE commandState = "Length"
    BY <2>2 DEF Begun, InputInv, CommandWritten
  <2>3. CASE commandState = "Data"
    <3> DEFINE d == [i \in 1 .. commandCount |-> command.data[i - 1]]
    <3>1. /\ command.op \in Bytes /\ command.length \in Bytes
          /\ \A k \in 0 .. commandCount - 1 : command.data[k] \in Bytes
      BY <2>3 DEF InputInv, CommandWritten, FramesInv
    <3>2. \A i \in 1 .. commandCount : command.data[i - 1] \in Bytes
      BY <1>1, <3>1
    <3>3. d \in Seq(Bytes) /\ <<command.op, command.length>> \in Seq(Bytes)
      BY <1>1, <3>1, <3>2
    <3> HIDE DEF d
    <3>4. <<command.op, command.length>> \o d \in Seq(Bytes)
      BY <3>3, ConcatProperties
    <3> QED BY <2>3, <3>4 DEF Begun, d
  <2> QED BY <1>1, <2>1, <2>2, <2>3 DEF States
<1>4. Got \in Seq(Packets)
  <2> DEFINE g == [i \in 1 .. Len(commands) |-> PacketOf(commands[i])]
  <2>1. ASSUME NEW i \in 1 .. Len(commands) PROVE PacketOf(commands[i]) \in Packets
    <3>1. i = 1 /\ commands # << >> /\ commands[1] \in Messages
      BY <1>1
    <3>2. /\ commands[1].op \in Bytes /\ commands[1].length \in Nat
          /\ \A k \in 0 .. commands[1].length - 1 : commands[1].data[k] \in Bytes
      BY <1>1, <3>1 DEF InputInv, CommandWritten, Messages
    <3>3. \A k \in 1 .. commands[1].length : commands[1].data[k - 1] \in Bytes
      BY <3>2
    <3>4. [k \in 1 .. commands[1].length |-> commands[1].data[k - 1]] \in Seq(Bytes)
      BY <3>2, <3>3
    <3> QED BY <3>1, <3>2, <3>4 DEF PacketOf, Packets
  <2>2. g \in Seq(Packets)
    BY <1>1, <2>1
  <2> HIDE DEF g
  <2>3. taken \o g \in Seq(Packets)
    BY <1>1, <2>2, ConcatProperties
  <2> QED BY <2>3 DEF Got, g
<1> QED BY <1>2, <1>3, <1>4

LEMMA JoinedPackets ==
  ASSUME NEW a \in Seq(Packets), NEW b \in Seq(Packets), NEW c \in Seq(Packets)
  PROVE  (a \o b) \o c = a \o (b \o c)
BY ConcatAssociative

(* Another packet after those that bytes stand for.                        *)
LEMMA StandForMore ==
  ASSUME NEW u \in Seq(Bytes), NEW got \in Seq(Packets), StandFor(u, got),
         NEW op \in Bytes, NEW n \in Bytes, NEW d \in Seq(Bytes),
         Len(d) = IF n > MaxLength THEN 0 ELSE n
  PROVE  /\ u \o (<<op, n>> \o d) \in Seq(Bytes)
         /\ StandFor(u \o (<<op, n>> \o d), got \o <<[op |-> op, data |-> d]>>)
<1> DEFINE x == <<op, n>> \o d
           p == [op |-> op, data |-> d]
<1>1. x \in Seq(Bytes) /\ u \o x \in Seq(Bytes) /\ <<p>> \in Seq(Packets)
  <2>1. <<op, n>> \in Seq(Bytes) /\ p \in Packets
    BY DEF Packets
  <2> QED BY <2>1, ConcatProperties
<1>2. ASSUME NEW w \in Seq(Bytes)
      PROVE  Frames[(u \o x) \o w] = (got \o <<p>>) \o Frames[w]
  <2>1. Frames[x \o w] = <<p>> \o Frames[w]
    BY PacketFirst
  <2> HIDE DEF x, p
  <2>2. x \o w \in Seq(Bytes) /\ Frames[w] \in Seq(Packets)
    BY <1>1, ConcatProperties, FramesEquation
  <2>3. Frames[u \o (x \o w)] = got \o Frames[x \o w]
    BY <2>2 DEF StandFor
  <2>4. (u \o x) \o w = u \o (x \o w)
    BY <1>1, ConcatAssociative
  <2>5. got \o (<<p>> \o Frames[w]) = (got \o <<p>>) \o Frames[w]
    <3> DEFINE f == Frames[w]
               q == <<p>>
    <3>1. q \in Seq(Packets) /\ f \in Seq(Packets)
      BY <1>1, <2>2
    <3> HIDE DEF f, q
    <3>2. (got \o q) \o f = got \o (q \o f)
      BY <3>1, JoinedPackets
    <3> QED BY <3>2 DEF f, q
  <2> QED BY <2>1, <2>3, <2>4, <2>5
<1> HIDE DEF x, p
<1>3. StandFor(u \o x, got \o <<p>>)
  BY <1>2 DEF StandFor
<1> QED BY <1>1, <1>3 DEF x, p

LEMMA FramesInit == Init => FramesInv
<1> SUFFICES ASSUME Init PROVE FramesInv
  OBVIOUS
<1>1. Begun = << >> /\ BytesOf(inChar) = << >> /\ Got = << >> /\ written = << >>
  <2>1. << >> \o << >> = << >>
    BY ConcatEmptySeq, EmptySeq
  <2>2. [i \in 1 .. Len(commands) |-> PacketOf(commands[i])] = << >>
        /\ [i \in 1 .. Len(inChar) |-> inChar[i].byte] = << >>
    BY DEF Init
  <2> QED BY <2>1, <2>2 DEF Init, Begun, BytesOf, Got
<1>2. StandFor(<< >>, << >>)
  BY ConcatEmptySeq, FramesEquation DEF StandFor
<1>3. << >> = (<< >> \o << >>) \o << >>
  BY ConcatEmptySeq, EmptySeq
<1> QED BY <1>1, <1>2, <1>3, EmptySeq DEF FramesInv, Consumed, Init

(* A byte is sent.                                                         *)
LEMMA FramesSend ==
  ASSUME InputInv, FramesInv, NEW l \in Labels,
         inChar' = Append(inChar, l), written' = Append(written, l.byte),
         UNCHANGED <<commandState, commandCount, command, commands, taken>>
  PROVE  FramesInv'
<1>1. PICK u : Consumed(u) /\ written = (u \o Begun) \o BytesOf(inChar)
  BY DEF FramesInv
<1>2. Begun' = Begun /\ Got' = Got
  BY DEF Begun, Got
<1>3. Begun \in Seq(Bytes) /\ BytesOf(inChar) \in Seq(Bytes) /\ u \in Seq(Bytes)
  BY <1>1, BytesInvolved DEF Consumed
<1>4. l.byte \in Bytes /\ inChar \in Seq(Labels)
  BY DEF Labels, InputInv, InputTypes
<1>5. BytesOf(inChar') = Append(BytesOf(inChar), l.byte)
  <2>1. /\ inChar' \in Seq(Labels) /\ Len(inChar') = Len(inChar) + 1 /\ Len(inChar) \in Nat
        /\ \A i \in 1 .. Len(inChar) : inChar'[i] = inChar[i]
        /\ inChar'[Len(inChar) + 1] = l
    BY <1>4, AppendProperties, LenProperties
  <2>2. /\ BytesOf(inChar') \in Seq(Bytes) /\ Len(BytesOf(inChar')) = Len(inChar) + 1
        /\ \A i \in 1 .. Len(inChar) + 1 : BytesOf(inChar')[i] = inChar'[i].byte
        /\ \A i \in 1 .. Len(inChar) : BytesOf(inChar)[i] = inChar[i].byte
        /\ Len(BytesOf(inChar)) = Len(inChar)
    BY <1>3, <1>4, <2>1 DEF BytesOf, Labels
  <2> DEFINE a == BytesOf(inChar)
             b == BytesOf(inChar')
             c == Append(a, l.byte)
             n == Len(inChar)
  <2> HIDE DEF a, b
  <2>3. /\ c \in Seq(Bytes) /\ Len(c) = n + 1
        /\ \A i \in 1 .. n : c[i] = a[i]
        /\ c[n + 1] = l.byte
    BY <1>3, <1>4, <2>2, AppendProperties DEF a
  <2> HIDE DEF c
  <2>4. ASSUME NEW i \in 1 .. n + 1 PROVE b[i] = c[i]
    <3>1. CASE i = n + 1
      BY <2>1, <2>2, <2>3, <3>1 DEF b
    <3>2. CASE i # n + 1
      <4>1. i \in 1 .. n
        BY <2>1, <3>2
      <4> QED BY <2>1, <2>2, <2>3, <4>1 DEF a, b
    <3> QED BY <3>1, <3>2
  <2>5. b = c
    BY <2>2, <2>3, <2>4, SeqEqual DEF b
  <2> QED BY <2>5 DEF a, b, c
<1>6. written' = (u \o Begun) \o BytesOf(inChar')
  <2> DEFINE a == u \o Begun
             q == BytesOf(inChar)
             b == l.byte
  <2>1. a \in Seq(Bytes) /\ q \in Seq(Bytes) /\ b \in Bytes /\ <<b>> \in Seq(Bytes)
        /\ a \o q \in Seq(Bytes)
    BY <1>3, <1>4, ConcatProperties
  <2>2. written' = Append(a \o q, b) /\ BytesOf(inChar') = Append(q, b)
    BY <1>1, <1>5
  <2> HIDE DEF a, q, b
  <2>3. Append(a \o q, b) = (a \o q) \o <<b>> /\ Append(q, b) = q \o <<b>>
    BY <2>1, AppendIsConcat
  <2>4. (a \o q) \o <<b>> = a \o (q \o <<b>>)
    BY <2>1, ConcatAssociative
  <2> QED BY <2>2, <2>3, <2>4 DEF a
<1>7. Consumed(u)'
  BY <1>1, <1>2 DEF Consumed, StandFor
<1> QED BY <1>2, <1>6, <1>7 DEF FramesInv

(* getCommand reads a byte: it is added to those of the packet it builds,  *)
(* and when that is whole they belong to the packets got.                  *)
LEMMA FramesGet ==
  ASSUME InputInv, InputInv', FramesInv, CanGet, inChar' = Tail(inChar),
         GetType \/ GetLength \/ GetData, UNCHANGED <<taken, written>>
  PROVE  FramesInv'
<1>1. PICK u : Consumed(u) /\ written = (u \o Begun) \o BytesOf(inChar)
  BY DEF FramesInv
<1>2. /\ Begun \in Seq(Bytes) /\ BytesOf(inChar) \in Seq(Bytes) /\ u \in Seq(Bytes)
      /\ Got \in Seq(Packets)
  BY <1>1, BytesInvolved DEF Consumed
<1>3. inChar \in Seq(Labels) /\ inChar # << >> /\ commands = << >> /\ InputTypes /\ InputTypes'
      /\ MaxLength \in Nat
  BY DepthAssumption DEF InputInv, InputTypes, CanGet
<1>4. char \in Bytes /\ char \in Nat /\ <<char>> \in Seq(Bytes)
  <2>1. char \in Bytes
    BY <1>3, ByteRead
  <2> QED BY <2>1, ByteAssumption
<1>5. BytesOf(inChar) = <<char>> \o BytesOf(inChar') /\ BytesOf(inChar') \in Seq(Bytes)
  <2> DEFINE t == Tail(inChar)
  <2>1. /\ t \in Seq(Labels) /\ Len(t) = Len(inChar) - 1 /\ Len(inChar) \in Nat /\ Len(inChar) > 0
        /\ \A i \in 1 .. Len(t) : t[i] = inChar[i + 1]
    BY <1>3, HeadTailProperties, EmptySeq
  <2>2. char = inChar[1].byte
    BY <1>3 DEF char
  <2> HIDE DEF t
  <2> DEFINE a == BytesOf(inChar)
             b == BytesOf(t)
             c == <<char>> \o b
  <2>3. /\ b \in Seq(Bytes) /\ Len(b) = Len(t) /\ \A i \in 1 .. Len(t) : b[i] = t[i].byte
        /\ Len(a) = Len(inChar) /\ \A i \in 1 .. Len(inChar) : a[i] = inChar[i].byte
    BY <1>3, <2>1, BytesAre
  <2>4. a \in Seq(Bytes)
    BY <1>2
  <2> HIDE DEF a, b
  <2>5. /\ c \in Seq(Bytes) /\ Len(c) = 1 + Len(t)
        /\ \A i \in 1 .. 1 + Len(t) : c[i] = IF i <= 1 THEN <<char>>[i] ELSE b[i - 1]
    BY <1>4, <2>3, ConcatProperties
  <2> HIDE DEF c
  <2>6. ASSUME NEW i \in 1 .. Len(inChar) PROVE a[i] = c[i]
    <3>1. CASE i = 1
      BY <2>1, <2>2, <2>3, <2>5, <3>1
    <3>2. CASE i # 1
      <4>1. i - 1 \in 1 .. Len(t) /\ i \in 1 .. 1 + Len(t) /\ ~(i <= 1) /\ (i - 1) + 1 = i
        BY <2>1, <3>2
      <4> QED BY <2>1, <2>3, <2>5, <4>1
    <3> QED BY <3>1, <3>2
  <2>7. a = c
    BY <2>1, <2>3, <2>4, <2>5, <2>6, SeqEqual
  <2> QED BY <2>3, <2>7 DEF a, b, c, t
<1> DEFINE z == BytesOf(inChar')
<1>6. z \in Seq(Bytes)
  BY <1>5
<1> HIDE DEF z
<1>7. written' = (u \o (Begun \o <<char>>)) \o z
  <2>1. written' = (u \o Begun) \o (<<char>> \o z)
    BY <1>1, <1>5 DEF z
  <2>2. u \o Begun \in Seq(Bytes) /\ Begun \o <<char>> \in Seq(Bytes)
    BY <1>2, <1>4, ConcatProperties
  <2>3. (u \o Begun) \o (<<char>> \o z) = ((u \o Begun) \o <<char>>) \o z
    BY <1>4, <1>6, <2>2, ConcatAssociative
  <2>4. (u \o Begun) \o <<char>> = u \o (Begun \o <<char>>)
    BY <1>2, <1>4, ConcatAssociative
  <2> QED BY <2>1, <2>3, <2>4
<1>8. ASSUME Begun' = Begun \o <<char>>, commands' = << >>,
             commandState' = "Data" => command'.length \in Bytes \ {0}
      PROVE  FramesInv'
  <2>1. Got' = Got
    BY <1>3, <1>8 DEF Got
  <2>2. Consumed(u)'
    BY <1>1, <2>1 DEF Consumed, StandFor
  <2> QED BY <1>7, <1>8, <2>2 DEF FramesInv, z
<1>9. ASSUME commandState' = "Type", commands' = <<command'>>,
             NEW op \in Bytes, NEW n \in Bytes, NEW d \in Seq(Bytes),
             Len(d) = IF n > MaxLength THEN 0 ELSE n,
             PacketOf(command') = [op |-> op, data |-> d],
             Begun \o <<char>> = <<op, n>> \o d
      PROVE  FramesInv'
  <2>0. PICK v : v = u \o (Begun \o <<char>>)
    OBVIOUS
  <2>1. Got' = Got \o <<[op |-> op, data |-> d]>>
    <3>1. Got = taken
      <4>1. [i \in 1 .. Len(commands) |-> PacketOf(commands[i])] = << >>
        BY <1>3
      <4>2. taken \o << >> = taken
        BY <1>3, ConcatEmptySeq DEF InputTypes
      <4> QED BY <4>1, <4>2 DEF Got
    <3>2. Len(commands') = 1 /\ commands'[1] = command'
      BY <1>9
    <3>3. [i \in 1 .. Len(commands') |-> PacketOf(commands'[i])] = <<PacketOf(command')>>
      BY <3>2
    <3> QED BY <1>9, <3>1, <3>3 DEF Got
  <2>2. v \in Seq(Bytes) /\ StandFor(v, Got')
    <3>1. StandFor(u, Got)
      BY <1>1 DEF Consumed
    <3>2. /\ u \o (<<op, n>> \o d) \in Seq(Bytes)
          /\ StandFor(u \o (<<op, n>> \o d), Got \o <<[op |-> op, data |-> d]>>)
      BY <1>2, <1>9, <3>1, StandForMore
    <3> QED BY <1>9, <2>0, <2>1, <3>2
  <2>3. Consumed(v)'
    BY <2>2 DEF Consumed, StandFor
  <2>4. v \o Begun' = v
    BY <1>9, <2>2, ConcatEmptySeq DEF Begun
  <2>5. written' = (v \o Begun') \o BytesOf(inChar')
    BY <1>7, <2>0, <2>4 DEF z
  <2> QED BY <1>9, <2>3, <2>5 DEF FramesInv
<1>10. CASE GetType
  <2>1. Begun = << >> /\ Begun' = <<char>> /\ commands' = << >> /\ commandState' = "Length"
    BY <1>3, <1>10 DEF GetType, Begun
  <2>2. << >> \o <<char>> = <<char>>
    BY <1>4, ConcatEmptySeq
  <2> QED BY <1>8, <2>1, <2>2
<1>11. CASE GetLength
  <2>1. /\ commandState = "Length" /\ command.op \in Bytes /\ command \in Messages
        /\ Begun = <<command.op>>
    BY <1>3, <1>11 DEF GetLength, InputInv, InputTypes, CommandWritten, Begun
  <2>2. <<command.op>> \o <<char>> = <<command.op, char>>
    BY Pair
  <2>3. <<command.op, char>> \o << >> = <<command.op, char>>
    BY <1>4, <2>1, ConcatEmptySeq
  <2>4. CASE LengthOk(char)
    <3>1. /\ command' = [command EXCEPT !.length = char] /\ commandState' = "Data"
          /\ commandCount' = 0 /\ commands' = << >> /\ char # 0
      BY <1>3, <1>11, <2>4 DEF GetLength, LengthOk
    <3>2. command'.length = char /\ command'.op = command.op
      BY <2>1, <3>1 DEF Messages
    <3>3. [i \in 1 .. commandCount' |-> command'.data[i - 1]] = << >>
      BY <3>1
    <3>4. Begun' = <<command.op, char>> \o << >>
      BY <3>1, <3>2, <3>3 DEF Begun
    <3> QED BY <1>4, <1>8, <2>1, <2>2, <2>3, <3>1, <3>2, <3>4
  <2>5. CASE ~LengthOk(char)
    <3>1. /\ command' = [command EXCEPT !.length = 0] /\ commandState' = "Type"
          /\ commands' = <<command'>>
      BY <1>11, <2>5 DEF GetLength
    <3>2. command'.length = 0 /\ command'.op = command.op
      BY <2>1, <3>1 DEF Messages
    <3>3. PacketOf(command') = [op |-> command.op, data |-> << >>]
      <4>1. [i \in 1 .. 0 |-> command'.data[i - 1]] = << >>
        OBVIOUS
      <4> QED BY <3>2, <4>1 DEF PacketOf
    <3>4. Len(<< >>) = IF char > MaxLength THEN 0 ELSE char
      BY <1>3, <1>4, <2>5 DEF LengthOk
    <3>5. << >> \in Seq(Bytes)
      OBVIOUS
    <3> QED BY <1>4, <1>9, <2>1, <2>2, <2>3, <3>1, <3>3, <3>4, <3>5
  <2> QED BY <2>4, <2>5
<1>12. CASE GetData
  <2> DEFINE c == commandCount
             d == [i \in 1 .. c |-> command.data[i - 1]]
             e == [i \in 1 .. c + 1 |-> command'.data[i - 1]]
  <2>1. /\ commandState = "Data" /\ command.op \in Bytes /\ command \in Messages
        /\ command.length \in Bytes \ {0} /\ command.length \in 0 .. MaxLength
        /\ c \in 0 .. command.length - 1 /\ command.data \in Data
        /\ \A k \in 0 .. c - 1 : command.data[k] \in Bytes
        /\ Begun = <<command.op, command.length>> \o d
    <3>1. commandState = "Data" /\ command \in Messages /\ commandCount \in Nat
          /\ commandCount < command.length
      BY <1>3, <1>12 DEF GetData, InputTypes
    <3>2. command.op \in Bytes /\ \A k \in 0 .. commandCount - 1 : command.data[k] \in Bytes
      BY <3>1 DEF InputInv, CommandWritten
    <3>3. command.length \in Bytes \ {0}
      BY <3>1 DEF FramesInv
    <3>4. command.length \in 0 .. MaxLength /\ command.data \in Data
      BY <3>1 DEF Messages
    <3>5. commandCount \in 0 .. command.length - 1
      BY <1>3, <3>1, <3>4
    <3>6. Begun = <<command.op, command.length>> \o d
      BY <3>1 DEF Begun
    <3> QED BY <3>1, <3>2, <3>3, <3>4, <3>5, <3>6
  <2>2. /\ command' = [command EXCEPT !.data = [command.data EXCEPT ![c] = char]]
        /\ commandCount' = c + 1
    BY <1>12 DEF GetData
  <2>3. /\ command'.length = command.length /\ command'.op = command.op
        /\ command'.data[c] = char
        /\ \A k \in 0 .. c - 1 : command'.data[k] = command.data[k]
    <3> DEFINE f == [command.data EXCEPT ![c] = char]
    <3>1. c \in Slots /\ \A k \in 0 .. c - 1 : k \in Slots /\ k # c
      BY <1>3, <2>1 DEF Slots
    <3>2. f[c] = char /\ \A k \in 0 .. c - 1 : f[k] = command.data[k]
      BY <2>1, <3>1 DEF Data
    <3> HIDE DEF f
    <3>3. command' = [command EXCEPT !.data = f]
      BY <2>2 DEF f
    <3> QED BY <2>1, <3>2, <3>3 DEF Messages
  <2>4. /\ d \in Seq(Bytes) /\ Len(d) = c /\ e \in Seq(Bytes) /\ Len(e) = c + 1
        /\ e = d \o <<char>>
    <3>1. \A i \in 1 .. c : command.data[i - 1] \in Bytes /\ command'.data[i - 1] = command.data[i - 1]
      BY <2>1, <2>3
    <3>2. c \in Nat /\ d \in Seq(Bytes) /\ Len(d) = c /\ \A i \in 1 .. c : d[i] = command.data[i - 1]
      BY <2>1, <3>1
    <3>3. \A i \in 1 .. c + 1 :
            command'.data[i - 1] = IF i <= c THEN command.data[i - 1] ELSE char
      <4> TAKE i \in 1 .. c + 1
      <4>1. i \in 1 .. c \/ (i = c + 1 /\ i - 1 = c)
        BY <3>2
      <4> QED BY <2>3, <3>1, <3>2, <4>1
    <3>4. \A i \in 1 .. c + 1 : command'.data[i - 1] \in Bytes
      BY <1>4, <3>1, <3>2, <3>3
    <3>5. e \in Seq(Bytes) /\ Len(e) = c + 1 /\ \A i \in 1 .. c + 1 : e[i] = command'.data[i - 1]
      BY <3>2, <3>4
    <3> HIDE DEF d, e
    <3>6. /\ d \o <<char>> \in Seq(Bytes) /\ Len(d \o <<char>>) = c + 1
          /\ \A i \in 1 .. c + 1 : (d \o <<char>>)[i] = IF i <= c THEN d[i] ELSE <<char>>[i - c]
      BY <1>4, <3>2, ConcatProperties
    <3>7. ASSUME NEW i \in 1 .. c + 1 PROVE e[i] = (d \o <<char>>)[i]
      <4>1. i \in 1 .. c \/ (i = c + 1 /\ i - c = 1)
        BY <3>2
      <4>2. CASE i \in 1 .. c
        <5>1. e[i] = command.data[i - 1]
          BY <3>3, <3>5, <4>2
        <5>2. (d \o <<char>>)[i] = d[i]
          BY <3>6, <4>2
        <5> QED BY <3>2, <4>2, <5>1, <5>2
      <4>3. CASE i = c + 1 /\ i - c = 1
        <5>1. ~(i <= c)
          BY <3>2, <4>3
        <5>2. e[i] = char
          BY <3>3, <3>5, <5>1
        <5>3. (d \o <<char>>)[i] = <<char>>[1]
          BY <3>6, <4>3, <5>1
        <5> QED BY <5>2, <5>3
      <4> QED BY <4>1, <4>2, <4>3
    <3>8. e = d \o <<char>>
      BY <3>5, <3>6, <3>7, SeqEqual
    <3> QED BY <3>2, <3>5, <3>8
  <2> HIDE DEF d
  <2>5. Begun \o <<char>> = <<command.op, command.length>> \o e
    <3>1. <<command.op, command.length>> \in Seq(Bytes)
      BY <2>1
    <3>2. (<<command.op, command.length>> \o d) \o <<char>>
            = <<command.op, command.length>> \o (d \o <<char>>)
      <4> DEFINE h == <<command.op, command.length>>
                 q == <<char>>
      <4>1. h \in Seq(Bytes) /\ q \in Seq(Bytes) /\ d \in Seq(Bytes)
        BY <1>4, <2>4, <3>1
      <4> HIDE DEF h, q
      <4>2. (h \o d) \o q = h \o (d \o q)
        BY <4>1, Regroup
      <4> QED BY <4>2 DEF h, q
    <3> QED BY <2>1, <2>4, <3>2
  <2>6. CASE c >= command.length - 1
    <3>1. commandState' = "Type" /\ commands' = <<command'>> /\ c + 1 = command.length
      BY <1>12, <2>1, <2>6 DEF GetData
    <3>2. PacketOf(command') = [op |-> command.op, data |-> e]
      BY <2>3, <3>1 DEF PacketOf
    <3> HIDE DEF e
    <3>3. Len(e) = IF command.length > MaxLength THEN 0 ELSE command.length
      BY <1>3, <2>1, <2>4, <3>1
    <3> QED BY <1>9, <2>1, <2>4, <2>5, <3>1, <3>2, <3>3
  <2>7. CASE ~(c >= command.length - 1)
    <3>1. commandState' = "Data" /\ commands' = << >>
      BY <1>3, <1>12, <2>7 DEF GetData
    <3>2. Begun' = <<command.op, command.length>> \o e
      BY <2>2, <2>3, <3>1 DEF Begun
    <3> QED BY <1>8, <2>1, <2>3, <2>5, <3>1, <3>2
  <2> QED BY <2>6, <2>7
<1> QED BY <1>10, <1>11, <1>12

(* The unit takes a packet.                                                *)
LEMMA FramesTake ==
  ASSUME InputInv, FramesInv, Take
  PROVE  FramesInv'
<1>1. /\ commands \in Seq(Messages) /\ Len(commands) <= 1 /\ commands # << >>
      /\ taken \in Seq(Packets)
      /\ commands' = << >> /\ taken' = Append(taken, PacketOf(Head(commands)))
      /\ UNCHANGED <<inChar, commandState, commandCount, command, written>>
  BY DEF InputInv, InputTypes, Take
<1> DEFINE p == PacketOf(commands[1])
<1>2. Len(commands) = 1 /\ Head(commands) = commands[1]
  <2>1. Len(commands) \in Nat \ {0}
    BY <1>1, EmptySeq
  <2>2. Len(commands) <= 1
    BY <1>1
  <2>3. \A n \in Nat \ {0} : n <= 1 => n = 1
    OBVIOUS
  <2>4. Len(commands) = 1
    BY <2>1, <2>2, <2>3, Zenon
  <2> QED BY <1>1, <2>4
<1>3. [i \in 1 .. Len(commands) |-> PacketOf(commands[i])] = <<p>>
      /\ [i \in 1 .. Len(commands') |-> PacketOf(commands'[i])] = << >>
  BY <1>1, <1>2
<1>4. Got = taken \o <<p>> /\ Got' = Append(taken, p) \o << >>
  BY <1>1, <1>2, <1>3 DEF Got
<1>5. Got \in Seq(Packets)
  BY BytesInvolved
<1>6. Append(taken, p) = taken \o <<p>>
  <2> HIDE DEF p
  <2>1. \A S : taken \in Seq(S) /\ p \in S => Append(taken, p) = taken \o <<p>>
    BY AppendIsConcat
  <2>2. taken \in Seq(Packets \cup {p})
    BY <1>1, SeqMonotonic
  <2> QED BY <2>1, <2>2
<1>7. Got' = Got
  BY <1>4, <1>5, <1>6, ConcatEmptySeq
<1>8. PICK u : Consumed(u) /\ written = (u \o Begun) \o BytesOf(inChar)
  BY DEF FramesInv
<1>9. Begun' = Begun
  BY <1>1 DEF Begun
<1>10. Consumed(u)' /\ written' = (u \o Begun') \o BytesOf(inChar')
  BY <1>1, <1>7, <1>8, <1>9 DEF Consumed, StandFor
<1> QED BY <1>1, <1>10 DEF FramesInv

LEMMA FramesSame ==
  ASSUME FramesInv, UNCHANGED input
  PROVE  FramesInv'
BY DEF FramesInv, Consumed, StandFor, Begun, BytesOf, Got, input

LEMMA FramesNext == ConvertInv /\ ConvertInv' /\ FramesInv /\ [Next]_vars => FramesInv'
<1> SUFFICES ASSUME ConvertInv, ConvertInv', FramesInv, [Next]_vars PROVE FramesInv'
  OBVIOUS
<1> USE DEF ConvertInv
<1>1. CASE Send
  <2>1. UNCHANGED <<commandState, commandCount, command, commands, taken>>
    BY <1>1 DEF Send
  <2>2. InputTypes /\ asked \in Seq(Requests) /\ Len(asked) \in Nat /\ asking \in Nat
    BY LenProperties DEF InputInv, InputTypes
  <2>3. CASE Boundary
    <3>1. PICK p \in Requests : /\ inChar' = Append(inChar, Labelled(p.op, Len(asked) + 1, 1))
                                /\ written' = Append(written, p.op)
      BY <1>1, <2>3 DEF Send
    <3>2. p.op \in Bytes
      BY KnownPacket DEF Packets
    <3> DEFINE l == Labelled(p.op, Len(asked) + 1, 1)
    <3>3. l \in Labels /\ l.byte = p.op
      BY <2>2, <3>2 DEF Labels, Labelled
    <3> HIDE DEF l
    <3>4. inChar' = Append(inChar, l) /\ written' = Append(written, l.byte)
      BY <3>1, <3>3 DEF l
    <3> QED BY <2>1, <3>3, <3>4, FramesSend
  <2>4. CASE ~Boundary
    <3> DEFINE b == Wire(current)[asking + 1]
               l == Labelled(b, Len(asked), asking + 1)
    <3>1. inChar' = Append(inChar, l) /\ written' = Append(written, b)
      BY <1>1, <2>4 DEF Send
    <3>2. asked # << >> /\ Len(asked) \in 1 .. Len(asked) /\ current = asked[Len(asked)]
      BY <2>2, <2>4, EmptySeq DEF Boundary, current
    <3>3. asking \in 1 .. Len(Wire(current)) /\ asking # Len(Wire(current))
          /\ Len(Wire(current)) \in Nat
      BY <2>2, <2>4, <3>2, AskedPackets DEF InputInv, AskingOk, Boundary
    <3>4. asking + 1 \in 1 .. Len(Wire(current))
      BY <3>3
    <3>5. b \in Bytes
      BY <2>2, <3>2, <3>4, AskedPackets
    <3> HIDE DEF b
    <3>6. l \in Labels /\ l.byte = b
      BY <2>2, <3>2, <3>5 DEF Labels, Labelled
    <3> HIDE DEF l
    <3> QED BY <2>1, <3>1, <3>6, FramesSend
  <2> QED BY <2>3, <2>4
<1>2. CASE getCommand
  BY <1>2, FramesGet DEF getCommand
<1>3. CASE Take
  BY <1>3, FramesTake
<1>4. CASE Put
  BY <1>4, FramesSame DEF Put
<1>5. CASE deliverResponse
  BY <1>5, FramesSame DEF deliverResponse
<1>6. CASE Hear
  BY <1>6, FramesSame DEF Hear
<1>7. CASE UNCHANGED vars
  BY <1>7, FramesSame DEF vars
<1> QED BY <1>1, <1>2, <1>3, <1>4, <1>5, <1>6, <1>7 DEF Next

LEMMA FramesAlways == Spec => []FramesInv
BY FramesInit, FramesNext, InvAlways, PTL DEF Spec

(* The bytes read: those of packets got and of the one being built.        *)
LEMMA BytesRead ==
  ASSUME ConvertInv, FramesInv
  PROVE  written \in Seq(Bytes) /\ BytesAreFramed
<1>1. PICK u : Consumed(u) /\ written = (u \o Begun) \o BytesOf(inChar)
  BY DEF FramesInv
<1>2. /\ Begun \in Seq(Bytes) /\ BytesOf(inChar) \in Seq(Bytes) /\ u \in Seq(Bytes)
      /\ Got \in Seq(Packets) /\ Len(BytesOf(inChar)) = Len(inChar)
  BY <1>1, BytesInvolved DEF Consumed, ConvertInv
<1> DEFINE a == u \o Begun
           q == BytesOf(inChar)
<1>3. a \in Seq(Bytes) /\ q \in Seq(Bytes)
  BY <1>2, ConcatProperties
<1>4. written = a \o q /\ Len(q) = Len(inChar)
  BY <1>1, <1>2
<1> HIDE DEF a, q
<1>5. /\ written \in Seq(Bytes) /\ Len(written) = Len(a) + Len(q)
      /\ \A i \in 1 .. Len(a) : written[i] = a[i]
      /\ Len(a) \in Nat /\ Len(q) \in Nat
  <2>1. Len(a) \in Nat /\ Len(q) \in Nat
    BY <1>3, LenProperties
  <2>2. /\ a \o q \in Seq(Bytes) /\ Len(a \o q) = Len(a) + Len(q)
        /\ \A i \in 1 .. Len(a) + Len(q) : (a \o q)[i] = IF i <= Len(a) THEN a[i] ELSE q[i - Len(a)]
    BY <1>3, ConcatProperties
  <2>3. \A i \in 1 .. Len(a) : (a \o q)[i] = a[i]
    BY <2>1, <2>2
  <2> QED BY <1>4, <2>1, <2>2, <2>3
<1>6. Read = a
  <2>1. Read = SubSeq(written, 1, Len(a))
    BY <1>4, <1>5 DEF Read
  <2>2. \A i \in 1 .. Len(a) : written[i] \in Bytes
    BY <1>3, <1>5
  <2>3. /\ Read \in Seq(Bytes) /\ Len(Read) = IF 1 <= Len(a) THEN Len(a) - 1 + 1 ELSE 0
        /\ \A i \in 1 .. Len(a) - 1 + 1 : Read[i] = written[1 + i - 1]
    BY <1>5, <2>1, <2>2, SubSeqProperties
  <2>4. Len(Read) = Len(a) /\ \A i \in 1 .. Len(a) : Read[i] = a[i]
    BY <1>5, <2>3
  <2> QED BY <1>3, <2>3, <2>4, SeqEqual
<1>7. Frames[Read] = Got \o Frames[Begun]
  BY <1>1, <1>2, <1>6 DEF Consumed, StandFor, a
<1>8. Frames[Begun] = << >>
  <2>1. ~Whole(Begun)
    <3>1. /\ commandState \in States /\ commandCount \in Nat /\ command \in Messages
          /\ commandState = "Data" => commandCount < command.length
          /\ MaxLength \in Nat
      BY DepthAssumption DEF ConvertInv, InputInv, InputTypes
    <3>2. CASE commandState # "Data"
      BY <3>1, <3>2 DEF Begun, Whole, States
    <3>3. CASE commandState = "Data"
      <4> DEFINE h == <<command.op, command.length>>
                 d == [i \in 1 .. commandCount |-> command.data[i - 1]]
                 S == Bytes \cup {command.op, command.length}
                          \cup {command.data[i - 1] : i \in 1 .. commandCount}
      <4>1. h \in Seq(S) /\ Len(h) = 2 /\ d \in Seq(S) /\ Len(d) = commandCount
        <5>1. \A i \in 1 .. commandCount : command.data[i - 1] \in S
          OBVIOUS
        <5>2. command.op \in S /\ command.length \in S
          OBVIOUS
        <5> HIDE DEF S
        <5> QED BY <3>1, <5>1, <5>2
      <4>2. Begun = h \o d
        BY <3>3 DEF Begun
      <4>3. h[1] = command.op /\ h[2] = command.length
        OBVIOUS
      <4> HIDE DEF h, d, S
      <4>4. Len(Begun) = 2 + commandCount /\ Begun[2] = command.length
        <5>1. /\ Len(h \o d) = Len(h) + Len(d)
              /\ \A i \in 1 .. Len(h) + Len(d) : (h \o d)[i] = IF i <= Len(h) THEN h[i] ELSE d[i - Len(h)]
          BY <4>1, ConcatProperties
        <5>2. (h \o d)[2] = h[2]
          BY <3>1, <4>1, <5>1
        <5> QED BY <4>1, <4>2, <4>3, <5>1, <5>2
      <4>5. command.length \in 0 .. MaxLength
        BY <3>1 DEF Messages
      <4>6. DataLength(Begun) = command.length
        BY <3>1, <4>4, <4>5 DEF DataLength
      <4> QED BY <3>1, <3>3, <4>4, <4>5, <4>6 DEF Whole
    <3> QED BY <3>2, <3>3
  <2> QED BY <1>2, <2>1, FramesEquation DEF Framing
<1>9. Got \o << >> = Got
  BY <1>2, ConcatEmptySeq
<1> QED BY <1>5, <1>7, <1>8, <1>9 DEF BytesAreFramed, Got

(* Every variable has its type: neither rule writes outside of a packet's  *)
(* data or claims more data than there is.                                 *)
THEOREM TypeCorrect == Spec => []TypeOK
<1>1. ConvertInv /\ FramesInv => TypeOK
  BY BytesRead DEF ConvertInv, InputInv, OutputInv, TypeOK
<1> QED BY <1>1, InvAlways, FramesAlways, PTL

(* The debug unit gets the packets that the bytes stand for, also when     *)
(* some of them do not fit: getCommand is never out of step with them.     *)
THEOREM BytesFramed == Spec => []BytesAreFramed
<1>1. ConvertInv /\ FramesInv => BytesAreFramed
  BY BytesRead
<1> QED BY <1>1, InvAlways, FramesAlways, PTL

(* getCommand gives the debug unit the packets the host wrote, in order,   *)
(* for any packets, delays and depths, as long as they fit.                *)
THEOREM RequestsCorrect == Spec => []RequestsArrive
<1>1. ConvertInv => RequestsArrive
  BY DEF ConvertInv, InputInv, RequestsInv, RequestsArrive
<1> QED BY <1>1, InvAlways, PTL

(* The host reads the replies deliverResponse sends as they were put.      *)
THEOREM RepliesCorrect == Spec => []RepliesArrive
<1>1. ConvertInv => RepliesArrive
  BY DEF ConvertInv, OutputInv, RepliesInv, Hearing
<1> QED BY <1>1, InvAlways, PTL
=============================================================================
