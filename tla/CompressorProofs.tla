-------------------------- MODULE CompressorProofs --------------------------
(***************************************************************************)
(* Theorems about Compressor, for every set of entries, every word width   *)
(* and table size, and any length of a behaviour.                          *)
(***************************************************************************)
EXTENDS Compressor, TLAPS

-----------------------------------------------------------------------------
(* The predictor that is used.  A set of codes that is not empty has one   *)
(* that was used most often; shown by adding the codes one at a time.      *)
Codes == 0 .. 10
Best(S, used, c) == c \in S /\ \A d \in S : used[d] < used[c] \/ (used[d] = used[c] /\ c <= d)
HasBest(S, used) == S = {} \/ \E c \in S : Best(S, used, c)
Below(S, n) == {c \in S : c < n}

LEMMA OneMoreCode ==
  ASSUME NEW S \in SUBSET Codes, NEW used, \A c \in S : used[c] \in Nat, NEW n \in Nat,
         HasBest(Below(S, n), used)
  PROVE  HasBest(Below(S, n + 1), used)
<1>0. \A c \in S : c \in Nat /\ c <= 10
  BY DEF Codes
<1>1. CASE n \notin S
  <2>1. \A c \in S : c < n + 1 <=> c < n
    BY <1>0, <1>1
  <2>2. Below(S, n + 1) = Below(S, n)
    BY <2>1 DEF Below
  <2> QED BY <2>2
<1>2. CASE n \in S
  <2>1. \A c : c \in Below(S, n + 1) <=> c \in Below(S, n) \/ c = n
    <3>1. \A c \in S : c < n + 1 <=> c < n \/ c = n
      BY <1>0
    <3> QED BY <1>2, <3>1 DEF Below
  <2>2. \A c \in Below(S, n + 1) : used[c] \in Nat /\ c \in Nat
    BY DEF Below, Codes
  <2>3. CASE Below(S, n) = {}
    <3>1. Best(Below(S, n + 1), used, n)
      BY <2>1, <2>2, <2>3 DEF Best
    <3> QED BY <3>1 DEF HasBest, Best
  <2>4. CASE \E c \in Below(S, n) : Best(Below(S, n), used, c)
    <3>1. PICK c \in Below(S, n) : Best(Below(S, n), used, c)
      BY <2>4
    <3>2. c < n
      BY DEF Below
    <3>3. CASE used[n] <= used[c]
      <4>1. Best(Below(S, n + 1), used, c)
        BY <2>1, <2>2, <3>1, <3>2, <3>3 DEF Best
      <4> QED BY <4>1 DEF HasBest, Best
    <3>4. CASE used[n] > used[c]
      <4>1. Best(Below(S, n + 1), used, n)
        BY <2>1, <2>2, <3>1, <3>4 DEF Best
      <4> QED BY <4>1 DEF HasBest, Best
    <3>5. used[n] \in Nat /\ used[c] \in Nat
      BY <2>1, <2>2
    <3> QED BY <3>3, <3>4, <3>5
  <2> QED BY <2>3, <2>4 DEF HasBest
<1> QED BY <1>1, <1>2

LEMMA MostUsedIsHit ==
  ASSUME NEW S \in SUBSET Codes, NEW used, \A c \in S : used[c] \in Nat, NEW miss
  PROVE  IF S = {} THEN MostUsed(S, used, miss) = miss ELSE MostUsed(S, used, miss) \in S
<1>a. \A c \in S : c \in Nat /\ c <= 10
  BY DEF Codes
<1>0. HasBest(Below(S, 0), used)
  <2>1. \A c \in S : ~(c < 0)
    BY <1>a
  <2>2. Below(S, 0) = {}
    BY <2>1 DEF Below
  <2> QED BY <2>2 DEF HasBest
<1>1. HasBest(Below(S, 0 + 1), used)
  BY <1>0, OneMoreCode
<1>2. HasBest(Below(S, 1 + 1), used)
  BY <1>1, OneMoreCode
<1>3. HasBest(Below(S, 2 + 1), used)
  BY <1>2, OneMoreCode
<1>4. HasBest(Below(S, 3 + 1), used)
  BY <1>3, OneMoreCode
<1>5. HasBest(Below(S, 4 + 1), used)
  BY <1>4, OneMoreCode
<1>6. HasBest(Below(S, 5 + 1), used)
  BY <1>5, OneMoreCode
<1>7. HasBest(Below(S, 6 + 1), used)
  BY <1>6, OneMoreCode
<1>8. HasBest(Below(S, 7 + 1), used)
  BY <1>7, OneMoreCode
<1>9. HasBest(Below(S, 8 + 1), used)
  BY <1>8, OneMoreCode
<1>10. HasBest(Below(S, 9 + 1), used)
  BY <1>9, OneMoreCode
<1>11. HasBest(Below(S, 10 + 1), used)
  BY <1>10, OneMoreCode
<1>12. Below(S, 11) = S
  <2>1. \A c \in S : c < 11
    BY <1>a
  <2> QED BY <2>1 DEF Below
<1>13. HasBest(S, used)
  BY <1>11, <1>12
<1>14. S # {} => \E c \in S : \A d \in S : used[d] < used[c] \/ (used[d] = used[c] /\ c <= d)
  BY <1>13 DEF HasBest, Best
<1> QED
  BY <1>14 DEF MostUsed

(* A prediction of value: by a predictor that proposed it, or a miss. *)
Right(p, proposal, value, miss) ==
  /\ p = [predictor |-> p.predictor, data |-> value]
  /\ p.predictor = miss \/ (p.predictor \in DOMAIN proposal /\ proposal[p.predictor] = value)

LEMMA PredictIsRight ==
  ASSUME NEW proposal, DOMAIN proposal \in SUBSET Codes, NEW value, NEW miss,
         NEW used, \A c \in DOMAIN proposal : used[c] \in Nat
  PROVE  Right(Predict(proposal, value, used, miss), proposal, value, miss)
<1> DEFINE S == Hits(proposal, value)
           p == Predict(proposal, value, used, miss)
<1>1. S \in SUBSET Codes /\ \A c \in S : c \in DOMAIN proposal /\ proposal[c] = value /\ used[c] \in Nat
  BY DEF Hits
<1>2. p = [predictor |-> MostUsed(S, used, miss), data |-> value]
  BY DEF Predict
<1> HIDE DEF S, p
<1>3. IF S = {} THEN MostUsed(S, used, miss) = miss ELSE MostUsed(S, used, miss) \in S
  BY <1>1, MostUsedIsHit
<1>4. p.predictor = MostUsed(S, used, miss)
  BY <1>2
<1>5. p = [predictor |-> p.predictor, data |-> value]
  BY <1>2, <1>4
<1>6. p.predictor = miss \/ (p.predictor \in DOMAIN proposal /\ proposal[p.predictor] = value)
  BY <1>1, <1>3, <1>4
<1>7. Right(p, proposal, value, miss)
  BY <1>5, <1>6 DEF Right
<1> QED BY <1>7 DEF p

-----------------------------------------------------------------------------
(* The flow of entries: how many are where, and that the FIFOs and the     *)
(* read addresses of a path are filled and emptied together.               *)
Started == Len(accepted) - Len(traceInputs)

Suffix(q, s) == Len(q) <= Len(s) /\ \A i \in 1 .. Len(q) : q[i] = s[Len(s) - Len(q) + i]

LEMMA SuffixAppend ==
  ASSUME NEW S, NEW q \in Seq(S), NEW s \in Seq(S), NEW x \in S, Suffix(q, s)
  PROVE  Suffix(Append(q, x), Append(s, x))
<1> DEFINE q2 == Append(q, x)
           s2 == Append(s, x)
<1>1. /\ Len(q) \in Nat /\ Len(s) \in Nat /\ Len(q2) = Len(q) + 1 /\ Len(s2) = Len(s) + 1
      /\ q2[Len(q) + 1] = x /\ s2[Len(s) + 1] = x
      /\ \A i \in 1 .. Len(q) : q2[i] = q[i]
      /\ \A i \in 1 .. Len(s) : s2[i] = s[i]
  OBVIOUS
<1> HIDE DEF q2, s2
<1>2. ASSUME NEW i \in 1 .. Len(q2) PROVE q2[i] = s2[Len(s2) - Len(q2) + i]
  <2>1. CASE i = Len(q) + 1
    BY <1>1, <2>1
  <2>2. CASE i \in 1 .. Len(q)
    <3>1. Len(s2) - Len(q2) + i = Len(s) - Len(q) + i /\ Len(s) - Len(q) + i \in 1 .. Len(s)
      BY <1>1, <2>2 DEF Suffix
    <3> QED BY <1>1, <2>2, <3>1 DEF Suffix
  <2> QED BY <1>1, <2>1, <2>2
<1>3. Suffix(q2, s2)
  BY <1>1, <1>2 DEF Suffix
<1> QED BY <1>3 DEF q2, s2

LEMMA SuffixTail ==
  ASSUME NEW S, NEW q \in Seq(S), NEW s \in Seq(S), q # << >>, Suffix(q, s)
  PROVE  Suffix(Tail(q), s) /\ Head(q) = s[Len(s) - Len(Tail(q))]
<1> DEFINE q2 == Tail(q)
<1>1. /\ Len(q) \in Nat \ {0} /\ Len(s) \in Nat /\ Len(q2) = Len(q) - 1 /\ Head(q) = q[1]
      /\ \A i \in 1 .. Len(q2) : q2[i] = q[i + 1]
  OBVIOUS
<1> HIDE DEF q2
<1>2. ASSUME NEW i \in 1 .. Len(q2) PROVE q2[i] = s[Len(s) - Len(q2) + i]
  <2>1. Len(s) - Len(q2) + i = Len(s) - Len(q) + (i + 1) /\ i + 1 \in 1 .. Len(q)
    BY <1>1
  <2> QED BY <1>1, <2>1 DEF Suffix
<1>3. Suffix(q2, s)
  BY <1>1, <1>2 DEF Suffix
<1>4. Head(q) = s[Len(s) - Len(q2)]
  <2>1. 1 \in 1 .. Len(q) /\ Len(s) - Len(q2) = Len(s) - Len(q) + 1
    BY <1>1
  <2> QED BY <1>1, <2>1 DEF Suffix
<1> QED BY <1>3, <1>4 DEF q2

PcPath == /\ pstate \in {"Predict", "Done"}
          /\ \E x : ppredictions \in {<< >>, <<x>>}
          /\ pstate = "Predict" => pcReads = <<PcReadsOf(pcTables)>>
          /\ pstate = "Done" => pcReads = << >>
ValuePath == /\ vstate \in {"Predict", "Done"}
             /\ \/ /\ vpredictions = << >> /\ r1predictions = << >> /\ r2predictions = << >>
                   /\ countpredictions = << >>
                \/ \E v, r1, r2, c : /\ vpredictions = <<v>> /\ r1predictions = <<r1>>
                                     /\ r2predictions = <<r2>> /\ countpredictions = <<c>>
             /\ vstate = "Predict" => valueReads = <<ValueIndex(pc_reg)>>
             /\ vstate = "Done" => valueReads = << >>

FlowInv == /\ PcPath /\ ValuePath
           /\ traceInputs \in Seq(Inputs) /\ Len(traceInputs) <= FifoDepth
           /\ accepted \in Seq(Inputs) /\ emitted \in Nat
           /\ emitted + InPcPath = Started /\ emitted + InValuePath = Started
           /\ Suffix(traceInputs, accepted)

LEMMA TailOfOne == ASSUME NEW x PROVE Tail(<<x>>) = << >>
OBVIOUS

LEMMA FlowInit == Init => FlowInv
BY FifoAssumption DEF Init, FlowInv, PcPath, ValuePath, Started, InPcPath, InValuePath, Flag, Suffix

LEMMA FlowPut == ASSUME FlowInv, NEW te \in Inputs, Put(te) PROVE FlowInv'
<1> USE DEF FlowInv
<1>1. /\ traceInputs' = Append(traceInputs, te) /\ accepted' = Append(accepted, te)
      /\ Len(traceInputs) < FifoDepth /\ UNCHANGED <<registers, states, memories, predictions, emitted>>
  BY DEF Put
<1>2. /\ traceInputs' \in Seq(Inputs) /\ accepted' \in Seq(Inputs)
      /\ Len(traceInputs') = Len(traceInputs) + 1 /\ Len(accepted') = Len(accepted) + 1
      /\ Len(traceInputs) \in Nat /\ Len(accepted) \in Nat
  BY <1>1
<1>3. Started' = Started
  BY <1>2 DEF Started
<1>4. PcPath' /\ ValuePath' /\ InPcPath' = InPcPath /\ InValuePath' = InValuePath /\ emitted' = emitted
  BY <1>1 DEF PcPath, ValuePath, InPcPath, InValuePath, registers, states, memories, predictions
<1>5. Suffix(traceInputs', accepted')
  BY <1>1, SuffixAppend
<1>6. Len(traceInputs') <= FifoDepth
  BY <1>1, <1>2, FifoAssumption
<1>7. emitted' \in Nat /\ emitted' + InPcPath' = Started' /\ emitted' + InValuePath' = Started'
  BY <1>3, <1>4
<1> QED BY <1>2, <1>4, <1>5, <1>6, <1>7

LEMMA FlowStart == ASSUME FlowInv, compress_trace PROVE FlowInv'
<1> USE DEF FlowInv
<1>1. /\ traceInputs # << >> /\ traceInputs' = Tail(traceInputs)
      /\ pstate = "Done" /\ vstate = "Done" /\ pstate' = "Predict" /\ vstate' = "Predict"
      /\ UNCHANGED <<predictions, accepted, emitted, pcTables>>
      /\ pcReads' = Append(pcReads, PcReadsOf(pcTables))
      /\ valueReads' = Append(valueReads, ValueIndex(Head(traceInputs).pc))
      /\ pc_reg' = Head(traceInputs).pc
  BY DEF compress_trace, predictUpdate
<1>2. pcReads' = <<PcReadsOf(pcTables)>> /\ valueReads' = <<ValueIndex(Head(traceInputs).pc)>>
  <2>1. pcReads = << >> /\ valueReads = << >>
    BY <1>1 DEF PcPath, ValuePath
  <2> QED BY <1>1, <2>1
<1>3. PcPath' /\ ValuePath'
  <2>1. PcReadsOf(pcTables)' = PcReadsOf(pcTables) /\ ValueIndex(pc_reg)' = ValueIndex(Head(traceInputs).pc)
    BY <1>1 DEF PcReadsOf, ValueIndex
  <2> QED BY <1>1, <1>2, <2>1 DEF PcPath, ValuePath, predictions
<1>4. /\ traceInputs' \in Seq(Inputs) /\ Len(traceInputs') = Len(traceInputs) - 1
      /\ Len(traceInputs) \in Nat \ {0} /\ Len(accepted) \in Nat
  BY <1>1
<1>5. Started' = Started + 1
  BY <1>1, <1>4 DEF Started
<1>6. InPcPath' = InPcPath + 1 /\ InValuePath' = InValuePath + 1
  <2>1. Len(ppredictions) \in Nat /\ Len(vpredictions) \in Nat
    BY DEF PcPath, ValuePath
  <2> QED BY <1>1, <2>1 DEF InPcPath, InValuePath, Flag, predictions
<1>7. Suffix(traceInputs', accepted')
  BY <1>1, SuffixTail
<1>8. InPcPath \in Int /\ InValuePath \in Int /\ Started \in Int
  BY <1>4 DEF PcPath, ValuePath, InPcPath, InValuePath, Flag, Started
<1> QED BY <1>1, <1>3, <1>4, <1>5, <1>6, <1>7, <1>8, FifoAssumption

LEMMA FlowPc == ASSUME FlowInv, predictPC PROVE FlowInv'
<1> USE DEF FlowInv
<1>1. /\ pstate = "Predict" /\ pstate' = "Done" /\ ppredictions = << >>
      /\ \E p : ppredictions' = <<p>>
      /\ pcReads' = Tail(pcReads)
      /\ UNCHANGED <<vstate, valueReads, pc_reg, vpredictions, r1predictions, r2predictions,
                     countpredictions, traceInputs, accepted, emitted>>
  BY DEF predictPC, fifos, history, registers
<1>2. pcReads' = << >>
  BY <1>1, TailOfOne DEF PcPath
<1>3. PcPath'
  BY <1>1, <1>2 DEF PcPath
<1>4. ValuePath' /\ InValuePath' = InValuePath /\ Started' = Started
  BY <1>1 DEF ValuePath, InValuePath, Started
<1>5. InPcPath' = InPcPath
  BY <1>1 DEF InPcPath, Flag
<1> QED BY <1>1, <1>3, <1>4, <1>5

LEMMA FlowTrace == ASSUME FlowInv, predictTrace PROVE FlowInv'
<1> USE DEF FlowInv
<1>1. /\ vstate = "Predict" /\ vstate' = "Done" /\ vpredictions = << >>
      /\ \E v, r1, r2, c : /\ vpredictions' = <<v>> /\ r1predictions' = <<r1>>
                           /\ r2predictions' = <<r2>> /\ countpredictions' = <<c>>
      /\ valueReads' = Tail(valueReads)
      /\ UNCHANGED <<pstate, pcReads, pcTables, ppredictions, traceInputs, accepted, emitted>>
  BY DEF predictTrace, fifos, history
<1>2. valueReads' = << >>
  BY <1>1, TailOfOne DEF ValuePath
<1>3. ValuePath'
  BY <1>1, <1>2 DEF ValuePath
<1>4. PcPath' /\ InPcPath' = InPcPath /\ Started' = Started
  BY <1>1 DEF PcPath, PcReadsOf, InPcPath, Started
<1>5. InValuePath' = InValuePath
  BY <1>1 DEF InValuePath, Flag
<1> QED BY <1>1, <1>3, <1>4, <1>5

LEMMA FlowEnq == ASSUME FlowInv, enq_predictions PROVE FlowInv'
<1> USE DEF FlowInv
<1>1. /\ ppredictions # << >> /\ vpredictions # << >> /\ ppredictions' = << >>
      /\ vpredictions' = << >> /\ r1predictions' = << >> /\ r2predictions' = << >>
      /\ countpredictions' = << >> /\ emitted' = emitted + 1
      /\ UNCHANGED <<pstate, vstate, pcReads, valueReads, pcTables, pc_reg, traceInputs, accepted>>
  BY DEF enq_predictions, CanEmit, PredictionsReady, registers, states, memories
<1>2. PcPath' /\ ValuePath' /\ Started' = Started
  BY <1>1 DEF PcPath, PcReadsOf, ValuePath, Started
<1>3. InPcPath' = InPcPath - 1 /\ InValuePath' = InValuePath - 1
  <2>1. Len(ppredictions) = 1 /\ Len(vpredictions) = 1
    BY <1>1 DEF PcPath, ValuePath
  <2> QED BY <1>1, <2>1 DEF InPcPath, InValuePath, Flag
<1>4. InPcPath \in Int /\ InValuePath \in Int
  BY DEF PcPath, ValuePath, InPcPath, InValuePath, Flag
<1> QED BY <1>1, <1>2, <1>3, <1>4

LEMMA FlowStep == FlowInv /\ [Next]_vars => FlowInv'
<1> SUFFICES ASSUME FlowInv, [Next]_vars PROVE FlowInv'
  OBVIOUS
<1>1. CASE UNCHANGED <<states, memories, predictions, traceInputs, accepted, emitted, pc_reg>>
  BY <1>1 DEF FlowInv, PcPath, ValuePath, PcReadsOf, Started, InPcPath, InValuePath,
     states, memories, predictions
<1>2. CASE Get \/ Idle \/ UNCHANGED vars
  BY <1>1, <1>2 DEF Get, Idle, vars, fifos, history, registers
<1> QED
  BY <1>2, FlowPut, FlowStart, FlowPc, FlowTrace, FlowEnq DEF Next

-----------------------------------------------------------------------------
(* The entries themselves: the registers hold the entry started last, and  *)
(* the predictions belong to the oldest entry not put out.                 *)
Latest == accepted[Started]
Registered == Started > 0 => /\ pc_reg = Latest.pc /\ trace_reg = TraceOf(Latest)
                             /\ r1data = Latest.r1 /\ r2data = Latest.r2
                             /\ original_trace = Latest
EntryInv == Registered /\ PredictionsBelongTogether

LEMMA FlowNumbers ==
  ASSUME FlowInv
  PROVE  /\ Started \in Nat /\ Started <= Len(accepted) /\ Len(accepted) \in Nat
         /\ ppredictions # << >> => emitted + 1 \in 1 .. Len(accepted)
         /\ vpredictions # << >> => emitted + 1 \in 1 .. Len(accepted)
         /\ pstate = "Predict" /\ ppredictions = << >> => Started = emitted + 1
         /\ vstate = "Predict" /\ vpredictions = << >> => Started = emitted + 1
         /\ r1predictions # << >> <=> vpredictions # << >>
         /\ r2predictions # << >> <=> vpredictions # << >>
<1> USE DEF FlowInv
<1>1. Len(accepted) \in Nat /\ Len(traceInputs) \in Nat /\ Len(traceInputs) <= Len(accepted)
  BY DEF Suffix
<1>2. Started \in Nat /\ Started <= Len(accepted)
  BY <1>1 DEF Started
<1>3. Len(ppredictions) \in {0, 1} /\ (Len(ppredictions) = 0 <=> ppredictions = << >>)
  BY DEF PcPath
<1>4. Len(vpredictions) \in {0, 1} /\ (Len(vpredictions) = 0 <=> vpredictions = << >>)
  BY DEF ValuePath
<1>5. InPcPath \in Nat /\ InPcPath >= Len(ppredictions)
      /\ (pstate = "Predict" /\ ppredictions = << >> => InPcPath = 1)
  BY <1>3 DEF InPcPath, Flag
<1>6. InValuePath \in Nat /\ InValuePath >= Len(vpredictions)
      /\ (vstate = "Predict" /\ vpredictions = << >> => InValuePath = 1)
  BY <1>4 DEF InValuePath, Flag
<1>7. (r1predictions # << >> <=> vpredictions # << >>) /\ (r2predictions # << >> <=> vpredictions # << >>)
  BY DEF ValuePath
<1> QED BY <1>1, <1>2, <1>3, <1>4, <1>5, <1>6, <1>7

LEMMA EntryPut == ASSUME FlowInv, EntryInv, NEW te \in Inputs, Put(te) PROVE EntryInv'
<1>1. /\ traceInputs' = Append(traceInputs, te) /\ accepted' = Append(accepted, te)
      /\ UNCHANGED <<registers, emitted, ppredictions, vpredictions, r1predictions, r2predictions>>
  BY DEF Put, predictions
<1>2. Started' = Started
  BY <1>1 DEF FlowInv, Started
<1>3. \A i \in 1 .. Len(accepted) : accepted'[i] = accepted[i]
  BY <1>1 DEF FlowInv
<1>4. Registered'
  BY <1>1, <1>2, <1>3, FlowNumbers DEF EntryInv, Registered, Latest, registers
<1>5. ppredictions # << >> \/ vpredictions # << >> => Current' = Current
  BY <1>1, <1>3, FlowNumbers DEF Current
<1>6. PredictionsBelongTogether'
  BY <1>1, <1>5, FlowNumbers DEF EntryInv, PredictionsBelongTogether
<1> QED BY <1>4, <1>6 DEF EntryInv

LEMMA EntryStart == ASSUME FlowInv, EntryInv, compress_trace PROVE EntryInv'
<1>1. /\ traceInputs # << >> /\ traceInputs' = Tail(traceInputs)
      /\ pc_reg' = Head(traceInputs).pc /\ trace_reg' = TraceOf(Head(traceInputs))
      /\ r1data' = Head(traceInputs).r1 /\ r2data' = Head(traceInputs).r2
      /\ original_trace' = Head(traceInputs)
      /\ UNCHANGED <<accepted, emitted, ppredictions, vpredictions, r1predictions, r2predictions>>
  BY DEF compress_trace, predictUpdate, predictions
<1>2. Latest' = Head(traceInputs)
  <2>1. Head(traceInputs) = accepted[Len(accepted) - Len(Tail(traceInputs))]
    BY <1>1, SuffixTail DEF FlowInv
  <2> QED BY <1>1, <2>1 DEF Latest, Started
<1>3. Registered'
  BY <1>1, <1>2 DEF Registered
<1>4. PredictionsBelongTogether'
  BY <1>1 DEF EntryInv, PredictionsBelongTogether, Current
<1> QED BY <1>3, <1>4 DEF EntryInv

LEMMA EntryPc == ASSUME FlowInv, EntryInv, predictPC PROVE EntryInv'
<1>1. /\ pstate = "Predict" /\ ppredictions = << >>
      /\ \E p : ppredictions' = <<p>> /\ p.data = pc_reg
      /\ UNCHANGED <<registers, vpredictions, r1predictions, r2predictions,
                     traceInputs, accepted, emitted>>
  BY DEF predictPC, Predict, fifos, history
<1>2. Latest' = Latest /\ Started' = Started /\ Current' = Current
  BY <1>1 DEF Latest, Started, Current
<1>3. Started = emitted + 1 /\ Started > 0
  BY <1>1, FlowNumbers DEF FlowInv
<1>4. Current = Latest
  BY <1>3 DEF Current, Latest
<1>5. Head(ppredictions').data = pc_reg
  BY <1>1
<1> QED BY <1>1, <1>2, <1>3, <1>4, <1>5
        DEF EntryInv, Registered, PredictionsBelongTogether, registers

LEMMA EntryTrace == ASSUME FlowInv, EntryInv, predictTrace PROVE EntryInv'
<1>1. /\ vstate = "Predict" /\ vpredictions = << >>
      /\ \E v : vpredictions' = <<v>> /\ v.data = trace_reg
      /\ \E r1 : r1predictions' = <<r1>> /\ r1.data = r1data
      /\ \E r2 : r2predictions' = <<r2>> /\ r2.data = r2data
      /\ UNCHANGED <<registers, ppredictions, traceInputs, accepted, emitted>>
  BY DEF predictTrace, Predict, fifos, history
<1>2. Latest' = Latest /\ Started' = Started /\ Current' = Current
  BY <1>1 DEF Latest, Started, Current
<1>3. Started = emitted + 1 /\ Started > 0
  BY <1>1, FlowNumbers DEF FlowInv
<1>4. Current = Latest
  BY <1>3 DEF Current, Latest
<1>5. /\ Head(vpredictions').data = trace_reg /\ Head(r1predictions').data = r1data
      /\ Head(r2predictions').data = r2data
  BY <1>1
<1> QED BY <1>1, <1>2, <1>3, <1>4, <1>5
        DEF EntryInv, Registered, PredictionsBelongTogether, registers

LEMMA EntryStep == FlowInv /\ EntryInv /\ [Next]_vars => EntryInv'
<1> SUFFICES ASSUME FlowInv, EntryInv, [Next]_vars PROVE EntryInv'
  OBVIOUS
<1>1. CASE enq_predictions
  <2>1. /\ ppredictions' = << >> /\ vpredictions' = << >> /\ r1predictions' = << >>
        /\ r2predictions' = << >>
        /\ UNCHANGED <<registers, traceInputs, accepted>>
    BY <1>1 DEF enq_predictions
  <2> QED BY <2>1 DEF EntryInv, Registered, Latest, Started, PredictionsBelongTogether, registers
<1>2. CASE UNCHANGED <<registers, predictions, traceInputs, accepted, emitted>>
  BY <1>2 DEF EntryInv, Registered, Latest, Started, PredictionsBelongTogether, Current,
     registers, predictions
<1>3. CASE Get \/ Idle \/ UNCHANGED vars
  BY <1>2, <1>3 DEF Get, Idle, vars, fifos, history
<1> QED
  BY <1>1, <1>3, EntryPut, EntryStart, EntryPc, EntryTrace DEF Next

-----------------------------------------------------------------------------
(* Types. *)
PcPrediction == [predictor : 0 .. 4, data : FieldValues("pc")]
EasyPrediction == [predictor : 4 .. 10, data : TraceType]
CountPrediction == [predictor : 0 .. 2, data : {0}]

RegisterTypes == /\ pc_reg \in FieldValues("pc") /\ trace_reg \in TraceType
                 /\ r1data \in FieldValues("r1") /\ r2data \in FieldValues("r2")
                 /\ original_trace \in Inputs \cup {ZeroEntry}
CounterTypes == /\ pused \in [0 .. 4 -> Nat] /\ vused \in [0 .. 10 -> Nat]
                /\ vusedr1 \in [0 .. 10 -> Nat] /\ vusedr2 \in [0 .. 10 -> Nat]
                /\ vused_count \in [0 .. 2 -> Nat]
PredictionTypes == /\ ppredictions \in AtMostOne(PcPrediction)
                   /\ vpredictions \in AtMostOne(EasyPrediction)
                   /\ r1predictions \in AtMostOne(RegPrediction("r1"))
                   /\ r2predictions \in AtMostOne(RegPrediction("r2"))
                   /\ countpredictions \in AtMostOne(CountPrediction)
OutputTypes == /\ compressedOutputs \in Seq(Outputs) /\ Len(compressedOutputs) <= FifoDepth
               /\ taken \in Nat /\ taken + Len(compressedOutputs) = emitted

LEMMA InputFields ==
  ASSUME NEW te \in Inputs
  PROVE  /\ te.pc \in FieldValues("pc") /\ TraceOf(te) \in TraceType
         /\ te.r1 \in FieldValues("r1") /\ te.r2 \in FieldValues("r2")
<1>1. /\ te.pc \in FieldValues("pc") /\ te.r1 \in FieldValues("r1") /\ te.r2 \in FieldValues("r2")
      /\ te.version \in FieldValues("version") /\ te.easy \in FieldValues("easy")
  BY DEF FieldValues
<1> QED BY <1>1 DEF TraceOf, TraceType

LEMMA RegisterTypesStep == FlowInv /\ RegisterTypes /\ [Next]_vars => RegisterTypes'
<1> SUFFICES ASSUME FlowInv, RegisterTypes, [Next]_vars PROVE RegisterTypes'
  OBVIOUS
<1>1. CASE compress_trace
  <2>1. Head(traceInputs) \in Inputs
    BY <1>1 DEF compress_trace, FlowInv
  <2>2. /\ original_trace' = Head(traceInputs)
        /\ pc_reg' = Head(traceInputs).pc /\ trace_reg' = TraceOf(Head(traceInputs))
        /\ r1data' = Head(traceInputs).r1 /\ r2data' = Head(traceInputs).r2
    BY <1>1 DEF compress_trace, predictUpdate
  <2> QED BY <2>1, <2>2, InputFields DEF RegisterTypes
<1>2. CASE UNCHANGED registers
  BY <1>2 DEF RegisterTypes, registers, FieldValues, TraceType
<1> QED
  BY <1>1, <1>2 DEF Next, Put, predictPC, predictTrace, enq_predictions, Get, Idle, vars

LEMMA Proposals ==
  /\ \A t, reads : DOMAIN PcProposal(t, reads) = 0 .. 3
  /\ \A cell : /\ DOMAIN EasyProposal(cell) = 4 .. 7
               /\ DOMAIN R1Proposal(cell) = 4 .. 9 /\ DOMAIN R2Proposal(cell) = 4 .. 9
               /\ DOMAIN CountProposal(cell) = {0, 1}
BY DEF PcProposal, EasyProposal, LastFour, R1Proposal, R2Proposal, RegProposal, CountProposal

LEMMA PcTypes ==
  ASSUME RegisterTypes, CounterTypes, PredictionTypes, predictPC
  PROVE  CounterTypes' /\ PredictionTypes'
<1> DEFINE proposal == PcProposal(pcTables, Head(pcReads))
           p == Predict(proposal, pc_reg, pused, PcMiss)
<1>1. /\ pused' = Bump(pused, p.predictor) /\ ppredictions' = <<p>>
      /\ UNCHANGED <<vused, vusedr1, vusedr2, vused_count, vpredictions, r1predictions,
                     r2predictions, countpredictions>>
  BY DEF predictPC
<1>2. p = Predict(proposal, pc_reg, pused, PcMiss) /\ DOMAIN proposal = 0 .. 3
  BY Proposals
<1> HIDE DEF p, proposal
<1>3. p \in PcPrediction /\ Bump(pused, p.predictor) \in [0 .. 4 -> Nat]
  <2>1. DOMAIN proposal \in SUBSET Codes /\ \A c \in DOMAIN proposal : pused[c] \in Nat
    BY <1>2 DEF Codes, CounterTypes
  <2>2. Right(p, proposal, pc_reg, PcMiss)
    BY <1>2, <2>1, PredictIsRight
  <2>3. p.predictor \in 0 .. 4
    BY <1>2, <2>2 DEF Right, PcMiss
  <2> QED BY <2>2, <2>3 DEF Right, PcPrediction, RegisterTypes, CounterTypes, Bump
<1> QED BY <1>1, <1>3 DEF CounterTypes, PredictionTypes, AtMostOne, FieldValues,
   PcPrediction, EasyPrediction, RegPrediction, CountPrediction, TraceType

LEMMA TraceTypes ==
  ASSUME RegisterTypes, CounterTypes, PredictionTypes, predictTrace
  PROVE  CounterTypes' /\ PredictionTypes'
<1> DEFINE cell == valueTables[Head(valueReads)]
           v  == Predict(EasyProposal(cell), trace_reg, vused, EasyMiss)
           r1 == Predict(R1Proposal(cell), r1data, vusedr1, RegMiss)
           r2 == Predict(R2Proposal(cell), r2data, vusedr2, RegMiss)
           c  == Predict(CountProposal(cell), count_reg, vused_count, CountMiss)
<1>1. /\ vused' = Bump(vused, v.predictor) /\ vusedr1' = Bump(vusedr1, r1.predictor)
      /\ vusedr2' = Bump(vusedr2, r2.predictor) /\ vused_count' = Bump(vused_count, c.predictor)
      /\ vpredictions' = <<v>> /\ r1predictions' = <<r1>> /\ r2predictions' = <<r2>>
      /\ countpredictions' = <<c>> /\ UNCHANGED <<pused, ppredictions>>
  BY DEF predictTrace
<1>2. /\ v = Predict(EasyProposal(cell), trace_reg, vused, EasyMiss)
      /\ r1 = Predict(R1Proposal(cell), r1data, vusedr1, RegMiss)
      /\ r2 = Predict(R2Proposal(cell), r2data, vusedr2, RegMiss)
      /\ c = Predict(CountProposal(cell), count_reg, vused_count, CountMiss)
  OBVIOUS
<1> HIDE DEF cell, v, r1, r2, c
<1>3. /\ Right(v, EasyProposal(cell), trace_reg, EasyMiss)
      /\ Right(r1, R1Proposal(cell), r1data, RegMiss)
      /\ Right(r2, R2Proposal(cell), r2data, RegMiss)
      /\ Right(c, CountProposal(cell), count_reg, CountMiss)
  <2> USE DEF CounterTypes, Codes
  <2>1. Right(v, EasyProposal(cell), trace_reg, EasyMiss)
    <3>1. DOMAIN EasyProposal(cell) \in SUBSET Codes
          /\ \A d \in DOMAIN EasyProposal(cell) : vused[d] \in Nat
      BY Proposals
    <3> QED BY <1>2, <3>1, PredictIsRight
  <2>2. Right(r1, R1Proposal(cell), r1data, RegMiss)
    <3>1. DOMAIN R1Proposal(cell) \in SUBSET Codes
          /\ \A d \in DOMAIN R1Proposal(cell) : vusedr1[d] \in Nat
      BY Proposals
    <3> QED BY <1>2, <3>1, PredictIsRight
  <2>3. Right(r2, R2Proposal(cell), r2data, RegMiss)
    <3>1. DOMAIN R2Proposal(cell) \in SUBSET Codes
          /\ \A d \in DOMAIN R2Proposal(cell) : vusedr2[d] \in Nat
      BY Proposals
    <3> QED BY <1>2, <3>1, PredictIsRight
  <2>4. Right(c, CountProposal(cell), count_reg, CountMiss)
    <3>1. DOMAIN CountProposal(cell) \in SUBSET Codes
          /\ \A d \in DOMAIN CountProposal(cell) : vused_count[d] \in Nat
      BY Proposals
    <3> QED BY <1>2, <3>1, PredictIsRight
  <2> QED BY <2>1, <2>2, <2>3, <2>4
<1>4. /\ v.predictor \in 4 .. 10 /\ r1.predictor \in 4 .. 10 /\ r2.predictor \in 4 .. 10
      /\ c.predictor \in 0 .. 2
  BY <1>3, Proposals DEF Right, EasyMiss, RegMiss, CountMiss
<1>5. /\ v \in EasyPrediction /\ r1 \in RegPrediction("r1") /\ r2 \in RegPrediction("r2")
      /\ c \in CountPrediction
  BY <1>3, <1>4 DEF Right, RegisterTypes, EasyPrediction, RegPrediction, CountPrediction, count_reg
<1>6. CounterTypes'
  BY <1>1, <1>4 DEF CounterTypes, Bump
<1>7. PredictionTypes'
  BY <1>1, <1>5 DEF PredictionTypes, AtMostOne, FieldValues,
     PcPrediction, EasyPrediction, RegPrediction, CountPrediction, TraceType
<1> QED BY <1>6, <1>7

PredictInv == RegisterTypes /\ CounterTypes /\ PredictionTypes

LEMMA PredictStep == FlowInv /\ PredictInv /\ [Next]_vars => PredictInv'
<1> SUFFICES ASSUME FlowInv, PredictInv, [Next]_vars PROVE PredictInv'
  OBVIOUS
<1>0. RegisterTypes'
  BY RegisterTypesStep DEF PredictInv
<1>1. CASE predictPC
  BY <1>0, <1>1, PcTypes DEF PredictInv
<1>2. CASE predictTrace
  BY <1>0, <1>2, TraceTypes DEF PredictInv
<1>3. CASE enq_predictions
  <2>1. UNCHANGED counters /\ ppredictions' = << >> /\ vpredictions' = << >>
        /\ r1predictions' = << >> /\ r2predictions' = << >> /\ countpredictions' = << >>
    BY <1>3 DEF enq_predictions
  <2> QED BY <1>0, <2>1 DEF PredictInv, CounterTypes, PredictionTypes, counters, AtMostOne
<1>4. CASE UNCHANGED <<counters, predictions>>
  BY <1>0, <1>4 DEF PredictInv, CounterTypes, PredictionTypes, counters, predictions, AtMostOne,
     PcPrediction, EasyPrediction, RegPrediction, CountPrediction, FieldValues, TraceType
<1> QED
  BY <1>1, <1>2, <1>3, <1>4 DEF Next, Put, compress_trace, Get, Idle, vars

LEMMA HeadOfAtMostOne == ASSUME NEW S, NEW q \in AtMostOne(S), q # << >> PROVE q = <<Head(q)>> /\ Head(q) \in S
BY DEF AtMostOne

LEMMA OutputType == ASSUME PredictInv, PredictionsReady PROVE Output \in Outputs
<1> DEFINE p == Head(ppredictions)
           v == Head(vpredictions)
           r1 == Head(r1predictions)
           r2 == Head(r2predictions)
           c == Head(countpredictions)
           o == Compressed(p, v, r1, r2, c)
<1>1. /\ p \in PcPrediction /\ v \in EasyPrediction /\ r1 \in RegPrediction("r1")
      /\ r2 \in RegPrediction("r2") /\ c \in CountPrediction
  BY HeadOfAtMostOne DEF PredictInv, PredictionTypes, PredictionsReady
<1> HIDE DEF p, v, r1, r2, c
<1>2. /\ p.predictor \in 0 .. 4 /\ v.predictor \in 4 .. 10 /\ r1.predictor \in 4 .. 10
      /\ r2.predictor \in 4 .. 10 /\ c.predictor \in 0 .. 2
      /\ p.data \in FieldValues("pc") /\ r1.data \in FieldValues("r1") /\ r2.data \in FieldValues("r2")
  BY <1>1 DEF PcPrediction, EasyPrediction, RegPrediction, CountPrediction
<1>3. /\ p.predictor % 8 \in 0 .. 7 /\ v.predictor % 8 \in 0 .. 7 /\ c.predictor % 2 \in 0 .. 1
      /\ r1.predictor % 8 \in 0 .. 7 /\ r2.predictor % 8 \in 0 .. 7
  BY <1>2
<1>4. p.data \in Words /\ r1.data \in Words /\ r2.data \in Words
  BY <1>2 DEF Words
<1>5. \A a, b, d \in BOOLEAN : VersionIndex(a, b, d) + 1 \in DOMAIN versions
  BY DEF VersionIndex, Flag, versions
<1>6. \A a, b, d \in BOOLEAN :
        versions[VersionIndex(a, b, d) + 1] \in {versions[i] : i \in DOMAIN versions}
  BY <1>5
<1>7. o \in CompressedType
  BY <1>3, <1>4, <1>6 DEF Compressed, CompressedType
<1> HIDE DEF o
<1>8. Output \in {original_trace, o}
  BY DEF Output, o, p, v, r1, r2, c
<1> QED BY <1>7, <1>8 DEF PredictInv, RegisterTypes, Outputs

LEMMA OutputStep == FlowInv /\ PredictInv /\ OutputTypes /\ [Next]_vars => OutputTypes'
<1> SUFFICES ASSUME FlowInv, PredictInv, OutputTypes, [Next]_vars PROVE OutputTypes'
  OBVIOUS
<1> USE FifoAssumption DEF OutputTypes
<1>1. CASE enq_predictions
  <2>1. /\ compressedOutputs' = Append(compressedOutputs, Output) /\ emitted' = emitted + 1
        /\ taken' = taken /\ Len(compressedOutputs) < FifoDepth /\ PredictionsReady
    BY <1>1 DEF enq_predictions, CanEmit
  <2>2. Output \in Outputs
    BY <2>1, OutputType
  <2>3. compressedOutputs' \in Seq(Outputs) /\ Len(compressedOutputs') = Len(compressedOutputs) + 1
    BY <2>1, <2>2
  <2>4. Outputs' = Outputs
    BY DEF Outputs, CompressedType, Words, FieldValues
  <2> HIDE DEF Outputs
  <2> QED BY <2>1, <2>3, <2>4
<1>2. CASE Get
  <2>1. /\ compressedOutputs # << >> /\ compressedOutputs' = Tail(compressedOutputs)
        /\ taken' = taken + 1 /\ emitted' = emitted
    BY <1>2 DEF Get
  <2>2. compressedOutputs' \in Seq(Outputs) /\ Len(compressedOutputs') = Len(compressedOutputs) - 1
    BY <2>1
  <2> QED BY <2>1, <2>2
<1>3. CASE UNCHANGED <<compressedOutputs, taken, emitted>>
  BY <1>3
<1> QED
  BY <1>1, <1>2, <1>3 DEF Next, Put, compress_trace, predictPC, predictTrace, Idle, vars, fifos, history

-----------------------------------------------------------------------------
CompressorInv == FlowInv /\ EntryInv /\ PredictInv /\ OutputTypes

LEMMA CompressorInvInit == Init => CompressorInv
<1> SUFFICES ASSUME Init PROVE CompressorInv
  OBVIOUS
<1>1. FlowInv
  BY FlowInit
<1>2. Started = 0
  BY DEF Init, Started
<1>3. EntryInv
  BY <1>2 DEF Init, EntryInv, Registered, PredictionsBelongTogether
<1>4. RegisterTypes
  BY DEF Init, RegisterTypes, FieldValues, ZeroTrace, TraceType
<1>5. CounterTypes
  BY DEF Init, CounterTypes, Zeros
<1>6. PredictionTypes
  BY DEF Init, PredictionTypes, AtMostOne
<1>7. OutputTypes
  <2>1. << >> \in Seq(Outputs) /\ Len(<< >>) = 0
    OBVIOUS
  <2> QED BY <2>1, FifoAssumption DEF Init, OutputTypes
<1> QED BY <1>1, <1>3, <1>4, <1>5, <1>6, <1>7 DEF CompressorInv, PredictInv

LEMMA CompressorInvStep == CompressorInv /\ [Next]_vars => CompressorInv'
BY FlowStep, EntryStep, PredictStep, OutputStep DEF CompressorInv

LEMMA CompressorInvAlways == Spec => []CompressorInv
BY CompressorInvInit, CompressorInvStep, PTL DEF Spec

(* The types of mkCompressor's FIFOs and registers, and their capacity. *)
THEOREM TypeCorrect == Spec => []TypeOK
<1>1. CompressorInv => TypeOK
  BY DEF CompressorInv, FlowInv, PcPath, ValuePath, PredictInv, RegisterTypes, PredictionTypes,
     OutputTypes, PcPrediction, EasyPrediction, CountPrediction, TypeOK
<1> QED BY <1>1, CompressorInvAlways, PTL

(* Whatever waits for what in the predictor, an entry is never lost, and   *)
(* never put out twice.                                                    *)
THEOREM EntriesKept == Spec => []NothingLost
<1>1. CompressorInv => NothingLost
  <2>1. FlowInv => /\ Len(accepted) \in Nat /\ Len(traceInputs) \in Nat
                   /\ InPcPath \in Nat /\ InValuePath \in Nat
    BY DEF FlowInv, PcPath, ValuePath, InPcPath, InValuePath, Flag
  <2> QED BY <2>1 DEF CompressorInv, FlowInv, OutputTypes, Started, NothingLost
<1> QED BY <1>1, CompressorInvAlways, PTL

(* predictPC and predictTrace do not wait for each other, yet the          *)
(* predictions that enq_predictions combines are of the same entry.        *)
THEOREM PredictionsMatch == Spec => []PredictionsBelongTogether
<1>1. CompressorInv => PredictionsBelongTogether
  BY DEF CompressorInv, EntryInv
<1> QED BY <1>1, CompressorInvAlways, PTL

(* The tables are written at the addresses they were read at. *)
THEOREM TablesWrittenWhereRead == Spec => []WritesMatchReads
<1>1. CompressorInv => WritesMatchReads
  BY DEF CompressorInv, FlowInv, PcPath, ValuePath, WritesMatchReads
<1> QED BY <1>1, CompressorInvAlways, PTL

-----------------------------------------------------------------------------
(* Decoding.  What the version of an output says is what was mispredicted. *)
LEMMA MissedIsVersion ==
  ASSUME NEW o, NEW a \in BOOLEAN, NEW b \in BOOLEAN, NEW d \in BOOLEAN,
         o.version = versions[VersionIndex(a, b, d) + 1]
  PROVE  IsCompressed(o) /\ (Missed(o, 1) <=> a) /\ (Missed(o, 2) <=> b) /\ (Missed(o, 4) <=> d)
<1> DEFINE k == VersionIndex(a, b, d) + 1
<1>1. k \in 1 .. 8
      /\ (((k - 1) \div 1) % 2 = 1 <=> a) /\ (((k - 1) \div 2) % 2 = 1 <=> b)
      /\ (((k - 1) \div 4) % 2 = 1 <=> d)
  BY DEF VersionIndex, Flag
<1> HIDE DEF k
<1>2. DOMAIN versions = 1 .. 8 /\ \A i, j \in 1 .. 8 : versions[i] = versions[j] => i = j
  BY DEF versions
<1>3. \A i \in DOMAIN versions : o.version = versions[i] <=> i = k
  BY <1>1, <1>2 DEF k
<1> QED BY <1>1, <1>2, <1>3 DEF IsCompressed, Missed

(* The predictions of entry te by tables t and vt. *)
PcRight(p, t, te) == Right(p, PcProposal(t, PcReadsOf(t)), te.pc, PcMiss)
ValuesRight(v, r1, r2, cell, te) == /\ Right(v, EasyProposal(cell), TraceOf(te), EasyMiss)
                                    /\ Right(r1, R1Proposal(cell), te.r1, RegMiss)
                                    /\ Right(r2, R2Proposal(cell), te.r2, RegMiss)

LEMMA CompressedDecodes ==
  ASSUME NEW p, NEW v, NEW r1, NEW r2, NEW c, NEW t, NEW vt, NEW te,
         PcRight(p, t, te), ValuesRight(v, r1, r2, vt[ValueIndex(te.pc)], te),
         v.predictor # EasyMiss, NEW o, o = Compressed(p, v, r1, r2, c)
  PROVE  /\ IsCompressed(o) /\ DecodePc(o, t) = te.pc /\ Decode(o, t, vt) = Sent(te)
<1> DEFINE cell == vt[ValueIndex(te.pc)]
           a == p.predictor = PcMiss
           b == r1.predictor = RegMiss
           d == r2.predictor = RegMiss
<1>1. /\ o.version = versions[VersionIndex(a, b, d) + 1]
      /\ o.pc_pred = p.predictor % 8 /\ o.easy_pred = v.predictor % 8
      /\ o.r1_pred = r1.predictor % 8 /\ o.r2_pred = r2.predictor % 8
      /\ o.data1 = IF a THEN p.data ELSE IF b THEN r1.data ELSE r2.data
      /\ o.data2 = IF b THEN r1.data ELSE r2.data
      /\ o.data3 = r2.data
  BY DEF Compressed
<1>2. /\ p.data = te.pc /\ r1.data = te.r1 /\ r2.data = te.r2
      /\ ~a => p.predictor \in 0 .. 3 /\ PcProposal(t, PcReadsOf(t))[p.predictor] = te.pc
      /\ v.predictor \in 4 .. 7 /\ EasyProposal(cell)[v.predictor] = TraceOf(te)
      /\ ~b => r1.predictor \in 4 .. 9 /\ R1Proposal(cell)[r1.predictor] = te.r1
      /\ ~d => r2.predictor \in 4 .. 9 /\ R2Proposal(cell)[r2.predictor] = te.r2
  <2> HIDE DEF cell
  <2>1. \A q, proposal, value, miss : Right(q, proposal, value, miss) => q.data = value
    BY DEF Right
  <2>2. p.data = te.pc /\ r1.data = te.r1 /\ r2.data = te.r2
    BY <2>1 DEF PcRight, ValuesRight, cell
  <2>3. ~a => p.predictor \in 0 .. 3 /\ PcProposal(t, PcReadsOf(t))[p.predictor] = te.pc
    BY Proposals DEF PcRight, Right
  <2>4. v.predictor \in 4 .. 7 /\ EasyProposal(cell)[v.predictor] = TraceOf(te)
    BY Proposals DEF ValuesRight, Right, cell
  <2>5. ~b => r1.predictor \in 4 .. 9 /\ R1Proposal(cell)[r1.predictor] = te.r1
    BY Proposals DEF ValuesRight, Right, cell
  <2>6. ~d => r2.predictor \in 4 .. 9 /\ R2Proposal(cell)[r2.predictor] = te.r2
    BY Proposals DEF ValuesRight, Right, cell
  <2> QED BY <2>2, <2>3, <2>4, <2>5, <2>6
<1>3. IsCompressed(o) /\ (Missed(o, 1) <=> a) /\ (Missed(o, 2) <=> b) /\ (Missed(o, 4) <=> d)
  <2> a \in BOOLEAN /\ b \in BOOLEAN /\ d \in BOOLEAN
    OBVIOUS
  <2> HIDE DEF a, b, d
  <2> QED BY <1>1, MissedIsVersion
<1>4. DecodePc(o, t) = te.pc
  <2>1. ~a => p.predictor % 8 = p.predictor
    BY <1>2
  <2> QED BY <1>1, <1>2, <1>3, <2>1 DEF DecodePc
<1>5. EasyProposal(cell)[o.easy_pred] = TraceOf(te)
  <2>1. v.predictor % 8 = v.predictor
    BY <1>2
  <2> QED BY <1>1, <1>2, <2>1
<1>6. ASSUME NEW x \in 4 .. 9, NEW proposal PROVE RegOf(proposal, x % 8) = proposal[x]
  BY DEF RegOf
<1>7. (IF Missed(o, 2) THEN (IF Missed(o, 1) THEN o.data2 ELSE o.data1)
                       ELSE RegOf(R1Proposal(cell), o.r1_pred)) = te.r1
  BY <1>1, <1>2, <1>3, <1>6
<1>8. (IF Missed(o, 4) THEN o.data3 ELSE RegOf(R2Proposal(cell), o.r2_pred)) = te.r2
  BY <1>1, <1>2, <1>3, <1>6
<1> HIDE DEF a, b, d
<1> QED BY <1>3, <1>4, <1>5, <1>7, <1>8 DEF Decode, Sent

LEMMA OriginalDecodes ==
  ASSUME NEW te \in Inputs, NEW t, NEW vt
  PROVE  ~IsCompressed(te) /\ Decode(te, t, vt) = Sent(te) /\ Decode(te, t, vt).trace.pc = te.pc
<1>1. ~IsCompressed(te)
  BY InputsAssumption DEF IsCompressed
<1>2. Decode(te, t, vt) = Sent(te)
  BY <1>1 DEF Decode, Sent
<1> QED BY <1>1, <1>2 DEF Sent, TraceOf

-----------------------------------------------------------------------------
(* In step.  While no entry came in on waiting predictions, at most one    *)
(* entry is under way, and the compressor's tables are the decoder's, or   *)
(* those with the entry under way learnt.                                  *)
CurrentCell == mirrorValues[ValueIndex(Current.pc)]

PcInStep ==
  IF ppredictions = << >> THEN pcTables = mirrorPc
  ELSE /\ pcTables = LearnPc(mirrorPc, PcReadsOf(mirrorPc), Current.pc)
       /\ PcRight(Head(ppredictions), mirrorPc, Current)
ValuesInStep ==
  IF vpredictions = << >> THEN valueTables = mirrorValues
  ELSE /\ valueTables = [mirrorValues EXCEPT ![ValueIndex(Current.pc)] =
                           LearnCell(CurrentCell, TraceOf(Current), Current.r1, Current.r2, 0)]
       /\ ValuesRight(Head(vpredictions), Head(r1predictions), Head(r2predictions),
                      CurrentCell, Current)
InStep == ~overran => Started <= emitted + 1 /\ PcInStep /\ ValuesInStep

DecodedInv == /\ Len(decoded) = emitted /\ \E D : decoded \in Seq(D)
              /\ ~overran => \A i \in 1 .. emitted : decoded[i] = Sent(accepted[i])

LEMMA InStepStart ==
  ASSUME FlowInv, InStep, compress_trace PROVE InStep'
<1>1. /\ traceInputs # << >> /\ traceInputs' = Tail(traceInputs)
      /\ pstate = "Done" /\ vstate = "Done"
      /\ UNCHANGED <<pcTables, valueTables, ppredictions, vpredictions, r1predictions,
                     r2predictions, accepted, emitted, mirrorPc, mirrorValues>>
      /\ overran' = (overran \/ PredictionsWaiting)
  BY DEF compress_trace, predictUpdate, predictions
<1>2. CASE ~overran' /\ ~overran
  <2>1. ppredictions = << >> /\ vpredictions = << >>
    BY <1>1, <1>2 DEF PredictionsWaiting
  <2>2. InPcPath = 0 /\ Started = emitted
    BY <1>1, <2>1 DEF FlowInv, InPcPath, Flag
  <2>3. Started' = Started + 1
    BY <1>1 DEF FlowInv, Started
  <2>4. Started' <= emitted' + 1
    BY <1>1, <2>2, <2>3 DEF FlowInv
  <2>5. PcInStep' /\ ValuesInStep'
    BY <1>1, <1>2, <2>1 DEF InStep, PcInStep, ValuesInStep
  <2> QED BY <2>4, <2>5 DEF InStep
<1>3. CASE overran' \/ overran
  BY <1>1, <1>3 DEF InStep
<1> QED BY <1>2, <1>3

LEMMA InStepPc ==
  ASSUME FlowInv, EntryInv, PredictInv, InStep, predictPC PROVE InStep'
<1> DEFINE reads == Head(pcReads)
           p == Predict(PcProposal(pcTables, reads), pc_reg, pused, PcMiss)
<1>1. /\ pstate = "Predict" /\ ppredictions = << >> /\ ppredictions' = <<p>>
      /\ pcTables' = LearnPc(pcTables, reads, pc_reg)
      /\ UNCHANGED <<valueTables, vpredictions, r1predictions, r2predictions,
                     traceInputs, accepted, emitted, mirrorPc, mirrorValues, overran>>
  BY DEF predictPC, fifos, history
<1>2. reads = PcReadsOf(pcTables)
  BY <1>1 DEF FlowInv, PcPath
<1>3. Current.pc = pc_reg /\ Current' = Current /\ Started' = Started
  <2>1. Started = emitted + 1 /\ Started > 0
    BY <1>1, FlowNumbers DEF FlowInv
  <2> QED BY <1>1, <2>1 DEF EntryInv, Registered, Latest, Current, Started
<1>4. Right(p, PcProposal(pcTables, reads), pc_reg, PcMiss)
  <2> DEFINE proposal == PcProposal(pcTables, reads)
  <2>1. DOMAIN proposal = 0 .. 3
    BY Proposals
  <2> HIDE DEF proposal
  <2>2. DOMAIN proposal \in SUBSET Codes /\ \A d \in DOMAIN proposal : pused[d] \in Nat
    BY <2>1 DEF Codes, PredictInv, CounterTypes
  <2>3. Right(Predict(proposal, pc_reg, pused, PcMiss), proposal, pc_reg, PcMiss)
    BY <2>2, PredictIsRight
  <2> QED BY <2>3 DEF proposal
<1> HIDE DEF p, reads
<1>5. ASSUME ~overran' PROVE Started' <= emitted' + 1 /\ PcInStep' /\ ValuesInStep'
  <2>1. Started <= emitted + 1 /\ pcTables = mirrorPc /\ ValuesInStep
    BY <1>1, <1>5 DEF InStep, PcInStep
  <2>2. Head(ppredictions') = p /\ ppredictions' # << >>
    BY <1>1
  <2>3. PcRight(p, mirrorPc, Current)
    BY <1>2, <1>3, <1>4, <2>1 DEF PcRight
  <2>4. pcTables' = LearnPc(mirrorPc, PcReadsOf(mirrorPc), Current.pc)
    BY <1>1, <1>2, <1>3, <2>1
  <2>5. PcInStep'
    BY <1>1, <1>3, <2>2, <2>3, <2>4 DEF PcInStep
  <2>6. ValuesInStep'
    BY <1>1, <1>3, <2>1 DEF ValuesInStep, CurrentCell
  <2> QED BY <1>1, <1>3, <2>1, <2>5, <2>6
<1> QED BY <1>5 DEF InStep

LEMMA InStepTrace ==
  ASSUME FlowInv, EntryInv, PredictInv, InStep, predictTrace PROVE InStep'
<1> DEFINE cell == valueTables[Head(valueReads)]
           v  == Predict(EasyProposal(cell), trace_reg, vused, EasyMiss)
           r1 == Predict(R1Proposal(cell), r1data, vusedr1, RegMiss)
           r2 == Predict(R2Proposal(cell), r2data, vusedr2, RegMiss)
<1>1. /\ vstate = "Predict" /\ vpredictions = << >>
      /\ vpredictions' = <<v>> /\ r1predictions' = <<r1>> /\ r2predictions' = <<r2>>
      /\ valueTables' = [valueTables EXCEPT ![ValueIndex(pc_reg)] =
                           LearnCell(cell, trace_reg, r1data, r2data, count_reg)]
      /\ UNCHANGED <<pcTables, ppredictions, traceInputs, accepted, emitted, mirrorPc,
                     mirrorValues, overran>>
  BY DEF predictTrace, fifos, history
<1>2. cell = valueTables[ValueIndex(pc_reg)]
  BY <1>1 DEF FlowInv, ValuePath
<1>3. /\ Current.pc = pc_reg /\ TraceOf(Current) = trace_reg /\ Current.r1 = r1data
      /\ Current.r2 = r2data /\ Current' = Current /\ Started' = Started
  <2>1. Started = emitted + 1 /\ Started > 0
    BY <1>1, FlowNumbers DEF FlowInv
  <2> QED BY <1>1, <2>1 DEF EntryInv, Registered, Latest, Current, Started
<1>4. /\ v = Predict(EasyProposal(cell), trace_reg, vused, EasyMiss)
      /\ r1 = Predict(R1Proposal(cell), r1data, vusedr1, RegMiss)
      /\ r2 = Predict(R2Proposal(cell), r2data, vusedr2, RegMiss)
  OBVIOUS
<1> HIDE DEF cell, v, r1, r2
<1>5. ValuesRight(v, r1, r2, cell, Current)
  <2> USE DEF PredictInv, CounterTypes, Codes
  <2>1. Right(v, EasyProposal(cell), trace_reg, EasyMiss)
    <3>1. DOMAIN EasyProposal(cell) \in SUBSET Codes
          /\ \A d \in DOMAIN EasyProposal(cell) : vused[d] \in Nat
      BY Proposals
    <3> QED BY <1>4, <3>1, PredictIsRight
  <2>2. Right(r1, R1Proposal(cell), r1data, RegMiss)
    <3>1. DOMAIN R1Proposal(cell) \in SUBSET Codes
          /\ \A d \in DOMAIN R1Proposal(cell) : vusedr1[d] \in Nat
      BY Proposals
    <3> QED BY <1>4, <3>1, PredictIsRight
  <2>3. Right(r2, R2Proposal(cell), r2data, RegMiss)
    <3>1. DOMAIN R2Proposal(cell) \in SUBSET Codes
          /\ \A d \in DOMAIN R2Proposal(cell) : vusedr2[d] \in Nat
      BY Proposals
    <3> QED BY <1>4, <3>1, PredictIsRight
  <2> QED BY <1>3, <2>1, <2>2, <2>3 DEF ValuesRight
<1>6. ASSUME ~overran' PROVE Started' <= emitted' + 1 /\ PcInStep' /\ ValuesInStep'
  <2>1. Started <= emitted + 1 /\ PcInStep /\ valueTables = mirrorValues
    BY <1>1, <1>6 DEF InStep, ValuesInStep
  <2>2. cell = CurrentCell
    BY <1>2, <1>3, <2>1 DEF CurrentCell
  <2>3. valueTables' = [mirrorValues EXCEPT ![ValueIndex(Current.pc)] =
                          LearnCell(CurrentCell, TraceOf(Current), Current.r1, Current.r2, 0)]
    BY <1>1, <1>3, <2>1, <2>2 DEF count_reg
  <2>4. CurrentCell' = CurrentCell
    BY <1>1, <1>3 DEF CurrentCell
  <2>5. /\ vpredictions' # << >> /\ Head(vpredictions') = v /\ Head(r1predictions') = r1
        /\ Head(r2predictions') = r2
    BY <1>1
  <2>6. ValuesInStep'
    BY <1>1, <1>3, <1>5, <2>2, <2>3, <2>4, <2>5 DEF ValuesInStep
  <2>7. PcInStep'
    BY <1>1, <1>3, <2>1 DEF PcInStep
  <2> QED BY <1>1, <1>3, <2>1, <2>6, <2>7
<1> QED BY <1>6 DEF InStep

LEMMA InStepPut ==
  ASSUME FlowInv, InStep, NEW te \in Inputs, Put(te)
  PROVE  InStep' /\ (DecodedInv => DecodedInv')
<1>1. /\ accepted' = Append(accepted, te) /\ traceInputs' = Append(traceInputs, te)
      /\ UNCHANGED <<pcTables, valueTables, ppredictions, vpredictions, r1predictions,
                     r2predictions, emitted, decoded, mirrorPc, mirrorValues, overran>>
  BY DEF Put, memories, predictions
<1>2. /\ accepted \in Seq(Inputs) /\ traceInputs \in Seq(Inputs) /\ emitted \in Nat
      /\ Len(accepted') = Len(accepted) + 1 /\ Len(traceInputs') = Len(traceInputs) + 1
      /\ \A i \in 1 .. Len(accepted) : accepted'[i] = accepted[i]
  BY <1>1 DEF FlowInv
<1>3. Started' = Started
  BY <1>2 DEF Started
<1>4. emitted + 1 \in 1 .. Len(accepted) => Current' = Current
  BY <1>1, <1>2 DEF Current
<1>5. ASSUME ~overran' PROVE Started' <= emitted' + 1 /\ PcInStep' /\ ValuesInStep'
  <2>1. Started <= emitted + 1 /\ PcInStep /\ ValuesInStep
    BY <1>1, <1>5 DEF InStep
  <2>2. PcInStep'
    <3>1. CASE ppredictions = << >>
      BY <1>1, <2>1, <3>1 DEF PcInStep
    <3>2. CASE ppredictions # << >>
      <4>1. Current' = Current
        BY <1>4, <3>2, FlowNumbers
      <4> QED BY <1>1, <2>1, <4>1 DEF PcInStep
    <3> QED BY <3>1, <3>2
  <2>3. ValuesInStep'
    <3>1. CASE vpredictions = << >>
      BY <1>1, <2>1, <3>1 DEF ValuesInStep
    <3>2. CASE vpredictions # << >>
      <4>1. Current' = Current
        BY <1>4, <3>2, FlowNumbers
      <4>2. CurrentCell' = CurrentCell
        BY <1>1, <4>1 DEF CurrentCell
      <4> QED BY <1>1, <2>1, <4>1, <4>2 DEF ValuesInStep
    <3> QED BY <3>1, <3>2
  <2> QED BY <1>1, <1>3, <2>1, <2>2, <2>3
<1>6. DecodedInv => DecodedInv'
  <2>1. emitted <= Len(accepted)
    BY FlowNumbers DEF FlowInv, PcPath, InPcPath, Flag
  <2> QED BY <1>1, <1>2, <2>1 DEF DecodedInv
<1> QED BY <1>5, <1>6 DEF InStep

LEMMA AppendDecoded ==
  ASSUME NEW D, NEW s \in Seq(D), NEW d
  PROVE  /\ Append(s, d) \in Seq(D \cup {d}) /\ Len(Append(s, d)) = Len(s) + 1
         /\ \A i \in 1 .. Len(s) : Append(s, d)[i] = s[i]
         /\ Append(s, d)[Len(s) + 1] = d
<1>1. s \in Seq(D \cup {d}) /\ d \in D \cup {d}
  OBVIOUS
<1> QED BY <1>1

(* What enq_predictions puts out decodes to the current entry. *)
LEMMA OutputDecodes ==
  ASSUME FlowInv, EntryInv, InStep, ~overran, PredictionsReady
  PROVE  /\ Started = emitted + 1 /\ Current \in Inputs
         /\ Decode(Output, mirrorPc, mirrorValues) = Sent(Current)
         /\ (IF IsCompressed(Output) THEN DecodePc(Output, mirrorPc)
             ELSE Decode(Output, mirrorPc, mirrorValues).trace.pc) = Current.pc
<1>1. Started = emitted + 1 /\ Current \in Inputs
  <2>1. emitted + 1 \in 1 .. Len(accepted) /\ accepted \in Seq(Inputs)
    BY FlowNumbers DEF FlowInv, PredictionsReady
  <2>2. Started >= emitted + 1
    <3>1. Len(ppredictions) = 1
      BY DEF FlowInv, PcPath, PredictionsReady
    <3> QED BY <3>1 DEF FlowInv, InPcPath, Flag
  <2>3. Started <= emitted + 1 /\ Started \in Nat /\ emitted \in Nat
    BY FlowNumbers DEF InStep, FlowInv
  <2> QED BY <2>1, <2>2, <2>3 DEF Current
<1>2. original_trace = Current
  BY <1>1 DEF EntryInv, Registered, Latest, Current, FlowInv
<1>3. PcRight(Head(ppredictions), mirrorPc, Current)
  BY DEF InStep, PcInStep, PredictionsReady
<1>4. ValuesRight(Head(vpredictions), Head(r1predictions), Head(r2predictions), CurrentCell, Current)
  BY DEF InStep, ValuesInStep, PredictionsReady
<1>5. CASE Head(vpredictions).predictor = EasyMiss
  <2>1. Output = Current
    BY <1>2, <1>5 DEF Output
  <2> QED BY <1>1, <2>1, OriginalDecodes
<1>6. CASE Head(vpredictions).predictor # EasyMiss
  <2>1. Output = Compressed(Head(ppredictions), Head(vpredictions), Head(r1predictions),
                            Head(r2predictions), Head(countpredictions))
    BY <1>6 DEF Output
  <2> HIDE DEF Output, Current
  <2>2. IsCompressed(Output) /\ DecodePc(Output, mirrorPc) = Current.pc
        /\ Decode(Output, mirrorPc, mirrorValues) = Sent(Current)
    BY <1>3, <1>4, <1>6, <2>1, CompressedDecodes DEF CurrentCell
  <2> QED BY <1>1, <2>2
<1> QED BY <1>5, <1>6

LEMMA InStepEnq ==
  ASSUME FlowInv, EntryInv, InStep, DecodedInv, enq_predictions
  PROVE  InStep' /\ DecodedInv'
<1> DEFINE d  == Decode(Output, mirrorPc, mirrorValues)
           pc == IF IsCompressed(Output) THEN DecodePc(Output, mirrorPc) ELSE d.trace.pc
<1>1. /\ PredictionsReady /\ ppredictions' = << >> /\ vpredictions' = << >>
      /\ emitted' = emitted + 1 /\ decoded' = Append(decoded, d)
      /\ mirrorPc' = LearnPc(mirrorPc, PcReadsOf(mirrorPc), pc)
      /\ mirrorValues' = [mirrorValues EXCEPT ![ValueIndex(pc)] =
                            LearnCell(mirrorValues[ValueIndex(pc)], d.trace, d.r1, d.r2, 0)]
      /\ UNCHANGED <<pcTables, valueTables, traceInputs, accepted, overran>>
  BY DEF enq_predictions, CanEmit, Receive, memories
<1>2. /\ Len(decoded) = emitted /\ emitted \in Nat
      /\ ~overran => \A i \in 1 .. emitted : decoded[i] = Sent(accepted[i])
  BY DEF DecodedInv, FlowInv
<1>3. ~overran => /\ Started = emitted + 1 /\ Current \in Inputs
                  /\ d = Sent(Current) /\ pc = Current.pc
  BY <1>1, OutputDecodes
<1> HIDE DEF d, pc
<1>4. /\ \E D : decoded' \in Seq(D)
      /\ Len(decoded') = emitted + 1
      /\ \A i \in 1 .. emitted : decoded'[i] = decoded[i]
      /\ decoded'[emitted + 1] = d
  <2>1. PICK D : decoded \in Seq(D)
    BY DEF DecodedInv
  <2>2. /\ Append(decoded, d) \in Seq(D \cup {d})
        /\ Len(Append(decoded, d)) = Len(decoded) + 1
        /\ \A i \in 1 .. Len(decoded) : Append(decoded, d)[i] = decoded[i]
        /\ Append(decoded, d)[Len(decoded) + 1] = d
    BY <2>1, AppendDecoded
  <2>3. \E E : decoded' \in Seq(E)
    BY <1>1, <2>2
  <2> QED BY <1>1, <1>2, <2>2, <2>3
<1>5. DecodedInv'
  <2>1. ASSUME ~overran', NEW i \in 1 .. emitted' PROVE decoded'[i] = Sent(accepted'[i])
    <3>1. CASE i = emitted + 1
      BY <1>1, <1>3, <1>4, <2>1, <3>1 DEF Current
    <3>2. CASE i \in 1 .. emitted
      BY <1>1, <1>2, <1>4, <2>1, <3>2
    <3> QED BY <1>1, <1>2, <3>1, <3>2
  <2>2. \A i \in 1 .. emitted' : ~overran' => decoded'[i] = Sent(accepted'[i])
    BY <2>1
  <2> QED BY <1>1, <1>4, <2>2 DEF DecodedInv
<1>6. ASSUME ~overran' PROVE Started' <= emitted' + 1 /\ PcInStep' /\ ValuesInStep'
  <2>1. PcInStep /\ ValuesInStep /\ ~overran
    BY <1>1, <1>6 DEF InStep
  <2>2. mirrorPc' = pcTables
    BY <1>1, <1>3, <2>1 DEF PcInStep, PredictionsReady
  <2>3. d.trace = TraceOf(Current) /\ d.r1 = Current.r1 /\ d.r2 = Current.r2
    BY <1>3, <2>1 DEF Sent
  <2>4. mirrorValues' = valueTables
    BY <1>1, <1>3, <2>1, <2>3 DEF ValuesInStep, CurrentCell, PredictionsReady
  <2>5. Started' = Started /\ Started <= emitted' + 1
    BY <1>1, <1>2, <1>3, <2>1 DEF Started
  <2> QED BY <1>1, <2>2, <2>4, <2>5 DEF PcInStep, ValuesInStep
<1> QED BY <1>5, <1>6 DEF InStep

LEMMA InStepStep ==
  CompressorInv /\ InStep /\ DecodedInv /\ [Next]_vars => InStep' /\ DecodedInv'
<1> SUFFICES ASSUME CompressorInv, InStep, DecodedInv, [Next]_vars PROVE InStep' /\ DecodedInv'
  OBVIOUS
<1>0. FlowInv /\ EntryInv /\ PredictInv
  BY DEF CompressorInv
<1>1. CASE \E te \in Inputs : Put(te)
  BY <1>0, <1>1, InStepPut
<1>2. CASE compress_trace
  <2>1. DecodedInv'
    <3>1. UNCHANGED <<decoded, emitted, accepted>> /\ (overran => overran')
      BY <1>2 DEF compress_trace
    <3> QED BY <3>1 DEF DecodedInv
  <2> QED BY <1>0, <1>2, <2>1, InStepStart
<1>3. CASE predictPC
  <2>1. UNCHANGED <<decoded, emitted, accepted, overran>>
    BY <1>3 DEF predictPC, history
  <2> QED BY <1>0, <1>3, <2>1, InStepPc DEF DecodedInv
<1>4. CASE predictTrace
  <2>1. UNCHANGED <<decoded, emitted, accepted, overran>>
    BY <1>4 DEF predictTrace, history
  <2> QED BY <1>0, <1>4, <2>1, InStepTrace DEF DecodedInv
<1>5. CASE enq_predictions
  BY <1>0, <1>5, InStepEnq
<1>6. CASE Get \/ Idle \/ UNCHANGED vars
  <2>1. UNCHANGED <<pcTables, valueTables, predictions, traceInputs, accepted, emitted,
                    decoded, mirrorPc, mirrorValues, overran>>
    BY <1>6 DEF Get, Idle, vars, memories, fifos, history
  <2> QED BY <2>1 DEF InStep, DecodedInv, PcInStep, ValuesInStep, CurrentCell, Current, Started,
             predictions
<1> QED BY <1>1, <1>2, <1>3, <1>4, <1>5, <1>6 DEF Next

(* A decoder that keeps the same tables recovers every entry but its cycle *)
(* count, and ends up with the same tables, as long as compress_trace took *)
(* no entry while predictions were waiting: the condition under which the  *)
(* compressed trace can be read at all.                                    *)
THEOREM LosslessCorrect == Spec => [](Lossless /\ DecoderInStep)
<1>1. Init => InStep /\ DecodedInv
  <2>1. << >> \in Seq({}) /\ Len(<< >>) = 0
    OBVIOUS
  <2> QED BY <2>1 DEF Init, InStep, DecodedInv, PcInStep, ValuesInStep, Started
<1>2. CompressorInv /\ InStep /\ DecodedInv => Lossless /\ DecoderInStep
  <2> SUFFICES ASSUME CompressorInv, InStep, DecodedInv PROVE Lossless /\ DecoderInStep
    OBVIOUS
  <2>1. Lossless
    <3>1. DOMAIN decoded = 1 .. emitted
      <4>1. PICK D : decoded \in Seq(D)
        BY DEF DecodedInv
      <4> QED BY <4>1 DEF DecodedInv
    <3> QED BY <3>1 DEF Lossless, DecodedInv
  <2>2. DecoderInStep
    <3>1. FlowInv
      BY DEF CompressorInv
    <3>2. InPcPath = 0 => ppredictions = << >>
      BY <3>1 DEF FlowInv, PcPath, InPcPath, Flag
    <3>3. InValuePath = 0 => vpredictions = << >>
      BY <3>1 DEF FlowInv, ValuePath, InValuePath, Flag
    <3> QED BY <3>2, <3>3 DEF DecoderInStep, InStep, PcInStep, ValuesInStep
  <2> QED BY <2>1, <2>2
<1>3. CompressorInv /\ InStep /\ DecodedInv /\ [Next]_vars => InStep' /\ DecodedInv'
  BY InStepStep
<1> QED BY <1>1, <1>2, <1>3, CompressorInvAlways, CompressorInvInit, CompressorInvStep, PTL DEF Spec

(* The decoder's tables are the compressor's, between entries.             *)
THEOREM DecoderCorrect == Spec => []DecoderInStep
<1>1. Lossless /\ DecoderInStep => DecoderInStep
  OBVIOUS
<1> QED BY <1>1, LosslessCorrect, PTL
=============================================================================
