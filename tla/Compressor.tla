----------------------------- MODULE Compressor -----------------------------
(***************************************************************************)
(* mkCompressor and the pipeline of mkTracePredictor inside it.            *)
(*                                                                         *)
(* A trace entry is taken from traceInputs by compress_trace, which starts *)
(* the table reads; predictPC and predictTrace turn what was read into one *)
(* prediction per field, each in a FIFO of its own; enq_predictions takes  *)
(* one prediction from every FIFO and puts an entry in compressedOutputs:  *)
(* a compressed one, or the original entry if the easy fields were not     *)
(* predicted.  An action is a rule or a method; rules that fire in one     *)
(* clock cycle are fired one after the other, in the schedule's order.     *)
(*                                                                         *)
(* An entry has the fields version, easy (ex, asid, branch, reserved and   *)
(* inst, predicted as one), pc, r1 and r2 (regVal1, regVal2) and count.    *)
(***************************************************************************)
EXTENDS TracePredictor

CONSTANTS Inputs,      \* the trace entries the debug unit may compress
          FifoDepth,   \* entries an mkFIFO holds: 2
          MaxTraces    \* bound: entries compressed in a behaviour

ASSUME FifoAssumption == FifoDepth \in Nat \ {0} /\ MaxTraces \in Nat

VARIABLES
  traceInputs, compressedOutputs,
  pstate, vstate,                              \* "Predict" or "Done"
  pc_reg, trace_reg, r1data, r2data, original_trace,
  pcTables, valueTables,
  pcReads, valueReads,                         \* addresses of reads under way
  pused, vused, vusedr1, vusedr2, vused_count, \* how often each code was used
  ppredictions, vpredictions, r1predictions, r2predictions, countpredictions,
  accepted,       \* history: the entries put into the compressor
  emitted,        \* history: how many entries enq_predictions has put out
  taken,          \* history: how many outputs were taken
  decoded,        \* history: what the reference decoder made of the outputs
  mirrorPc, mirrorValues, \* history: the reference decoder's tables
  overran         \* history: a trace entered while predictions were waiting

registers   == <<pc_reg, trace_reg, r1data, r2data, original_trace>>
states      == <<pstate, vstate>>
memories    == <<pcTables, valueTables, pcReads, valueReads>>
counters    == <<pused, vused, vusedr1, vusedr2, vused_count>>
predictions == <<ppredictions, vpredictions, r1predictions, r2predictions, countpredictions>>
fifos       == <<traceInputs, compressedOutputs>>
history     == <<accepted, emitted, taken, decoded, mirrorPc, mirrorValues, overran>>
vars == <<registers, states, memories, counters, predictions, fifos, history>>

count_reg == 0      \* the register is reset to 0 and never assigned

TraceOf(te) == [version |-> te.version, easy |-> te.easy, pc |-> te.pc]

-----------------------------------------------------------------------------
(* The encoding of enq_predictions. *)

versions == <<5, 6, 7, 8, 9, 10, 14, 15>>

(* Writeback makes entries of the versions 0 to 4 and 11 to 13. *)
ASSUME InputsAssumption ==
  \A te \in Inputs : \A i \in DOMAIN versions : te.version # versions[i]

Flag(miss, weight) == IF miss THEN weight ELSE 0
VersionIndex(pcMissed, r1Missed, r2Missed) ==
  Flag(pcMissed, 1) + Flag(r1Missed, 2) + Flag(r2Missed, 4)

(* mutant: the second word is always the second register *)
CompressedR2Second(p, v, r1, r2, c) ==
  [version    |-> versions[VersionIndex(p.predictor = PcMiss, r1.predictor = RegMiss,
                                        r2.predictor = RegMiss) + 1],
   pc_pred    |-> p.predictor % 8, easy_pred |-> v.predictor % 8,
   count_pred |-> c.predictor % 2,
   r1_pred    |-> r1.predictor % 8, r2_pred |-> r2.predictor % 8,
   data1      |-> IF p.predictor = PcMiss THEN p.data
                  ELSE IF r1.predictor = RegMiss THEN r1.data ELSE r2.data,
   data2      |-> r2.data, data3 |-> r2.data]

(* The entry for predictions p, r1 and r2; codes are cut to their fields.  *)
Compressed(p, v, r1, r2, c) ==
  LET pcMissed == p.predictor = PcMiss
      r1Missed == r1.predictor = RegMiss
      r2Missed == r2.predictor = RegMiss
      r1OrR2   == IF r1Missed THEN r1.data ELSE r2.data
  IN [version    |-> versions[VersionIndex(pcMissed, r1Missed, r2Missed) + 1],
      pc_pred    |-> p.predictor % 8,
      easy_pred  |-> v.predictor % 8,
      count_pred |-> c.predictor % 2,
      r1_pred    |-> r1.predictor % 8,
      r2_pred    |-> r2.predictor % 8,
      data1      |-> IF pcMissed THEN p.data ELSE r1OrR2,
      data2      |-> r1OrR2,
      data3      |-> r2.data]

-----------------------------------------------------------------------------
(* A reference decoder.  The repository has none: this one does what the   *)
(* encoding allows, from the outputs and tables of its own.                *)

IsCompressed(o) == \E i \in DOMAIN versions : o.version = versions[i]

(* Which fields an entry says were mispredicted, by its version. *)
Missed(o, weight) ==
  \E i \in DOMAIN versions : o.version = versions[i] /\ ((i - 1) \div weight) % 2 = 1

PcReadsOf(t) == [b0 |-> t.pfcma0, b2 |-> t.pfcma2]

(* A register from its proposals: codes 8, 9 and 10 arrive as 0, 1 and 2.  *)
RegOf(proposal, pred) == proposal[IF pred < 4 THEN pred + 8 ELSE pred]

DecodePc(o, t) == IF Missed(o, 1) THEN o.data1 ELSE PcProposal(t, PcReadsOf(t))[o.pc_pred]

Decode(o, t, vt) ==
  IF ~IsCompressed(o)
  THEN [trace |-> TraceOf(o), r1 |-> o.r1, r2 |-> o.r2]
  ELSE LET pc   == DecodePc(o, t)
           cell == vt[ValueIndex(pc)]
       IN [trace |-> EasyProposal(cell)[o.easy_pred],
           r1 |-> IF Missed(o, 2) THEN (IF Missed(o, 1) THEN o.data2 ELSE o.data1)
                                  ELSE RegOf(R1Proposal(cell), o.r1_pred),
           r2 |-> IF Missed(o, 4) THEN o.data3 ELSE RegOf(R2Proposal(cell), o.r2_pred)]

(* The decoder receives output o: it decodes it and learns from the result.*)
Receive(o) ==
  LET d    == Decode(o, mirrorPc, mirrorValues)
      pc   == IF IsCompressed(o) THEN DecodePc(o, mirrorPc) ELSE d.trace.pc
      i    == ValueIndex(pc)
  IN /\ decoded' = Append(decoded, d)
     /\ mirrorPc' = LearnPc(mirrorPc, PcReadsOf(mirrorPc), pc)
     /\ mirrorValues' = [mirrorValues EXCEPT ![i] = LearnCell(@, d.trace, d.r1, d.r2, 0)]

-----------------------------------------------------------------------------
ZeroTrace == [version |-> 0, easy |-> 0, pc |-> 0]
ZeroEntry == [version |-> 0, easy |-> 0, pc |-> 0, r1 |-> 0, r2 |-> 0, count |-> 0]
Zeros(n) == [c \in 0 .. n - 1 |-> 0]

Init ==
  /\ traceInputs = << >> /\ compressedOutputs = << >>
  /\ pstate = "Done" /\ vstate = "Done"
  /\ pc_reg = 0 /\ trace_reg = ZeroTrace /\ r1data = 0 /\ r2data = 0
  /\ original_trace = ZeroEntry           \* mkRegU: any value
  /\ pcTables = PcTables0 /\ valueTables = ValueTables0
  /\ pcReads = << >> /\ valueReads = << >>
  /\ pused = Zeros(5) /\ vused = Zeros(11) /\ vusedr1 = Zeros(11) /\ vusedr2 = Zeros(11)
  /\ vused_count = Zeros(3)
  /\ ppredictions = << >> /\ vpredictions = << >> /\ r1predictions = << >>
  /\ r2predictions = << >> /\ countpredictions = << >>
  /\ accepted = << >> /\ emitted = 0 /\ taken = 0 /\ decoded = << >>
  /\ mirrorPc = PcTables0 /\ mirrorValues = ValueTables0
  /\ overran = FALSE

(* mutant: no check for a full FIFO *)
PutAlways(te) ==
  /\ Len(accepted) < MaxTraces
  /\ traceInputs' = Append(traceInputs, te)
  /\ accepted' = Append(accepted, te)
  /\ UNCHANGED <<registers, states, memories, counters, predictions, compressedOutputs,
                 emitted, taken, decoded, mirrorPc, mirrorValues, overran>>

(* Interface enq: the debug unit puts an entry. *)
Put(te) ==
  /\ Len(accepted) < MaxTraces
  /\ Len(traceInputs) < FifoDepth
  /\ traceInputs' = Append(traceInputs, te)
  /\ accepted' = Append(accepted, te)
  /\ UNCHANGED <<registers, states, memories, counters, predictions, compressedOutputs,
                 emitted, taken, decoded, mirrorPc, mirrorValues, overran>>

(* All five prediction FIFOs have an element and the output has room. *)
PredictionsReady == /\ ppredictions # << >> /\ vpredictions # << >> /\ r1predictions # << >>
                    /\ r2predictions # << >> /\ countpredictions # << >>
CanEmit == PredictionsReady /\ Len(compressedOutputs) < FifoDepth

PredictionsWaiting == \/ ppredictions # << >> \/ vpredictions # << >> \/ r1predictions # << >>
                      \/ r2predictions # << >> \/ countpredictions # << >>

(* mutant: it waits for one of the two paths only *)
predictUpdatePcDone(te) ==
  /\ pstate = "Done"
  /\ pc_reg' = te.pc /\ r1data' = te.r1 /\ r2data' = te.r2
  /\ original_trace' = te /\ trace_reg' = TraceOf(te)
  /\ pcReads' = Append(pcReads, PcReadsOf(pcTables))
  /\ valueReads' = Append(valueReads, ValueIndex(te.pc))
  /\ pstate' = "Predict" /\ vstate' = "Predict"

(* Method predictUpdate; overwrites the registers of the entry before. *)
predictUpdate(te) ==
  /\ pstate = "Done" /\ vstate = "Done"
  /\ pc_reg' = te.pc /\ r1data' = te.r1 /\ r2data' = te.r2
  /\ original_trace' = te /\ trace_reg' = TraceOf(te)
  /\ pcReads' = Append(pcReads, PcReadsOf(pcTables))
  /\ valueReads' = Append(valueReads, ValueIndex(te.pc))
  /\ pstate' = "Predict" /\ vstate' = "Predict"

(* Rule compress_trace.  enq_predictions reads original_trace, which this  *)
(* rule writes, so in a cycle in which both can fire it goes first.        *)
compress_trace ==
  /\ traceInputs # << >>
  /\ ~CanEmit
  /\ traceInputs' = Tail(traceInputs)
  /\ predictUpdate(Head(traceInputs))
  /\ overran' = (overran \/ PredictionsWaiting)
  /\ UNCHANGED <<pcTables, valueTables, counters, predictions, compressedOutputs,
                 accepted, emitted, taken, decoded, mirrorPc, mirrorValues>>

(* The prediction of one field, from what its tables proposed. *)
Predict(proposal, value, used, miss) ==
  [predictor |-> MostUsed(Hits(proposal, value), used, miss), data |-> value]

(* mutant: the tables learn only what they had not predicted *)
predictPCLearningMisses ==
  /\ pstate = "Predict" /\ pcReads # << >> /\ ppredictions = << >>
  /\ LET reads == Head(pcReads)
         p     == Predict(PcProposal(pcTables, reads), pc_reg, pused, PcMiss)
     IN /\ pcTables' = IF p.predictor = PcMiss THEN LearnPc(pcTables, reads, pc_reg) ELSE pcTables
        /\ pused' = Bump(pused, p.predictor)
        /\ ppredictions' = <<p>>
  /\ pcReads' = Tail(pcReads)
  /\ pstate' = "Done"
  /\ UNCHANGED <<registers, vstate, valueTables, valueReads, vused, vusedr1, vusedr2, vused_count,
                 vpredictions, r1predictions, r2predictions, countpredictions, fifos, history>>

(* Rule predictPC. *)
predictPC ==
  /\ pstate = "Predict" /\ pcReads # << >> /\ ppredictions = << >>
  /\ LET reads == Head(pcReads)
         p     == Predict(PcProposal(pcTables, reads), pc_reg, pused, PcMiss)
     IN /\ pcTables' = LearnPc(pcTables, reads, pc_reg)
        /\ pused' = Bump(pused, p.predictor)
        /\ ppredictions' = <<p>>
  /\ pcReads' = Tail(pcReads)
  /\ pstate' = "Done"
  /\ UNCHANGED <<registers, vstate, valueTables, valueReads, vused, vusedr1, vusedr2, vused_count,
                 vpredictions, r1predictions, r2predictions, countpredictions, fifos, history>>

(* Rule predictTrace. *)
predictTrace ==
  /\ vstate = "Predict" /\ valueReads # << >>
  /\ vpredictions = << >> /\ r1predictions = << >> /\ r2predictions = << >>
  /\ countpredictions = << >>
  /\ LET cell == valueTables[Head(valueReads)]
         v  == Predict(EasyProposal(cell), trace_reg, vused, EasyMiss)
         r1 == Predict(R1Proposal(cell), r1data, vusedr1, RegMiss)
         r2 == Predict(R2Proposal(cell), r2data, vusedr2, RegMiss)
         c  == Predict(CountProposal(cell), count_reg, vused_count, CountMiss)
     IN /\ valueTables' = [valueTables EXCEPT ![ValueIndex(pc_reg)] =
                             LearnCell(cell, trace_reg, r1data, r2data, count_reg)]
        /\ vused' = Bump(vused, v.predictor)
        /\ vusedr1' = Bump(vusedr1, r1.predictor)
        /\ vusedr2' = Bump(vusedr2, r2.predictor)
        /\ vused_count' = Bump(vused_count, c.predictor)
        /\ vpredictions' = <<v>> /\ r1predictions' = <<r1>> /\ r2predictions' = <<r2>>
        /\ countpredictions' = <<c>>
  /\ valueReads' = Tail(valueReads)
  /\ vstate' = "Done"
  /\ UNCHANGED <<registers, pstate, pcTables, pcReads, pused, ppredictions, fifos, history>>

(* What enq_predictions puts out for the heads of the prediction FIFOs. *)
Output == IF Head(vpredictions).predictor = EasyMiss
          THEN original_trace
          ELSE Compressed(Head(ppredictions), Head(vpredictions), Head(r1predictions),
                          Head(r2predictions), Head(countpredictions))

(* mutant: the register predictions stay behind when the original is sent *)
enq_predictionsPartly ==
  /\ CanEmit
  /\ ppredictions' = << >> /\ vpredictions' = << >> /\ countpredictions' = << >>
  /\ r1predictions' = IF IsCompressed(Output) THEN << >> ELSE r1predictions
  /\ r2predictions' = << >>
  /\ compressedOutputs' = Append(compressedOutputs, Output)
  /\ emitted' = emitted + 1
  /\ Receive(Output)
  /\ UNCHANGED <<registers, states, memories, counters, traceInputs, accepted, taken, overran>>

(* Rule enq_predictions. *)
enq_predictions ==
  /\ CanEmit
  /\ ppredictions' = << >> /\ vpredictions' = << >> /\ r1predictions' = << >>
  /\ r2predictions' = << >> /\ countpredictions' = << >>
  /\ compressedOutputs' = Append(compressedOutputs, Output)
  /\ emitted' = emitted + 1
  /\ Receive(Output)
  /\ UNCHANGED <<registers, states, memories, counters, traceInputs, accepted, taken, overran>>

(* Interface first_deq: the debug unit gets an output. *)
Get ==
  /\ compressedOutputs # << >>
  /\ compressedOutputs' = Tail(compressedOutputs)
  /\ taken' = taken + 1
  /\ UNCHANGED <<registers, states, memories, counters, predictions, traceInputs,
                 accepted, emitted, decoded, mirrorPc, mirrorValues, overran>>

(* A cycle in which no rule fires. *)
Idle == UNCHANGED vars

Next == \/ \E te \in Inputs : Put(te)
        \/ compress_trace \/ predictPC \/ predictTrace \/ enq_predictions
        \/ Get \/ Idle

(* The hardware fires every rule that can fire; the debug unit takes what  *)
(* is offered.                                                             *)
Fairness == /\ WF_vars(compress_trace) /\ WF_vars(predictPC) /\ WF_vars(predictTrace)
            /\ WF_vars(enq_predictions) /\ WF_vars(Get)

Spec == Init /\ [][Next]_vars /\ Fairness

-----------------------------------------------------------------------------
(* Type invariant. *)
FieldValues(f) == {te[f] : te \in Inputs} \cup {0}
TraceType == [version : FieldValues("version"), easy : FieldValues("easy"), pc : FieldValues("pc")]
AtMostOne(S) == {<< >>} \cup {<<x>> : x \in S}
RegPrediction(f) == [predictor : 4 .. 10, data : FieldValues(f)]
Words == FieldValues("pc") \cup FieldValues("r1") \cup FieldValues("r2")
CompressedType == [version : {versions[i] : i \in DOMAIN versions}, pc_pred : 0 .. 7,
                   easy_pred : 0 .. 7, count_pred : 0 .. 1, r1_pred : 0 .. 7, r2_pred : 0 .. 7,
                   data1 : Words, data2 : Words, data3 : Words]
Outputs == Inputs \cup {ZeroEntry} \cup CompressedType
TypeOK ==
  /\ traceInputs \in Seq(Inputs) /\ Len(traceInputs) <= FifoDepth
  /\ compressedOutputs \in Seq(Outputs) /\ Len(compressedOutputs) <= FifoDepth
  /\ pstate \in {"Predict", "Done"} /\ vstate \in {"Predict", "Done"}
  /\ pc_reg \in FieldValues("pc") /\ r1data \in FieldValues("r1") /\ r2data \in FieldValues("r2")
  /\ trace_reg \in TraceType
  /\ original_trace \in Inputs \cup {ZeroEntry}
  /\ ppredictions \in AtMostOne([predictor : 0 .. 4, data : FieldValues("pc")])
  /\ vpredictions \in AtMostOne([predictor : 4 .. 10, data : TraceType])
  /\ r1predictions \in AtMostOne(RegPrediction("r1"))
  /\ r2predictions \in AtMostOne(RegPrediction("r2"))
  /\ countpredictions \in AtMostOne([predictor : 0 .. 2, data : {0}])

(* Entries between traceInputs and enq_predictions, on either path. *)
InPcPath    == Flag(pstate = "Predict", 1) + Len(ppredictions)
InValuePath == Flag(vstate = "Predict", 1) + Len(vpredictions)

(* No entry is lost or duplicated on its way: what was accepted is waiting *)
(* in traceInputs, under way on both prediction paths, or was put out.     *)
NothingLost ==
  /\ emitted + InPcPath + Len(traceInputs) = Len(accepted)
  /\ emitted + InValuePath + Len(traceInputs) = Len(accepted)
  /\ taken + Len(compressedOutputs) = emitted

(* The entry whose predictions are put out next. *)
Current == accepted[emitted + 1]

(* The five FIFOs are filled by two rules that do not wait for each other; *)
(* yet at their heads are always predictions of one and the same entry,    *)
(* the oldest that was not put out.                                        *)
PredictionsBelongTogether ==
  /\ ppredictions # << >> => Head(ppredictions).data = Current.pc
  /\ vpredictions # << >> => Head(vpredictions).data = TraceOf(Current)
  /\ r1predictions # << >> => Head(r1predictions).data = Current.r1
  /\ r2predictions # << >> => Head(r2predictions).data = Current.r2

(* A table word is written back at the address it was read from, though    *)
(* the address of the read was computed when the entry came in and that of *)
(* the write when its prediction is made.                                  *)
WritesMatchReads ==
  /\ pcReads # << >> => Head(pcReads) = PcReadsOf(pcTables)
  /\ valueReads # << >> => Head(valueReads) = ValueIndex(pc_reg)

(* Lossless: a decoder that keeps the same tables recovers every entry but *)
(* its cycle count, as long as no entry came in while predictions waited.  *)
Sent(te) == [trace |-> TraceOf(te), r1 |-> te.r1, r2 |-> te.r2]
Lossless == ~overran => \A i \in DOMAIN decoded : decoded[i] = Sent(accepted[i])

(* The decoder's tables are the compressor's whenever nothing is under way.*)
DecoderInStep ==
  ~overran /\ InPcPath = 0 /\ InValuePath = 0
    => mirrorPc = pcTables /\ mirrorValues = valueTables

(* Liveness: what the debug unit puts in comes out.  It puts MaxTraces     *)
(* entries at most, so from some time on all of them are out.              *)
EverythingComesOut == <>[](taken = Len(accepted))

-----------------------------------------------------------------------------
(* What the comments and the report say of the encoding. *)

(* Compressor.bsv:510, "if we get the easy data wrong, send it back": an   *)
(* entry whose easy fields were mispredicted is the one that is sent.      *)
MispredictedIsSentBack ==
  PredictionsReady /\ Head(vpredictions).predictor = EasyMiss => original_trace = Current
=============================================================================
