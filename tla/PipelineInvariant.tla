------------------------- MODULE PipelineInvariant -------------------------
(***************************************************************************)
(* What is invariant of the pipeline, and inductive: PipelineProofs proves *)
(* it.                                                                     *)
(*                                                                         *)
(* IInv says of what type everything is, and accounts for the rename       *)
(* registers.  FlowInv says that a settled core executes its program: that *)
(* each instruction has, or is to find, the registers that those before it *)
(* leave (Values), and that the live ones follow each other in the program *)
(* as far as the predictions made for them are true (Control).             *)
(***************************************************************************)
EXTENDS Pipeline, FiniteSets

-----------------------------------------------------------------------------
(* The accounting of rename registers.  They are given away in a circle:   *)
(* the one of a writer is as many places behind the next as there are      *)
(* writers from it on, and limiter counts them all.                        *)
From(q, k) == { j \in Writers(q) : j >= k }

Ahead(s, n) == IF s + n < RenameRegs THEN s + n ELSE s + n - RenameRegs

Accounted(q, limiter, next) ==
  /\ limiter = Cardinality(Writers(q))
  /\ \A k \in Writers(q) : next = Ahead(q[k].regNum, Cardinality(From(q, k)))

RegFileInv(r) == RegFileOK(r) /\ Accounted(InFlight(r), r.limiter, r.nextReReg)

-----------------------------------------------------------------------------
(* The parts of the invariant of the pipeline.  flushCount counts the      *)
(* predictions that are put at the start, too: BranchInv bounds it then.   *)
FifoOK(q) == q \in Seq(Token) /\ Len(q) <= FifoSize

BranchInv ==
  /\ pc \in Address /\ specPc \in Address
  /\ epoch \in Epoch /\ issueEpoch \in Epoch
  /\ newEpoch \in Seq(Epoch) /\ Len(newEpoch) <= 1
  /\ flushing \in BOOLEAN /\ flushCount \in 0 .. FlushCycles /\ state \in { "Init", "Run" }
  /\ state = "Init" => flushCount <= 1
  /\ predictions \in Seq(Prediction) /\ Len(predictions) <= PredictionsSize
  /\ predictionCheck \in Seq(PredictionRecord) /\ Len(predictionCheck) <= CheckSize

SchedulerInv == lastWasBranch \in BOOLEAN /\ lastEpoch \in Epoch

FifosInv ==
  /\ FifoOK(toScheduler) /\ FifoOK(scheduled) /\ FifoOK(decoded) /\ FifoOK(pendingOps)
  /\ FifoOK(executed) /\ FifoOK(accessed) /\ Len(pendingOps) <= 1

DueInv == due \in [at : Address \cup { NoAddress }, after : Address \cup { NoAddress }]

IInv == BranchInv /\ SchedulerInv /\ FifosInv /\ RegFileInv(rf) /\ pause \in BOOLEAN /\ DueInv

-----------------------------------------------------------------------------
(* Where the instructions are.  p is the sequence of the instructions in   *)
(* the pipeline, oldest first: the first Wb(r) have been executed, the     *)
(* operands of those up to Rd(r) have been read from the register file,    *)
(* and the next Len(readReq) wait for that.                                *)
Wb(r) == Len(r.wbReRegWrite)
Rd(r) == Wb(r) + Len(r.readReport)

(* What the register file keeps of an instruction.                         *)
Flags(t, w) ==
  /\ w.write = Writes(t.inst) /\ w.conditional = IsConditional(t.inst)
  /\ w.pending = (t.inst.kind = "load")

Request(t) ==
  [epoch |-> t.epoch, fromDebug |-> t.fromDebug, srcs |-> [o \in Operands |-> t.inst[o]],
   write |-> Writes(t.inst), dest |-> t.inst.dest,
   pendingWrite |-> t.inst.kind = "load", conditionalUpdate |-> IsConditional(t.inst)]

Aligned(p, r) ==
  /\ Rd(r) + Len(r.readReq) <= Len(p)
  /\ \A i \in 1 .. Rd(r) : Flags(p[i], InFlight(r)[i])
  /\ \A i \in 1 .. Len(r.readReq) : r.readReq[i] = Request(p[Rd(r) + i])

(* The rename register of a writer is nobody's who comes later.            *)
Separated(f) ==
  \A i, j \in DOMAIN f : i < j /\ f[i].write => f[i].regNum # f[j].regNum

(* A rename register that a load owes its value is not valid.              *)
Owing(r) ==
  /\ \A i \in 1 .. Wb(r) :
       LET w == InFlight(r)[i] IN w.write /\ w.pending => ~RolledIn(r)[w.regNum].valid
  /\ r.pendVal # <<>> => ~r.rnRegs[r.pendVal[1].regNum].valid

(* A register other than 0 has at most one tag; the tags are of the epoch  *)
(* e when an instruction of that epoch is between reading and writeback.   *)
TagsOK(r) ==
  \A s \in RenameReg : r.rnTags[s].valid =>
    /\ r.rnTags[s].regNum # 0
    /\ \A u \in RenameReg : r.rnTags[u].valid /\ r.rnTags[u].regNum = r.rnTags[s].regNum => u = s

TagsOf(r, e) == \A s \in RenameReg : r.rnTags[s].valid => r.rnTags[s].epoch = e

TagsLive(p, e, r) == (\E i \in 1 .. Rd(r) : p[i].epoch = e) => TagsOf(r, e)

(* Whether the live instruction t may write register x, and whether none   *)
(* of those from a to before b may.                                        *)
MayWrite(t, e, x) == t.epoch = e /\ x # 0 /\ t.inst.dest = x
None(p, e, x, a, b) == \A j \in a .. b - 1 : ~MayWrite(p[j], e, x)

(* The registers that the instruction t leaves when it has been executed,  *)
(* from those before it: what a load owes is named by its rename register. *)
Owe(s) == s + 2

Left(t, s) == IF t.inst.kind = "load" THEN Owe(s) ELSE t.result

After(t, e, s, regs) ==
  IF t.epoch = e /\ DoesWrite(t.inst, t.b)
  THEN [regs EXCEPT ![t.inst.dest] = Left(t, s)] ELSE regs

(* t has the operands and the result that it should have.                  *)
Given(t, o, regs) == IF t.fromDebug /\ t.inst[o] = 0 THEN DebugOperand ELSE regs[t.inst[o]]

Right(t, regs) ==
  /\ t.a = Given(t, "a", regs) /\ t.b = Given(t, "b", regs)
  /\ t.result = Result(t.inst, t.pc, t.a, t.b)

(* v[i] is the register file that the instruction p[i] is to find: v[1] is *)
(* the register file, and the first k instructions have found theirs.      *)
Course(p, e, r, k, v) ==
  /\ v \in [1 .. Wb(r) + 1 -> [Register -> Nat]]
  /\ v[1] = r.regFile
  /\ \A i \in 1 .. Wb(r) : v[i + 1] = After(p[i], e, InFlight(r)[i].regNum, v[i])
  /\ \A i \in 1 .. k : p[i].epoch = e => Right(p[i], v[i])
  /\ \A x \in Register : v[Wb(r) + 1][x] \notin Value =>
       \E j \in 1 .. Wb(r) : LET w == InFlight(r)[j] IN
         p[j].epoch = e /\ w.write /\ w.pending /\ v[Wb(r) + 1][x] = Owe(w.regNum)

(* The register file has what register x is to be, and so have those from  *)
(* the i-th instruction on whose operands have been read.                  *)
Steady(r, v, x) == \A j \in 1 .. Wb(r) + 1 : v[j][x] = r.regFile[x]

Current(p, r, m, o) ==
  LET t == p[Wb(r) + m] IN r.readReport[m].regFileVals[o] = ReadValue(r, t, t.inst[o])

UpToDate(p, e, r, i, x) ==
  \A m \in 1 .. Len(r.readReport), o \in Operands :
    /\ Wb(r) + m >= i /\ p[Wb(r) + m].epoch = e /\ p[Wb(r) + m].inst[o] = x
    => Current(p, r, m, o)

(* n names the last instruction before the i-th that may write register x, *)
(* or, when there is none, a rename register of none of them.              *)
Names(w) == [valid |-> TRUE, regNum |-> w.regNum, pending |-> w.pending]

Named(p, e, f, w, i, n, x) ==
  \/ \E j \in 1 .. i - 1 : /\ MayWrite(p[j], e, x) /\ None(p, e, x, j + 1, i)
                           /\ n = Names(f[j])
  \/ /\ None(p, e, x, 1, i)
     /\ n.valid => \A j \in 1 .. i - 1 : (j > w \/ f[j].write) => f[j].regNum # n.regNum

(* n leads to what register x is when everything executed has completed.   *)
Known(r, n) == n.valid /\ RolledIn(r)[n.regNum].valid

Valued(p, e, r, v, i, n, x) ==
  LET val == v[Wb(r) + 1][x] IN
  \/ n.valid /\ n.pending /\ val = Owe(n.regNum)
  \/ Known(r, n) /\ val = RolledIn(r)[n.regNum].register
  \/ ~Known(r, n) /\ Steady(r, v, x) /\ UpToDate(p, e, r, i, x)

Source(p, e, r, v, i, n, x) ==
  /\ n.valid => x # 0
  /\ Named(p, e, InFlight(r), Wb(r), i, n, x)
  /\ None(p, e, x, Wb(r) + 1, i) => Valued(p, e, r, v, i, n, x)

Sources(p, e, r, v) ==
  /\ \A m \in 1 .. Len(r.readReport) : p[Wb(r) + m].epoch = e =>
       LET t == p[Wb(r) + m] IN
       /\ \A o \in Operands : Source(p, e, r, v, Wb(r) + m, r.readReport[m].srcs[o], t.inst[o])
       /\ Writes(t.inst) => Source(p, e, r, v, Wb(r) + m, r.readReport[m].old, t.inst.dest)
  /\ \A x \in Register : Source(p, e, r, v, Rd(r) + 1, Renamed(r, e, x), x)

(* While an instruction of the debug unit's is the oldest, the register    *)
(* file has not changed since operands were read.                          *)
Unwritten(p, r) ==
  p[1].fromDebug => \A m \in 1 .. Len(r.readReport), o \in Operands : Current(p, r, m, o)

Values(p, e, r, k, v) == Course(p, e, r, k, v) /\ Sources(p, e, r, v)

Ordered(p, e, r) ==
  /\ Aligned(p, r) /\ Separated(InFlight(r)) /\ Owing(r) /\ TagsOK(r) /\ TagsLive(p, e, r)

-----------------------------------------------------------------------------
(* The flow of control.  c holds what the branch predictor and the         *)
(* scheduler know.  p is again the sequence of the instructions in the     *)
(* pipeline; the first s have passed the scheduler, and g is the first     *)
(* that is not the debug unit's.                                           *)
Branching ==
  [pc |-> pc, specPc |-> specPc, epoch |-> epoch, issueEpoch |-> issueEpoch,
   newEpoch |-> newEpoch, flushCount |-> flushCount, state |-> state,
   predictions |-> predictions, predictionCheck |-> predictionCheck,
   lastWasBranch |-> lastWasBranch, lastEpoch |-> lastEpoch, due |-> due]

FirstOf(p) == IF p # <<>> /\ p[1].fromDebug THEN 2 ELSE 1

(* Only the first may be the debug unit's, and it is alive.                *)
Debugged(p, c) ==
  /\ \A i \in 2 .. Len(p) : ~p[i].fromDebug
  /\ p # <<>> /\ p[1].fromDebug =>
       /\ p[1].epoch = c.epoch /\ c.newEpoch = <<>> /\ ~p[1].branchDelay
       /\ p[1].inst \in DebugInstructions /\ p[1].pc = Reset
  /\ \A i \in 1 .. Len(p) : ~p[i].fromDebug => p[i].inst = Code[p[i].pc]

(* When one is alive, so are those after it and the next to be fetched.    *)
Latest(p, e) == \A i, j \in 1 .. Len(p) : p[i].epoch = e /\ i <= j => p[j].epoch = e

Issuing(p, c) ==
  Latest(p, c.epoch) /\ \A i \in 1 .. Len(p) : p[i].epoch = c.epoch => c.issueEpoch = c.epoch

(* Each live one knows whether it is in a branch delay slot.               *)
Delays(p, g, s, c) ==
  /\ \A i \in g .. s : p[i].epoch = c.epoch =>
       (p[i].branchDelay <=> IF i = g THEN c.due.after # NoAddress
                             ELSE p[i - 1].epoch = c.epoch /\ Branches(p[i - 1]))
  /\ s >= g => (c.lastWasBranch <=> Branches(p[s])) /\ c.lastEpoch = p[s].epoch
  /\ s < g => (c.lastWasBranch /\ c.lastEpoch = c.epoch <=> c.due.after # NoAddress)

Checked(p, s, c) ==
  /\ Len(c.predictionCheck) = s
  /\ \A i \in 1 .. s : c.predictionCheck[i].isBranch <=> Branches(p[i])

(* Each live one is the next of the program, when what was predicted of    *)
(* the branches before it is true.                                         *)
OnPath(p, g, c, i) ==
  /\ i = g \/ p[i - 1].epoch # c.epoch => p[i].pc = c.due.at
  /\ i = g + 1 /\ p[i - 1].epoch = c.epoch =>
       IF c.due.after # NoAddress THEN c.newEpoch = <<>> => p[i].pc = c.due.after
       ELSE p[i].pc = Plus(p[i - 1].pc, 1)
  /\ i > g + 1 /\ p[i - 1].epoch = c.epoch =>
       p[i].pc = IF p[i - 2].epoch = c.epoch /\ Branches(p[i - 2])
                 THEN c.predictionCheck[i - 2].target ELSE Plus(p[i - 1].pc, 1)

Path(p, g, c) == \A i \in g .. Len(p) : p[i].epoch = c.epoch => OnPath(p, g, c, i)

(* There is a prediction for each of the next two fetches, but for those   *)
(* that are made of the instructions that the scheduler has not seen.      *)
Counted(p, g, s, c) ==
  /\ s \in Nat /\ s <= Len(p)
  /\ Len(c.predictions) + Len(p)
       = (IF s >= g THEN s ELSE g - 1) + (IF c.state = "Init" THEN c.flushCount ELSE 2)
  /\ c.state = "Init" => s = 0 /\ c.flushCount <= 1 /\ c.due.after = NoAddress

(* The prediction made of the i-th instruction, and of the last one of the *)
(* program's before the pipeline.                                          *)
Usable(q, e) == q.takeTarget /\ q.epoch = e

Foreseen(p, g, s, c, i, q) ==
  /\ i >= g => /\ i <= s /\ (q.takeTarget <=> Branches(p[i]))
               /\ q.specTarget = c.predictionCheck[i].target /\ q.epoch = p[i].epoch
  /\ i = g - 1 => /\ Usable(q, c.epoch) <=> c.due.after # NoAddress
                  /\ c.due.after # NoAddress /\ c.newEpoch = <<>> => q.specTarget = c.due.after

Predicted(p, g, s, c) ==
  \A m \in 1 .. Len(c.predictions) : Foreseen(p, g, s, c, Len(p) + m - 2, c.predictions[m])

(* Where fetching goes on.                                                 *)
Resumes(p, g, c) ==
  /\ c.issueEpoch # c.epoch => c.pc = c.due.at
  /\ c.issueEpoch = c.epoch /\ Len(p) >= g =>
       c.specPc = IF p[Len(p)].epoch = c.epoch THEN Plus(p[Len(p)].pc, 1) ELSE c.due.at
  /\ c.issueEpoch = c.epoch /\ Len(p) < g =>
       IF c.predictions # <<>> /\ Usable(c.predictions[1], c.epoch)
       THEN c.predictions[1].specTarget = c.due.at ELSE c.specPc = c.due.at

(* While a delay slot is due its instruction is on its way or the next.    *)
DelaySlot(p, g, c) ==
  /\ c.newEpoch # <<>> =>
       c.newEpoch = <<Later(c.epoch, 1)>> /\ c.due.after # NoAddress /\ c.pc = c.due.after
  /\ c.due.after # NoAddress =>
       /\ c.issueEpoch = c.epoch /\ (Len(p) >= g => p[g].epoch = c.epoch)
       /\ Code[c.due.at].kind # "eret"

(* The epochs that can be met are so few that a new one is of no         *)
(* instruction.                                                            *)
Behind(x, e, m) == x \in Epoch /\ \E k \in 0 .. m : e = Later(x, k)

Fresh(p, g, c) == c.issueEpoch = c.epoch /\ (Len(p) >= g => p[g].epoch = c.epoch)

Ages(p, g, s, c) ==
  /\ Behind(c.issueEpoch, c.epoch, 2)
  /\ \A i \in 1 .. Len(p) : Behind(p[i].epoch, c.epoch, 2)
  /\ Fresh(p, g, c) =>
       /\ s < g => Behind(c.lastEpoch, c.epoch, 2)
       /\ \A m \in 1 .. Len(c.predictions) :
            Len(p) + m - 2 = g - 1 => Behind(c.predictions[m].epoch, c.epoch, 2)

Control(p, g, s, c) ==
  /\ Debugged(p, c) /\ Issuing(p, c) /\ Delays(p, g, s, c) /\ Checked(p, s, c) /\ Path(p, g, c)
  /\ Counted(p, g, s, c) /\ Predicted(p, g, s, c) /\ Resumes(p, g, c) /\ DelaySlot(p, g, c)
  /\ Ages(p, g, s, c)

-----------------------------------------------------------------------------
(* The two together.  Line is the instructions in the pipeline, oldest     *)
(* first, of all its FIFOs; Past of them have passed the scheduler, and    *)
(* those up to Taking have got their operands.                             *)
Chain(a, b, c, d, e, f) == a \o (b \o (c \o (d \o (e \o f))))

Line == Chain(accessed, executed, pendingOps, decoded, scheduled, toScheduler)
Past == Len(accessed) + Len(executed) + Len(pendingOps) + Len(decoded) + Len(scheduled)
Taking == Wb(rf) + Len(pendingOps)

LengthsInv ==
  /\ Len(accessed) + Len(executed) = Wb(rf)
  /\ Len(pendingOps) + Len(decoded) + Len(scheduled) = Len(rf.readReport) + Len(rf.readReq)
  /\ pendingOps # <<>> => rf.readReport # <<>> /\ pendingOps[1].inst.kind = "multiply"

Correct(p, e, r, k) == Ordered(p, e, r) /\ Unwritten(p, r) /\ \E v : Values(p, e, r, k, v)

FlowInv == /\ LengthsInv /\ Correct(Line, epoch, rf, Taking)
           /\ Control(Line, FirstOf(Line), Past, Branching)

=============================================================================
