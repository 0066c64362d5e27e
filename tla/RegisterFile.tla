---------------------------- MODULE RegisterFile ----------------------------
(***************************************************************************)
(* The register file of the pipeline (ForwardingPipelinedRegFile.bsv).  An *)
(* instruction that writes gets a rename register when its operands are    *)
(* read; its result goes there when it is executed, before it is known     *)
(* that it completes, and to the register file when it does.  Younger      *)
(* instructions of the same epoch read the rename register.                *)
(*                                                                         *)
(* The state is one record, rf; each method and rule of the module is an   *)
(* operator that returns the next one, with its guard beside it.           *)
(***************************************************************************)
EXTENDS Instructions, Sequences

CONSTANTS
  Epochs,        \* values of an epoch: 8
  RenameRegs,    \* rename registers: 4
  FifoSize       \* elements of a FIFO: 2

ASSUME RegisterFileAssumption ==
  Epochs \in Nat \ {0} /\ RenameRegs \in Nat \ {0} /\ FifoSize \in Nat \ {0}

Epoch == 0 .. Epochs - 1
RenameReg == 0 .. RenameRegs - 1
Operands == { "a", "b" }
WritebackSize == 4   \* elements of wbReRegWrite

(* SpecRegTag, of a rename register; SpecReg, its value.  Invalid ones     *)
(* are one value, and so are the fields of reports that are not looked at. *)
Tag == [valid : BOOLEAN, epoch : Epoch, regNum : Register, pending : BOOLEAN]
NoTag == [valid |-> FALSE, epoch |-> 0, regNum |-> 0, pending |-> FALSE]
SpecReg == [valid : BOOLEAN, register : Value]
NoValue == [valid |-> FALSE, register |-> 0]
RenameReport == [valid : BOOLEAN, regNum : RenameReg, pending : BOOLEAN]
NotRenamed == [valid |-> FALSE, regNum |-> 0, pending |-> FALSE]

ReadReq == [epoch : Epoch, srcs : [Operands -> Register], write : BOOLEAN,
            pendingWrite : BOOLEAN, dest : Register, fromDebug : BOOLEAN,
            conditionalUpdate : BOOLEAN]
WriteReport == [write : BOOLEAN, conditional : BOOLEAN, pending : BOOLEAN, regNum : RenameReg]
RegReadReport == [srcs : [Operands -> RenameReport], old : RenameReport,
                  regFileVals : [Operands -> Value], write : WriteReport]

RegFileState ==
  [regFile : [Register -> Value], rnTags : [RenameReg -> Tag], rnRegs : [RenameReg -> SpecReg],
   limiter : 0 .. RenameRegs, nextReReg : RenameReg,
   readReq : Seq(ReadReq), readReport : Seq(RegReadReport), wbReRegWrite : Seq(WriteReport),
   pendVal : Seq([regNum : RenameReg, register : Value])]

RegFileOK(rf) ==
  /\ rf \in RegFileState
  /\ Len(rf.readReq) <= FifoSize /\ Len(rf.readReport) <= FifoSize
  /\ Len(rf.wbReRegWrite) <= WritebackSize /\ Len(rf.pendVal) <= 1

EmptyRegFile ==
  [regFile |-> [r \in Register |-> 0], rnTags |-> [s \in RenameReg |-> NoTag],
   rnRegs |-> [s \in RenameReg |-> NoValue], limiter |-> 0, nextReReg |-> 0,
   readReq |-> <<>>, readReport |-> <<>>, wbReRegWrite |-> <<>>, pendVal |-> <<>>]

-----------------------------------------------------------------------------
(* reqRegs: the scheduler asks for an instruction's operands. *)

CanRequest(rf) == Len(rf.readReq) < FifoSize

reqRegs(rf, req) == [rf EXCEPT !.readReq = Append(@, req)]

-----------------------------------------------------------------------------
(* readRegFiles: read the register file, find the operands that are renamed *)
(* and give the instruction a rename register if it writes.                 *)

(* mutant: the limit on rename registers forgotten *)
CanReadRegFilesUnlimited(rf) == rf.readReq # <<>> /\ Len(rf.readReport) < FifoSize

CanReadRegFiles(rf) ==
  rf.limiter < RenameRegs /\ rf.readReq # <<>> /\ Len(rf.readReport) < FifoSize

(* The rename registers that hold r for an instruction of this epoch. *)
Holders(rf, epoch, r) ==
  { s \in RenameReg : rf.rnTags[s].valid /\ rf.rnTags[s].epoch = epoch /\ rf.rnTags[s].regNum = r }

Renamed(rf, epoch, r) ==
  LET H == Holders(rf, epoch, r) IN
  IF H = {} THEN NotRenamed
  ELSE LET s == CHOOSE s \in H : \A u \in H : u <= s
       IN  [valid |-> TRUE, regNum |-> s, pending |-> rf.rnTags[s].pending]

(* A tag is dropped when its epoch is over, its register is written again  *)
(* or its place is the next to be used.                                    *)
TagAfter(rf, rq, s) ==
  LET tag == rf.rnTags[s] IN
  CASE s = rf.nextReReg -> IF rq.write
                           THEN [valid |-> TRUE, epoch |-> rq.epoch, regNum |-> rq.dest,
                                 pending |-> rq.pendingWrite]
                           ELSE NoTag
    [] s # rf.nextReReg /\ tag.valid /\ tag.epoch = rq.epoch
         /\ ~(rq.write /\ tag.regNum = rq.dest) -> tag
    [] OTHER -> NoTag

(* mutant: wraps one register early *)
NextReRegEarly(s) == IF s + 2 >= RenameRegs THEN 0 ELSE s + 1

NextReReg(s) == IF s + 1 = RenameRegs THEN 0 ELSE s + 1

ReadValue(rf, rq, r) == IF rq.fromDebug /\ r = 0 THEN DebugOperand ELSE rf.regFile[r]

readRegFiles(rf) ==
  LET rq == Head(rf.readReq)
      report == [srcs |-> [o \in Operands |-> Renamed(rf, rq.epoch, rq.srcs[o])],
                 old |-> IF rq.write THEN Renamed(rf, rq.epoch, rq.dest) ELSE NotRenamed,
                 regFileVals |-> [o \in Operands |-> ReadValue(rf, rq, rq.srcs[o])],
                 write |-> [write |-> rq.write, conditional |-> rq.conditionalUpdate,
                            pending |-> rq.pendingWrite, regNum |-> rf.nextReReg]]
  IN  [rf EXCEPT !.readReq = Tail(@),
                 !.rnTags = [s \in RenameReg |-> TagAfter(rf, rq, s)],
                 !.nextReReg = IF rq.write THEN NextReReg(@) ELSE @,
                 !.limiter = IF rq.write THEN @ + 1 ELSE @,
                 !.readReport = Append(@, report)]

-----------------------------------------------------------------------------
(* readRegs and writeRegSpeculative: the execute stage takes the operands   *)
(* of the oldest instruction that has been read, waiting for the ones that  *)
(* the memory still owes, and puts its result into the rename register.     *)

Ready(rf, renaming) == rf.pendVal # <<>> /\ rf.pendVal[1].regNum = renaming.regNum

Waits(rf, renaming) ==
  renaming.valid /\ renaming.pending /\ ~rf.rnRegs[renaming.regNum].valid /\ ~Ready(rf, renaming)

WaitsForOld(rf, report) ==
  /\ report.write.conditional /\ report.old.pending
  /\ ~rf.rnRegs[report.old.regNum].valid /\ ~Ready(rf, report.old)

PipeEmpty(rf) == rf.wbReRegWrite = <<>> /\ rf.pendVal = <<>>

CanReadRegs(rf) ==
  /\ rf.readReport # <<>>
  /\ LET report == Head(rf.readReport) IN
     \/ PipeEmpty(rf)
     \/ ~WaitsForOld(rf, report) /\ \A o \in Operands : ~Waits(rf, report.srcs[o])

readRegs(rf) ==
  LET report == Head(rf.readReport) IN
  [o \in Operands |->
     LET renaming == report.srcs[o] IN
     CASE renaming.valid /\ rf.rnRegs[renaming.regNum].valid ->
            rf.rnRegs[renaming.regNum].register
       [] renaming.valid /\ ~rf.rnRegs[renaming.regNum].valid /\ Ready(rf, renaming) ->
            rf.pendVal[1].register
       [] OTHER -> report.regFileVals[o]]

(* The result of a load goes to its rename register: in a rule of its own,  *)
(* or with the next speculative write.                                      *)
RolledIn(rf) ==
  IF rf.pendVal = <<>> THEN rf.rnRegs
  ELSE [rf.rnRegs EXCEPT ![rf.pendVal[1].regNum] =
          [valid |-> TRUE, register |-> rf.pendVal[1].register]]

CanWritePending(rf) == rf.pendVal # <<>>

writePending(rf) == [rf EXCEPT !.rnRegs = RolledIn(rf), !.pendVal = <<>>]

CanWriteSpeculative(rf) == rf.readReport # <<>> /\ Len(rf.wbReRegWrite) < WritebackSize

(* A conditional instruction that does not write takes over the old value. *)
writeRegSpeculative(rf, data, write) ==
  LET report == Head(rf.readReport)
      req == report.write
      rolled == RolledIn(rf)
      regWrite == CASE write /\ ~req.pending -> [valid |-> TRUE, register |-> data]
                    [] ~write /\ req.write /\ report.old.valid -> rolled[report.old.regNum]
                    [] OTHER -> NoValue
  IN  [rf EXCEPT !.readReport = Tail(@), !.pendVal = <<>>,
                 !.rnRegs = [rolled EXCEPT ![req.regNum] = regWrite],
                 !.wbReRegWrite = Append(@, req)]

-----------------------------------------------------------------------------
(* writeReg: the writeback stage writes the register of an instruction that *)
(* completes, and releases its rename register in any case.  A result that  *)
(* was owed is passed on.  Each cycle takes out of pendVal what is in it at  *)
(* its beginning, so that one put in never finds another.                    *)

CanWriteReg(rf) == rf.wbReRegWrite # <<>> /\ rf.pendVal = <<>>

(* mutant: only an instruction that completes releases its rename register *)
writeRegKeeping(rf, regW, data, write) ==
  LET req == Head(rf.wbReRegWrite) IN
  [rf EXCEPT !.regFile = IF write THEN [@ EXCEPT ![regW] = data] ELSE @,
             !.limiter = IF req.write /\ write THEN @ - 1 ELSE @,
             !.pendVal = IF req.pending /\ write
                         THEN <<[regNum |-> req.regNum, register |-> data]>> ELSE @,
             !.wbReRegWrite = Tail(@)]

writeReg(rf, regW, data, write) ==
  LET req == Head(rf.wbReRegWrite) IN
  [rf EXCEPT !.regFile = IF write THEN [@ EXCEPT ![regW] = data] ELSE @,
             !.limiter = IF req.write THEN @ - 1 ELSE @,
             !.pendVal = IF req.pending /\ write
                         THEN <<[regNum |-> req.regNum, register |-> data]>> ELSE @,
             !.wbReRegWrite = Tail(@)]

-----------------------------------------------------------------------------
(* The instructions between readRegFiles and writeReg, oldest first, and   *)
(* those of them that write.                                               *)
WriteReports(q) == [k \in DOMAIN q |-> q[k].write]

InFlight(rf) == rf.wbReRegWrite \o WriteReports(rf.readReport)

Writers(q) == { k \in DOMAIN q : q[k].write }
=============================================================================
