------------------------------ MODULE Pipeline ------------------------------
(***************************************************************************)
(* The six stages of BERI as its simulator is built (MICRO): fetch with    *)
(* the branch predictor mkBranchSimple, scheduler, decode, execute, memory *)
(* access and writeback (MIPSTop.bsv), and the register file they share.   *)
(*                                                                         *)
(* Instructions are fetched from predicted addresses.  Each carries the    *)
(* epoch of the predictor when it was fetched; a misprediction found in    *)
(* writeback begins a new epoch, and an instruction of an old one is dead: *)
(* it reaches writeback and has no effect.  Each rule of the code is an    *)
(* action; a cycle of the code fires several, which is one of their        *)
(* sequences here.                                                         *)
(***************************************************************************)
EXTENDS RegisterFile

CONSTANTS
  NoAddress,     \* no branch delay slot is due
  Predictions,   \* the addresses that the table of targets can hold
  FlushCycles,   \* cycles before fetching resumes after a flush: 4
  OnlySettled    \* whether the host executes instructions only in a settled core

ASSUME PipelineAssumption ==
  /\ NoAddress \notin Address /\ Predictions \subseteq Address
  /\ FlushCycles \in Nat /\ FlushCycles >= 2 /\ OnlySettled \in BOOLEAN

VARIABLES
  (* mkBranchSimple *)
  pc, specPc, epoch, issueEpoch,
  newEpoch,         \* the epoch that begins when the delay slot completes, if any
  flushing,         \* flushFifo.notEmpty
  flushCount, state,
  predictions,      \* from putTarget to getPc
  predictionCheck,  \* from putTarget to pcWriteback
  (* the scheduler *)
  lastWasBranch, lastEpoch,
  (* the FIFOs between the stages, and the execute stage's pendingOps *)
  toScheduler, scheduled, decoded, pendingOps, executed, accessed,
  rf,               \* the register file
  pause,            \* the register of the debug unit's wish
  due               \* history: the addresses that are next by what has completed

branchVars == <<pc, specPc, epoch, issueEpoch, newEpoch, flushing, flushCount, state,
                predictions, predictionCheck>>
schedulerVars == <<lastWasBranch, lastEpoch>>
fifoVars == <<toScheduler, scheduled, decoded, pendingOps, executed, accessed>>
vars == <<branchVars, schedulerVars, fifoVars, rf, pause, due>>

PredictionsSize == 3
CheckSize == 10

(* ControlTokenT.  The operands and the result are 0 until execute. *)
Token == [pc : Address, epoch : Epoch, fromDebug : BOOLEAN, inst : Instruction,
          branchDelay : BOOLEAN, a : Value, b : Value, result : Value]

Prediction == [takeTarget : BOOLEAN, specTarget : Address, epoch : Epoch]
PredictionRecord == [target : Address, isBranch : BOOLEAN]

TypeOK ==
  /\ pc \in Address /\ specPc \in Address
  /\ epoch \in Epoch /\ issueEpoch \in Epoch
  /\ newEpoch \in Seq(Epoch) /\ Len(newEpoch) <= 1
  /\ flushing \in BOOLEAN /\ flushCount \in 0 .. FlushCycles /\ state \in { "Init", "Run" }
  /\ predictions \in Seq(Prediction) /\ Len(predictions) <= PredictionsSize
  /\ predictionCheck \in Seq(PredictionRecord) /\ Len(predictionCheck) <= CheckSize
  /\ lastWasBranch \in BOOLEAN /\ lastEpoch \in Epoch
  /\ \A q \in { toScheduler, scheduled, decoded, pendingOps, executed, accessed } :
       q \in Seq(Token) /\ Len(q) <= FifoSize
  /\ Len(pendingOps) <= 1
  /\ RegFileOK(rf)
  /\ pause \in BOOLEAN
  /\ due \in [at : Address \cup { NoAddress }, after : Address \cup { NoAddress }]

Init ==
  /\ pc = Reset /\ specPc = Reset
  /\ epoch = 0 /\ issueEpoch = 0 /\ newEpoch = <<>>
  /\ flushing = FALSE /\ flushCount = 0 /\ state = "Init"
  /\ predictions = <<>> /\ predictionCheck = <<>>
  /\ lastWasBranch = FALSE /\ lastEpoch = 0
  /\ toScheduler = <<>> /\ scheduled = <<>> /\ decoded = <<>> /\ pendingOps = <<>>
  /\ executed = <<>> /\ accessed = <<>>
  /\ rf = EmptyRegFile
  /\ pause = FALSE
  /\ due = [at |-> Reset, after |-> NoAddress]

NotFull(q) == Len(q) < FifoSize

-----------------------------------------------------------------------------
(* What a token says. *)

(* A branch in a branch delay slot is made a nop. *)
Branches(t) == IsBranch(t.inst) /\ ~t.branchDelay

(* writePC: not in a delay slot, and of the debug unit's only branches. *)
WritesPC(t) == ~t.branchDelay /\ (t.fromDebug => Branches(t))

Taken(t) == Branches(t) /\ Takes(t.inst, t.a)

(* flushPipe: an exception return, a likely branch that is not taken, and  *)
(* a branch of the debug unit's, which has no delay slot.                  *)
FlushesPipe(t) == \/ t.inst.kind = "eret"
                  \/ Branches(t) /\ t.inst.kind = "likely" /\ ~Taken(t)
                  \/ Branches(t) /\ t.fromDebug

(* The pc that a token writes, an exception aside. *)
Target(t) == CASE t.inst.kind = "eret" \/ Taken(t)  -> t.inst.target
               [] IsBranch(t.inst) /\ ~Taken(t)     -> Plus(t.pc, 2)
               [] OTHER                             -> Plus(t.pc, 1)

-----------------------------------------------------------------------------
(* mkBranchSimple *)

(* primeFifo: two predictions for the first two instructions. *)
primeFifo ==
  /\ state = "Init" /\ Len(predictions) < PredictionsSize
  /\ predictions' = Append(predictions, [takeTarget |-> FALSE, specTarget |-> Reset,
                                         epoch |-> epoch])
  /\ flushCount' = flushCount + 1
  /\ state' = IF flushCount = 1 THEN "Run" ELSE "Init"
  /\ UNCHANGED <<pc, specPc, epoch, issueEpoch, newEpoch, flushing, predictionCheck,
                 schedulerVars, fifoVars, rf, pause, due>>

(* flushDelay: fetching waits for some cycles after a flush. *)
flushDelay ==
  /\ state # "Init" /\ flushing
  /\ flushing' = (flushCount # FlushCycles)
  /\ flushCount' = IF flushCount = FlushCycles THEN 0 ELSE flushCount + 1
  /\ UNCHANGED <<pc, specPc, epoch, issueEpoch, newEpoch, state, predictions, predictionCheck,
                 schedulerVars, fifoVars, rf, pause, due>>

CanGetPc == ~flushing /\ predictions # <<>>

(* The address of the next fetch. *)
NextPc == LET pred == Head(predictions) IN
          IF issueEpoch = pred.epoch /\ pred.takeTarget THEN pred.specTarget ELSE specPc

(* updateSpeculativePc: in a new epoch the next fetch but one is from pc. *)
updateSpeculativePc(fromDebug) ==
  /\ specPc' = CASE fromDebug -> specPc
                 [] ~fromDebug /\ issueEpoch = epoch -> Plus(NextPc, 1)
                 [] ~fromDebug /\ issueEpoch # epoch -> pc
  /\ issueEpoch' = epoch

getPc(fromDebug) ==
  /\ CanGetPc
  /\ predictions' = IF fromDebug THEN predictions ELSE Tail(predictions)
  /\ updateSpeculativePc(fromDebug)
  /\ UNCHANGED <<pc, epoch, newEpoch, flushing, flushCount, state, predictionCheck>>

(* putTarget: the prediction for the fetch after the next; the table of    *)
(* targets may hold any address for an instruction.                        *)
putTarget(t) ==
  /\ state = "Run" /\ Len(predictionCheck) < CheckSize
  /\ t.fromDebug \/ Len(predictions) < PredictionsSize
  /\ \E target \in IF Branches(t) THEN Predictions ELSE { Reset } :
       /\ predictions' = IF t.fromDebug THEN predictions
                         ELSE Append(predictions, [takeTarget |-> Branches(t),
                                                   specTarget |-> target, epoch |-> t.epoch])
       /\ predictionCheck' = Append(predictionCheck,
                                    [target |-> target, isBranch |-> Branches(t)])
  /\ UNCHANGED <<pc, specPc, epoch, issueEpoch, newEpoch, flushing, flushCount, state>>

Later(e, n) == (e + n) % Epochs

(* mutant: the new epoch begins before the delay slot *)
epochUpdateAtOnce(doWriteback, flushNow, miss) ==
  /\ newEpoch' = <<>>
  /\ epoch' = IF doWriteback /\ (flushNow \/ miss) THEN Later(epoch, 1) ELSE epoch
  /\ flushing' = (flushing \/ (doWriteback /\ flushNow))

(* epochUpdate: a misprediction is followed when the next instruction, in  *)
(* the delay slot, completes; a flush at once.                             *)
epochUpdate(doWriteback, flushNow, miss) ==
  /\ newEpoch' = IF doWriteback /\ miss /\ ~flushNow THEN <<Later(epoch, 1)>> ELSE <<>>
  /\ epoch' = CASE doWriteback /\ flushNow ->
                     IF newEpoch # <<>> THEN Later(epoch, 2) ELSE Later(epoch, 1)
                [] ~(doWriteback /\ flushNow) /\ newEpoch # <<>> -> Head(newEpoch)
                [] OTHER -> epoch
  /\ flushing' = (flushing \/ (doWriteback /\ flushNow))

(* pcWriteback *)
pcWriteback(truePc, doWriteback, flushNow, fromDebug) ==
  LET check == Head(predictionCheck)
      miss == doWriteback /\ ~fromDebug /\ check.isBranch /\ check.target # truePc
  IN  /\ state = "Run" /\ predictionCheck # <<>>
      /\ predictionCheck' = Tail(predictionCheck)
      /\ pc' = IF doWriteback THEN truePc ELSE pc
      /\ epochUpdate(doWriteback, flushNow, miss)
      /\ UNCHANGED <<specPc, issueEpoch, flushCount, state, predictions>>

-----------------------------------------------------------------------------
(* The stages *)

Fetched(inst, fromDebug) ==
  [pc |-> IF fromDebug THEN Reset ELSE NextPc, epoch |-> issueEpoch, fromDebug |-> fromDebug,
   inst |-> inst, branchDelay |-> FALSE, a |-> 0, b |-> 0, result |-> 0]

instructionFetch ==
  /\ ~pause /\ NotFull(toScheduler)
  /\ getPc(FALSE)
  /\ toScheduler' = Append(toScheduler, Fetched(Code[NextPc], FALSE))
  /\ UNCHANGED <<scheduled, decoded, pendingOps, executed, accessed, schedulerVars, rf, pause, due>>

(* Nothing of the program is in the pipeline, and no change of its flow of *)
(* control is outstanding.                                                 *)
Settled ==
  /\ toScheduler = <<>> /\ scheduled = <<>> /\ decoded = <<>> /\ pendingOps = <<>>
  /\ executed = <<>> /\ accessed = <<>>
  /\ newEpoch = <<>> /\ issueEpoch = epoch

debugInstructionFetch ==
  /\ pause /\ NotFull(toScheduler)
  /\ OnlySettled => Settled
  /\ getPc(TRUE)
  /\ \E inst \in DebugInstructions : toScheduler' = Append(toScheduler, Fetched(inst, TRUE))
  /\ UNCHANGED <<scheduled, decoded, pendingOps, executed, accessed, schedulerVars, rf, pause, due>>

(* fromFetchToScheduler: mkScheduler's enq. *)
fromFetchToScheduler ==
  /\ toScheduler # <<>> /\ NotFull(scheduled) /\ CanRequest(rf)
  /\ LET cti == Head(toScheduler)
         cto == [cti EXCEPT !.branchDelay = lastWasBranch /\ lastEpoch = cti.epoch /\ ~cti.fromDebug]
     IN  /\ putTarget(cto)
         /\ rf' = reqRegs(rf, [epoch |-> cti.epoch, fromDebug |-> cti.fromDebug,
                               srcs |-> [o \in Operands |-> cti.inst[o]],
                               write |-> Writes(cti.inst), dest |-> cti.inst.dest,
                               pendingWrite |-> cti.inst.kind = "load",
                               conditionalUpdate |-> IsConditional(cti.inst)])
         /\ scheduled' = Append(scheduled, cto)
         /\ IF cti.fromDebug THEN UNCHANGED schedulerVars
            ELSE lastWasBranch' = Branches(cto) /\ lastEpoch' = cti.epoch
  /\ toScheduler' = Tail(toScheduler)
  /\ UNCHANGED <<decoded, pendingOps, executed, accessed, pause, due>>

readRegFilesRule ==
  /\ CanReadRegFiles(rf)
  /\ rf' = readRegFiles(rf)
  /\ UNCHANGED <<branchVars, schedulerVars, fifoVars, pause, due>>

writePendingRule ==
  /\ CanWritePending(rf)
  /\ rf' = writePending(rf)
  /\ UNCHANGED <<branchVars, schedulerVars, fifoVars, pause, due>>

fromSchedulerToDecode ==
  /\ scheduled # <<>> /\ NotFull(decoded)
  /\ decoded' = Append(decoded, Head(scheduled))
  /\ scheduled' = Tail(scheduled)
  /\ UNCHANGED <<toScheduler, pendingOps, executed, accessed, branchVars, schedulerVars, rf, pause, due>>

(* fromDecodeToExecute: mkExecute's enq.  A multiplication waits beside    *)
(* the stage until it is ready, and nothing passes it.                     *)
fromDecodeToExecute ==
  /\ decoded # <<>> /\ pendingOps = <<>> /\ CanReadRegs(rf)
  /\ LET di == Head(decoded)
         vals == readRegs(rf)
         er == [di EXCEPT !.a = vals["a"], !.b = vals["b"],
                          !.result = Result(di.inst, di.pc, vals["a"], vals["b"])]
     IN  IF di.inst.kind = "multiply"
         THEN /\ pendingOps' = <<er>>
              /\ UNCHANGED <<executed, rf>>
         ELSE /\ NotFull(executed) /\ CanWriteSpeculative(rf)
              /\ executed' = Append(executed, er)
              /\ rf' = writeRegSpeculative(rf, er.result, DoesWrite(er.inst, er.b))
              /\ UNCHANGED pendingOps
  /\ decoded' = Tail(decoded)
  /\ UNCHANGED <<toScheduler, scheduled, accessed, branchVars, schedulerVars, pause, due>>

deliverPendingOp ==
  /\ pendingOps # <<>> /\ NotFull(executed) /\ CanWriteSpeculative(rf)
  /\ executed' = Append(executed, Head(pendingOps))
  /\ rf' = writeRegSpeculative(rf, Head(pendingOps).result, TRUE)
  /\ pendingOps' = <<>>
  /\ UNCHANGED <<toScheduler, scheduled, decoded, accessed, branchVars, schedulerVars, pause, due>>

fromExecuteToMemAccess ==
  /\ executed # <<>> /\ NotFull(accessed)
  /\ accessed' = Append(accessed, Head(executed))
  /\ executed' = Tail(executed)
  /\ UNCHANGED <<toScheduler, scheduled, decoded, pendingOps, branchVars, schedulerVars, rf, pause, due>>

(* nextDead *)
Dead(t) == t.epoch # epoch

(* The instructions that an exception can hit: those of the debug unit     *)
(* when they access memory, but by no interrupt.                           *)
MayTrap(t) == IF t.fromDebug THEN t.inst.kind = "load" ELSE t.pc \in Trapping

(* What follows the program's instruction t by what t itself says. *)
DueAfter(t, exception) ==
  CASE exception -> [at |-> Entry, after |-> NoAddress]
    [] ~exception /\ t.branchDelay -> [at |-> due.after, after |-> NoAddress]
    [] ~exception /\ ~t.branchDelay /\ Branches(t) /\ ~FlushesPipe(t) ->
         [at |-> Plus(t.pc, 1), after |-> Target(t)]
    [] OTHER -> [at |-> Target(t), after |-> NoAddress]

(* doWriteBack, with the exception that the instruction meets, if any, and *)
(* what the memory answers to a load.                                      *)
doWriteBack(exception, loaded) ==
  /\ accessed # <<>> /\ CanWriteReg(rf)
  /\ LET er == Head(accessed)
         dead == Dead(er)
         instructionIsCommitting == ~dead /\ ~exception
         doWritePc == ~dead /\ (exception \/ WritesPC(er))
         flush == ~dead /\ ((exception /\ ~er.fromDebug) \/ FlushesPipe(er))
     IN  /\ exception => ~dead /\ MayTrap(er)
         /\ er.inst.kind # "load" => loaded = 0
         /\ pcWriteback(IF exception THEN Entry ELSE Target(er), doWritePc, flush, er.fromDebug)
         /\ rf' = writeReg(rf, er.inst.dest, IF er.inst.kind = "load" THEN loaded ELSE er.result,
                           DoesWrite(er.inst, er.b) /\ instructionIsCommitting)
         /\ due' = CASE dead -> due
                     [] ~dead /\ ~er.fromDebug -> DueAfter(er, exception)
                     [] ~dead /\ er.fromDebug ->
                          IF Branches(er) THEN [at |-> Target(er), after |-> NoAddress] ELSE due
  /\ accessed' = Tail(accessed)
  /\ UNCHANGED <<toScheduler, scheduled, decoded, pendingOps, executed, schedulerVars, pause>>

(* The debug unit pauses the core or lets it run (external here). *)
SetPause == /\ pause' = ~pause
            /\ UNCHANGED <<branchVars, schedulerVars, fifoVars, rf, due>>

(* The rules of the pipeline. *)
Rules == \/ primeFifo \/ flushDelay
         \/ instructionFetch
         \/ fromFetchToScheduler \/ readRegFilesRule \/ writePendingRule
         \/ fromSchedulerToDecode \/ fromDecodeToExecute \/ deliverPendingOp
         \/ fromExecuteToMemAccess
         \/ \E exception \in BOOLEAN, loaded \in Value : doWriteBack(exception, loaded)

Next == Rules \/ debugInstructionFetch \/ SetPause

(* Every cycle fires what can fire. *)
Spec == Init /\ [][Next]_vars /\ WF_vars(Rules)

-----------------------------------------------------------------------------
(* The pipeline does what the machine does that executes one instruction   *)
(* after the other: whatever was predicted, the instructions that complete *)
(* are those of the program in its order, with the operands that the ones  *)
(* before them have left.                                                  *)
M == INSTANCE Machine WITH at <- due.at, after <- due.after, regs <- rf.regFile

ImplementsMachine == M!Spec

(* No two instructions in the pipeline share a rename register: a register *)
(* is not given away again while its instruction, or one that an exception *)
(* or a misprediction has killed, is still on its way to writeback.        *)
OwnRenameRegs ==
  LET q == InFlight(rf) IN
  \A j, k \in Writers(q) : j # k => q[j].regNum # q[k].regNum

(* A program that is not paused for ever goes on: after any mispredictions, *)
(* flushes and debugging another of its instructions completes.            *)
ProgramGoesOn == <>[]~pause => []<><<due' # due>>_vars

(* Branch delay slots finish before the epoch changes: while one is due,   *)
(* only its instruction, which is the program's, begins a new epoch.       *)
DelaySlotsFinish ==
  [][epoch' # epoch /\ due.after # NoAddress => ~Head(accessed).fromDebug]_vars
=============================================================================
