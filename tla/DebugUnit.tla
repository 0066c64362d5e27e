------------------------------ MODULE DebugUnit ------------------------------
(***************************************************************************)
(* mkDebug: the debug unit of a core, between the host's command packets   *)
(* and the pipeline, with the pause register of the processor (mkCheri)    *)
(* and the parts of the pipeline it meets: fetch, and writeback.           *)
(*                                                                         *)
(* Cycle is one clock cycle: the one rule of the debug unit that fires in  *)
(* it, together with what the fetch stage does in it.  The two are coupled *)
(* cycle by cycle through the pause wires, so they step together.  What    *)
(* only meets the debug unit through a one-element FIFO (the host's        *)
(* packets, writeback) interleaves with the cycles.                        *)
(*                                                                         *)
(* A FIFO of one element is << >> or <<x>>.  The pattern and mask of the   *)
(* trace filter are not kept: whether a record matches them is left open.  *)
(***************************************************************************)
EXTENDS Integers, Sequences

CONSTANTS PCs,             \* program counters of the program
          NoPC,            \* an unset breakpoint, address 64'hFFFFFFFFFFFFFFFF
          Insts,           \* instructions and operands the host may load
          Null,            \* a register before it is assigned
          Commands,        \* the packets the host may send
          Period,          \* 8: pipeCount has three bits
          ExecuteTimeout,  \* 16^4 cycles
          StreamTimeout,   \* 2 * 16^6 cycles
          TraceSize,       \* 4095: what the circular trace buffer holds
          AlmostFullGap,   \* 32
          PipeDepth,       \* bound: instructions between fetch and writeback
          MaxCommands      \* bound: packets sent in a behaviour

ASSUME TimeAssumption == /\ Period \in Nat \ {0}
                         /\ ExecuteTimeout \in Nat /\ StreamTimeout \in Nat
ASSUME SizeAssumption == /\ TraceSize \in Nat \ {0} /\ AlmostFullGap \in 1 .. TraceSize
                         /\ PipeDepth \in Nat /\ MaxCommands \in Nat
ASSUME NamesAssumption == NoPC \notin PCs

BreakPointOps == {"LoadBreakPoint0", "LoadBreakPoint1", "LoadBreakPoint2", "LoadBreakPoint3"}

ASSUME CommandsAssumption ==
  \A c \in Commands : /\ c.op = "LoadInstruction" => c.arg \in Insts
                      /\ c.op \in BreakPointOps => c.arg \in PCs \cup {NoPC}

VARIABLES
  commands, responses,                    \* to and from mkDebugConvert
  state,                                  \* Polling, ExecuteInstruction, Step, StreamTrace
  curCommand, idleCount, pipeCount,
  unPipeline, previousPausePipe,
  instruction, opA, opB, dest, mipsPC,
  bp, bpReport, bpReport2, breakTraceCmp,
  deterministicCycleCount, resetReg,
  instQ, writebacks,                      \* to and from the pipeline
  traceCount, traceDelay,                 \* records in trace_buf; its readDelay
  sysPause,                               \* the pause register of mkCheri
  fetchPause,                             \* the one of mkMIPSTop, a cycle behind
  pipe,                                   \* instructions between fetch and writeback
  sent, taken, answered,                  \* history: packets sent, taken, replied to
  executing,                              \* history: what ExecuteInstruction enqueued
  timedOut,                               \* history: an ExecuteInstruction timed out
  asked,                                  \* history: should the program be paused?
  stepping, stepFetched,                  \* history: fetches of a StepExecution
  overrun                                 \* history: fetches after a pause

registers == <<instruction, opA, opB, dest, bp, deterministicCycleCount, resetReg>>
pausing   == <<state, curCommand, unPipeline, previousPausePipe, sysPause, asked>>
tracing   == <<breakTraceCmp, bpReport2, traceCount>>
queues    == <<pipe, instQ, bpReport, writebacks>>
clocked   == <<fetchPause, pipeCount, traceDelay, stepFetched, overrun>>
history   == <<executing, timedOut, stepping>>
vars == <<registers, pausing, tracing, queues, clocked, history, idleCount, mipsPC,
          commands, sent, taken, responses, answered>>

Init ==
  /\ commands = << >> /\ responses = << >>
  /\ state = "Polling" /\ curCommand = << >> /\ idleCount = 0 /\ pipeCount = 0
  /\ unPipeline = FALSE /\ previousPausePipe = FALSE
  /\ instruction = Null /\ opA = Null /\ opB = Null /\ dest = Null /\ mipsPC = Null
  /\ bp = [op \in BreakPointOps |-> NoPC] /\ bpReport = << >> /\ bpReport2 = << >>
  /\ breakTraceCmp = FALSE /\ deterministicCycleCount = FALSE /\ resetReg = FALSE
  /\ instQ = << >> /\ writebacks = << >> /\ traceCount = 0 /\ traceDelay = FALSE
  /\ sysPause = FALSE /\ fetchPause = FALSE /\ pipe = << >>
  /\ sent = 0 /\ taken = 0 /\ answered = 0
  /\ executing = Null /\ timedOut = FALSE /\ asked = FALSE
  /\ stepping = FALSE /\ stepFetched = 0 /\ overrun = 0

-----------------------------------------------------------------------------
(* Which rule fires: its condition, the room and elements it needs, and    *)
(* the rules that are more urgent.  Rules that put a reply all need room   *)
(* for one, doCommands also in the commands that put none.                 *)

ReplyReady == responses = << >>
notEmpty   == traceCount > 0 /\ ~traceDelay
almostFull == traceCount > 0 /\ TraceSize + 1 - traceCount < AlmostFullGap

Reports  == state = "Polling" /\ (bpReport # << >> \/ bpReport2 # << >>) /\ ReplyReady
Polls    == /\ state = "Polling" /\ (~unPipeline \/ pipeCount # 0) /\ ~Reports
            /\ commands # << >> /\ ReplyReady /\ instQ = << >> /\ curCommand = << >>
StepsOn  == /\ unPipeline /\ pipeCount = 0 /\ state = "Polling" /\ bpReport = << >> /\ ~Reports
            /\ curCommand = << >>
Steps    == state = "Step" /\ ReplyReady /\ curCommand # << >>
Finishes == /\ state = "ExecuteInstruction" /\ ReplyReady /\ curCommand # << >>
            /\ writebacks # << >>
Waits    == /\ state = "ExecuteInstruction" /\ ReplyReady /\ curCommand # << >>
            /\ writebacks = << >>
Pops     == state = "StreamTrace" /\ notEmpty
StopsTrace == state = "StreamTrace" /\ almostFull
Idles    == state = "StreamTrace" /\ ~notEmpty /\ ~almostFull /\ ReplyReady

Command == Head(commands)
Takes(op) == Polls /\ Command.op = op

-----------------------------------------------------------------------------
Answer(op, data) == /\ responses' = <<[op |-> op, data |-> data]>>
                    /\ answered' = answered + 1
NoAnswer == UNCHANGED <<responses, answered>>

(* A rule that writes pauseWire and unPipeline; the pause register of the  *)
(* processor keeps its value in a cycle in which no rule writes the wire.  *)
PauseWire(p, u) == sysPause' = p /\ unPipeline' = u

(* Rule doCommands, command by command.  The replies to PauseExecution and *)
(* ResumeUnpipelined carry one byte, the first of the data; the old state  *)
(* is in the eighth, so the byte is always 0.                              *)
Load ==
  /\ \/ /\ Command.op = "LoadInstruction" /\ instruction' = Command.arg
        /\ UNCHANGED <<opA, opB, bp>>
     \/ Command.op = "LoadOpA" /\ opA' = Command.arg /\ UNCHANGED <<instruction, opB, bp>>
     \/ Command.op = "LoadOpB" /\ opB' = Command.arg /\ UNCHANGED <<instruction, opA, bp>>
     \/ /\ Command.op \in BreakPointOps
        /\ bp' = [bp EXCEPT ![Command.op] = Command.arg]
        /\ UNCHANGED <<instruction, opA, opB>>
     \/ /\ Command.op \in {"LoadTraceFltr", "LoadTraceFltrMask"}
        /\ UNCHANGED <<instruction, opA, opB, bp>>
  /\ Answer(IF Command.ok THEN Command.op ELSE "InvalidInstruction", << >>)
  /\ UNCHANGED <<dest, deterministicCycleCount, resetReg, pausing, breakTraceCmp, executing>>

BreakOnTraceFltr ==
  /\ Command.op = "BreakOnTraceFltr"
  /\ breakTraceCmp' = ~breakTraceCmp
  /\ Answer(Command.op, << >>)
  /\ UNCHANGED <<registers, pausing, executing>>

(* mutant: the pause state to return to is not saved *)
ExecuteInstructionUnsaved ==
  /\ Command.op = "ExecuteInstruction"
  /\ PauseWire(TRUE, unPipeline)
  /\ state' = "ExecuteInstruction" /\ curCommand' = <<Command.op>>
  /\ executing' = instruction
  /\ NoAnswer
  /\ UNCHANGED <<registers, asked, breakTraceCmp, previousPausePipe>>

(* The instruction goes to instQ, see instQFilled. *)
ExecuteInstruction ==
  /\ Command.op = "ExecuteInstruction"
  /\ PauseWire(TRUE, unPipeline)
  /\ previousPausePipe' = sysPause
  /\ state' = "ExecuteInstruction"
  /\ curCommand' = <<Command.op>>
  /\ executing' = instruction
  /\ NoAnswer
  /\ UNCHANGED <<registers, asked, breakTraceCmp>>

ReportDest ==
  /\ Command.op = "ReportDest"
  /\ Answer(Command.op, <<dest>>)
  /\ UNCHANGED <<registers, pausing, breakTraceCmp, executing>>

MovePCtoDest ==
  /\ Command.op = "MovePCtoDest"
  /\ dest' = mipsPC
  /\ Answer(Command.op, << >>)
  /\ UNCHANGED <<instruction, opA, opB, bp, deterministicCycleCount, resetReg,
                 pausing, breakTraceCmp, executing>>

PauseExecution ==
  /\ Command.op = "PauseExecution"
  /\ PauseWire(TRUE, FALSE) /\ asked' = TRUE
  /\ Answer(Command.op, <<0>>)
  /\ UNCHANGED <<registers, state, curCommand, previousPausePipe, breakTraceCmp, executing>>

ResumeExecution ==
  /\ Command.op = "ResumeExecution"
  /\ PauseWire(FALSE, FALSE) /\ asked' = FALSE
  /\ deterministicCycleCount' = FALSE
  /\ Answer(Command.op, << >>)
  /\ UNCHANGED <<instruction, opA, opB, dest, bp, resetReg, state, curCommand, previousPausePipe,
                 breakTraceCmp, executing>>

ResumeUnpipelined ==
  /\ Command.op = "ResumeUnpipelined"
  /\ PauseWire(TRUE, TRUE) /\ asked' = TRUE
  /\ Answer(Command.op, <<0>>)
  /\ UNCHANGED <<registers, state, curCommand, previousPausePipe, breakTraceCmp, executing>>

(* mutant: a step is replied to when it is taken and again when it is done *)
StepExecutionAnswered ==
  /\ Command.op = "StepExecution"
  /\ state' = IF sysPause THEN "Step" ELSE "Polling"
  /\ PauseWire(FALSE, unPipeline)
  /\ curCommand' = <<Command.op>>
  /\ Answer(Command.op, << >>)
  /\ UNCHANGED <<registers, previousPausePipe, asked, breakTraceCmp, executing>>

StepExecution ==
  /\ Command.op = "StepExecution"
  /\ state' = IF sysPause THEN "Step" ELSE "Polling"
  /\ PauseWire(FALSE, unPipeline)
  /\ curCommand' = <<Command.op>>
  /\ NoAnswer
  /\ UNCHANGED <<registers, previousPausePipe, asked, breakTraceCmp, executing>>

StreamTrace ==
  /\ Command.op = "StreamTrace"
  /\ PauseWire(FALSE, FALSE) /\ asked' = FALSE
  /\ deterministicCycleCount' = TRUE
  /\ state' = "StreamTrace"
  /\ NoAnswer
  /\ UNCHANGED <<instruction, opA, opB, dest, bp, resetReg, curCommand, previousPausePipe,
                 breakTraceCmp, executing>>

(* The reset itself is done outside the debug unit and is not modelled. *)
ResetSystem ==
  /\ Command.op = "Reset"
  /\ resetReg' = TRUE
  /\ NoAnswer
  /\ UNCHANGED <<instruction, opA, opB, dest, bp, deterministicCycleCount, pausing,
                 breakTraceCmp, executing>>

(* Any other op, PopTraceEntry among them. *)
InvalidCommand ==
  /\ Command.op = "Invalid"
  /\ Answer("InvalidInstruction", << >>)
  /\ UNCHANGED <<registers, pausing, breakTraceCmp, executing>>

doCommands ==
  /\ Polls
  /\ \/ Load \/ BreakOnTraceFltr \/ ExecuteInstruction \/ ReportDest \/ MovePCtoDest
     \/ PauseExecution \/ ResumeExecution \/ ResumeUnpipelined \/ StepExecution
     \/ StreamTrace \/ ResetSystem \/ InvalidCommand
  /\ commands' = << >> /\ idleCount' = 0
  /\ taken' = IF Command.op = "Reset" THEN taken ELSE taken + 1
  /\ stepping' = (Command.op = "StepExecution" /\ sysPause /\ ~unPipeline)
  /\ UNCHANGED <<bpReport2, traceCount, timedOut>>

-----------------------------------------------------------------------------
(* Rules stopTracePipe and popTrace, which may fire together: the pipeline *)
(* is paused when the buffer is nearly full, and a record is taken out and *)
(* dropped, the put of its packet being commented out.                     *)
stopTracePipe == IF StopsTrace THEN PauseWire(TRUE, FALSE) ELSE UNCHANGED <<sysPause, unPipeline>>
popTrace == IF Pops THEN traceCount' = traceCount - 1 /\ idleCount' = 0
                    ELSE UNCHANGED <<traceCount, idleCount>>
streamTrace ==
  /\ Pops \/ StopsTrace
  /\ stopTracePipe /\ popTrace
  /\ NoAnswer
  /\ UNCHANGED <<registers, state, curCommand, previousPausePipe, asked, breakTraceCmp, bpReport2,
                 history, commands, taken>>

(* Rule countIdleCyclesStreamTrace. *)
countIdleCyclesStreamTrace ==
  /\ Idles
  /\ idleCount' = idleCount + 1
  /\ IF idleCount = StreamTimeout \/ sysPause
     THEN /\ Answer("StreamTrace", << >>)
          /\ state' = "Polling" /\ PauseWire(TRUE, FALSE) /\ asked' = TRUE
     ELSE NoAnswer /\ UNCHANGED <<state, sysPause, unPipeline, asked>>
  /\ UNCHANGED <<registers, curCommand, previousPausePipe, tracing, history, commands, taken>>

(* Rule reportBreakPoint; for bpReport see bpReportLeft. *)
reportBreakPoint ==
  /\ Reports
  /\ responses' = <<[op |-> "BreakpointFired",
                     data |-> IF bpReport # << >> THEN bpReport ELSE bpReport2]>>
  /\ bpReport2' = IF bpReport # << >> THEN bpReport2 ELSE << >>
  /\ PauseWire(TRUE, FALSE) /\ asked' = TRUE
  /\ UNCHANGED <<registers, state, curCommand, previousPausePipe, breakTraceCmp, traceCount,
                 history, idleCount, commands, taken, answered>>

(* Rule unpipelinedStep. *)
unpipelinedStep ==
  /\ StepsOn
  /\ state' = "Step" /\ PauseWire(FALSE, unPipeline) /\ curCommand' = <<"Null">>
  /\ NoAnswer
  /\ UNCHANGED <<registers, previousPausePipe, asked, tracing, history, idleCount, commands, taken>>

(* mutant: the pipeline is not paused after the step *)
stepNotPausing ==
  /\ Steps
  /\ state' = "Polling" /\ curCommand' = << >>
  /\ IF Head(curCommand) # "Null" THEN Answer(Head(curCommand), << >>) ELSE NoAnswer
  /\ UNCHANGED <<registers, sysPause, unPipeline, previousPausePipe, asked, tracing, history,
                 idleCount, commands, taken>>

(* Rule step. *)
step ==
  /\ Steps
  /\ state' = "Polling" /\ PauseWire(TRUE, unPipeline) /\ curCommand' = << >>
  /\ IF Head(curCommand) # "Null" THEN Answer(Head(curCommand), << >>) ELSE NoAnswer
  /\ UNCHANGED <<registers, previousPausePipe, asked, tracing, history, idleCount, commands, taken>>

(* Rule finishExecute. *)
finishExecute ==
  /\ Finishes
  /\ LET retVal == Head(writebacks)
     IN /\ dest' = IF retVal.writeback THEN retVal.inst ELSE dest
        /\ IF retVal.exception THEN Answer("ExecuteExeption", <<retVal.inst>>)
                               ELSE Answer(Head(curCommand), << >>)
  /\ state' = "Polling" /\ PauseWire(previousPausePipe, unPipeline) /\ curCommand' = << >>
  /\ UNCHANGED <<instruction, opA, opB, bp, deterministicCycleCount, resetReg, previousPausePipe,
                 asked, tracing, history, idleCount, commands, taken>>

(* mutant: the idle count never grows *)
countIdleCyclesStuck ==
  /\ Waits /\ idleCount' = 0 /\ NoAnswer
  /\ UNCHANGED <<registers, pausing, tracing, history, commands, taken>>

(* Rule countIdleCycles: the instruction has not come back yet. *)
countIdleCycles ==
  /\ Waits
  /\ idleCount' = idleCount + 1
  /\ IF idleCount >= ExecuteTimeout
     THEN /\ Answer("ExecuteExeption", <<"timeout">>)
          /\ curCommand' = << >> /\ state' = "Polling" /\ PauseWire(FALSE, FALSE)
          /\ timedOut' = TRUE
     ELSE NoAnswer /\ UNCHANGED <<curCommand, state, sysPause, unPipeline, timedOut>>
  /\ UNCHANGED <<registers, previousPausePipe, asked, tracing, executing, stepping, commands, taken>>

(* No rule can fire. *)
noRule ==
  /\ ~(Reports \/ Polls \/ StepsOn \/ Steps \/ Finishes \/ Waits \/ Pops \/ StopsTrace \/ Idles)
  /\ UNCHANGED <<registers, pausing, tracing, history, idleCount, commands, taken,
                 responses, answered>>

Rule == \/ doCommands \/ streamTrace \/ countIdleCyclesStreamTrace \/ reportBreakPoint
        \/ unpipelinedStep \/ step \/ finishExecute \/ countIdleCycles \/ noRule

-----------------------------------------------------------------------------
(* The fetch stage in the same cycle: it stalls, or fetches an instruction *)
(* from the debug unit if paused and from the program if not.              *)

bpReportLeft == IF Reports THEN << >> ELSE bpReport
instQFilled  == IF Takes("ExecuteInstruction") THEN <<instruction>> ELSE instQ

Stall == pipe' = pipe /\ instQ' = instQFilled /\ bpReport' = bpReportLeft

(* mutant: the instruction stays in instQ *)
debugInstructionFetchKept ==
  /\ fetchPause /\ instQ # << >> /\ Len(pipe) < PipeDepth
  /\ pipe' = Append(pipe, [debug |-> TRUE, what |-> Head(instQ)])
  /\ instQ' = instQ /\ bpReport' = bpReportLeft

(* Rule debugInstructionFetch. *)
debugInstructionFetch ==
  /\ fetchPause /\ instQ # << >> /\ Len(pipe) < PipeDepth
  /\ pipe' = Append(pipe, [debug |-> TRUE, what |-> Head(instQ)])
  /\ instQ' = << >> /\ bpReport' = bpReportLeft

(* mutant: the program is fetched from whether paused or not *)
instructionFetchAlways(pc) ==
  /\ bpReport = << >> /\ Len(pipe) < PipeDepth
  /\ pipe' = Append(pipe, [debug |-> FALSE, what |-> pc])
  /\ instQ' = instQFilled
  /\ bpReport' = IF \E op \in BreakPointOps : bp[op] = pc THEN <<pc>> ELSE bpReportLeft

(* Rule instructionFetch and method checkPC, which has the condition that  *)
(* no breakpoint waits to be reported.                                     *)
instructionFetch(pc) ==
  /\ ~fetchPause /\ bpReport = << >> /\ Len(pipe) < PipeDepth
  /\ pipe' = Append(pipe, [debug |-> FALSE, what |-> pc])
  /\ instQ' = instQFilled
  /\ bpReport' = IF \E op \in BreakPointOps : bp[op] = pc THEN <<pc>> ELSE bpReportLeft

Fetch(programFetched) ==
  /\ IF programFetched THEN \E pc \in PCs : instructionFetch(pc)
                       ELSE Stall \/ debugInstructionFetch
  /\ stepFetched' = IF Takes("StepExecution") THEN 0
                    ELSE IF stepping /\ programFetched THEN stepFetched + 1 ELSE stepFetched
  /\ overrun' = IF ~sysPause' THEN 0
                ELSE IF sysPause /\ programFetched THEN overrun + 1 ELSE overrun

(* mutant: finishExecute leaves the result in writebacks *)
ClockKeepingResult ==
  /\ pipeCount' = (pipeCount + 1) % Period
  /\ fetchPause' = sysPause
  /\ traceDelay' = (traceCount = 0)
  /\ writebacks' = writebacks

(* What every cycle does: rule incPipeCount, the way of the pause register *)
(* to the fetch stage, and rule finishExecuteFailsafe.                     *)
Clock ==
  /\ pipeCount' = (pipeCount + 1) % Period
  /\ fetchPause' = sysPause
  /\ traceDelay' = (traceCount = 0)
  /\ writebacks' = IF Finishes \/ state = "Polling" THEN << >> ELSE writebacks

Cycle == Rule /\ Clock /\ (\E f \in BOOLEAN : Fetch(f)) /\ UNCHANGED <<mipsPC, sent>>

-----------------------------------------------------------------------------
(* mutants: the buffer grows past its size; the breakpoint stays armed *)
putTraceEntryGrowing(matches) ==
  /\ traceCount' = IF breakTraceCmp \/ matches THEN traceCount + 1 ELSE traceCount
  /\ UNCHANGED <<bpReport2, breakTraceCmp>>
putTraceEntryStillArmed(matches) ==
  /\ traceCount < TraceSize \/ state # "StreamTrace"
  /\ traceCount' = IF (breakTraceCmp \/ matches) /\ traceCount < TraceSize
                   THEN traceCount + 1 ELSE traceCount
  /\ bpReport2' = IF breakTraceCmp /\ matches /\ state # "StreamTrace" THEN <<mipsPC>>
                                                                    ELSE bpReport2
  /\ UNCHANGED breakTraceCmp

(* Method putTraceEntry: a record reaches the trace buffer, and it may     *)
(* match the filter.                                                       *)
putTraceEntry(matches) ==
  /\ traceCount < TraceSize \/ state # "StreamTrace"
  /\ traceCount' = IF (breakTraceCmp \/ matches) /\ traceCount < TraceSize
                   THEN traceCount + 1 ELSE traceCount
  /\ bpReport2' = IF breakTraceCmp /\ matches /\ state # "StreamTrace" THEN <<mipsPC>>
                                                                    ELSE bpReport2
  /\ breakTraceCmp' = (breakTraceCmp /\ ~matches)

(* Writeback retires the oldest instruction.  One of the debug unit        *)
(* returns its result, one of the program that was not cancelled reports   *)
(* its program counter, and either may be traced.                          *)
Retire ==
  /\ pipe # << >> /\ pipe' = Tail(pipe)
  /\ IF Head(pipe).debug
     THEN /\ writebacks = << >>
          /\ \E wb, exc \in BOOLEAN :
               writebacks' = <<[inst |-> Head(pipe).what, writeback |-> wb, exception |-> exc]>>
          /\ UNCHANGED mipsPC
     ELSE mipsPC' \in {Head(pipe).what, mipsPC} /\ UNCHANGED writebacks
  /\ UNCHANGED tracing \/ \E m \in BOOLEAN : putTraceEntry(m)
  /\ UNCHANGED <<registers, pausing, instQ, bpReport, clocked, history, idleCount,
                 commands, sent, taken, responses, answered>>

(* mkDebugConvert delivers a packet and takes a reply. *)
Send(c) ==
  /\ commands = << >> /\ sent < MaxCommands
  /\ commands' = <<c>> /\ sent' = sent + 1
  /\ UNCHANGED <<registers, pausing, tracing, queues, clocked, history, idleCount, mipsPC,
                 taken, responses, answered>>

Receive ==
  /\ responses # << >> /\ responses' = << >>
  /\ UNCHANGED <<registers, pausing, tracing, queues, clocked, history, idleCount, mipsPC,
                 commands, sent, taken, answered>>

Next == Cycle \/ Retire \/ (\E c \in Commands : Send(c)) \/ Receive

(* The clock runs and the host takes the replies. *)
Spec == Init /\ [][Next]_vars /\ WF_vars(Cycle) /\ WF_vars(Receive)

-----------------------------------------------------------------------------
(* Type invariant. *)
States == {"Polling", "ExecuteInstruction", "Step", "StreamTrace"}
InPipeline == [debug : {TRUE}, what : Insts \cup {Null}] \cup [debug : {FALSE}, what : PCs]
Results == [inst : Insts \cup {Null}, writeback : BOOLEAN, exception : BOOLEAN]
AtMostOne(q) == Len(q) <= 1
TypeOK ==
  /\ commands \in Seq(Commands) /\ AtMostOne(commands)
  /\ AtMostOne(responses)
  /\ state \in States
  /\ curCommand \in Seq({"ExecuteInstruction", "StepExecution", "Null"}) /\ AtMostOne(curCommand)
  /\ pipeCount \in 0 .. Period - 1
  /\ {unPipeline, previousPausePipe, breakTraceCmp, deterministicCycleCount, resetReg,
      sysPause, fetchPause, traceDelay} \subseteq BOOLEAN
  /\ instruction \in Insts \cup {Null}
  /\ dest \in Insts \cup PCs \cup {Null} /\ mipsPC \in PCs \cup {Null}
  /\ bp \in [BreakPointOps -> PCs \cup {NoPC}]
  /\ bpReport \in Seq(PCs) /\ AtMostOne(bpReport) /\ AtMostOne(bpReport2)
  /\ instQ \in Seq(Insts \cup {Null}) /\ AtMostOne(instQ)
  /\ writebacks \in Seq(Results) /\ AtMostOne(writebacks)
  /\ traceCount \in 0 .. TraceSize
  /\ pipe \in Seq(InPipeline) /\ Len(pipe) <= PipeDepth

(* Every packet that was taken is replied to exactly once: what is not yet *)
(* replied to is the command in curCommand or the trace being streamed.    *)
(* Reports of breakpoints come in between and are not counted.             *)
Owed == (IF curCommand \in {<< >>, <<"Null">>} THEN 0 ELSE 1)
        + (IF state = "StreamTrace" THEN 1 ELSE 0)
OneReplyPerCommand == taken = answered + Owed

(* The states that wait for curCommand have one: their rules cannot wait   *)
(* for ever on an empty FIFO.                                              *)
CommandInProgress == state \in {"ExecuteInstruction", "Step"} => curCommand # << >>

(* At most one instruction of the debug unit is anywhere between instQ and *)
(* writebacks, and only while ExecuteInstruction is in progress: until one *)
(* has timed out, a result can only be that of the command it is given to. *)
DebugInFlight == {<<"instQ", i>> : i \in DOMAIN instQ}
                 \cup {<<"pipe", i>> : i \in {j \in DOMAIN pipe : pipe[j].debug}}
                 \cup {<<"writebacks", i>> : i \in DOMAIN writebacks}
OneAtATime == ~timedOut => IF state = "ExecuteInstruction"
                           THEN \E place \in DebugInFlight : DebugInFlight = {place}
                           ELSE DebugInFlight = {}
ResultIsOfCommand ==
  ~timedOut /\ writebacks # << >> => Head(writebacks).inst = executing

(* The report FIFO of trace breakpoints is unguarded: an enqueue when it   *)
(* is full would lose a report.  The breakpoint cannot be armed again      *)
(* before its report was sent.                                             *)
ReportsNotLost == bpReport2 # << >> => ~breakTraceCmp

(* Whatever commands, reports and debug instructions come in between, the  *)
(* program is paused exactly when it was asked to be (until a timeout,     *)
(* which resumes it unasked).                                              *)
PausedAsAsked == state = "Polling" /\ ~timedOut => (sysPause = asked)

(* At most one instruction of the program is fetched in the cycles that    *)
(* the processor is already paused in.                                     *)
StopsAtOnce == overrun <= 1

(* A StepExecution fetches at most one instruction of the program. *)
OneInstructionPerStep == stepping => stepFetched <= 1

(* Liveness: the debug unit always comes back to polling. *)
BackToPolling == state # "Polling" ~> state = "Polling"

-----------------------------------------------------------------------------
(* What the documentation says. *)

(* cheri_debug.h:153, "Replies contain the request op": every request that *)
(* was taken, a step among them, is replied to.                            *)
StepsAreAnswered == curCommand = <<"StepExecution">> ~> curCommand = << >>
=============================================================================
