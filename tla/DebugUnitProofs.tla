--------------------------- MODULE DebugUnitProofs ---------------------------
(***************************************************************************)
(* Theorems about DebugUnit, for every program, every set of packets and   *)
(* every value of the timeouts, sizes and bounds.                          *)
(*                                                                         *)
(* Only the rule of a cycle changes the control state; fetch, the clock,   *)
(* writeback and the host leave it alone.  Each part of the inductive      *)
(* invariant is therefore shown rule by rule, over the variables it names. *)
(***************************************************************************)
EXTENDS DebugUnit, TLAPS

-----------------------------------------------------------------------------
ControlKept == /\ UNCHANGED <<pausing, clocked, history, taken, answered>>
               /\ responses' \in {responses, << >>}

LEMMA OnlyCyclesControl == [Next]_vars => Cycle \/ ControlKept
<1> SUFFICES ASSUME [Next]_vars, ~Cycle PROVE ControlKept
  OBVIOUS
<1>1. CASE Retire
  BY <1>1 DEF Retire, ControlKept
<1>2. CASE \E c \in Commands : Send(c)
  BY <1>2 DEF Send, ControlKept
<1>3. CASE Receive
  BY <1>3 DEF Receive, ControlKept
<1>4. CASE UNCHANGED vars
  BY <1>4 DEF vars, ControlKept
<1> QED
  BY <1>1, <1>2, <1>3, <1>4 DEF Next

-----------------------------------------------------------------------------
(* Replies.  A state other than Polling holds the command it works for;    *)
(* Polling with a command left over is a step that was taken while the     *)
(* program ran.                                                            *)
CommandHeld ==
  /\ state \in States
  /\ curCommand \in {<< >>, <<"ExecuteInstruction">>, <<"StepExecution">>, <<"Null">>}
  /\ state = "Polling" => curCommand \in {<< >>, <<"StepExecution">>}
  /\ state = "ExecuteInstruction" => curCommand = <<"ExecuteInstruction">>
  /\ state = "Step" => curCommand \in {<<"StepExecution">>, <<"Null">>}
  /\ state = "StreamTrace" => curCommand = << >>

RepliesInv == CommandHeld /\ taken \in Nat /\ answered \in Nat /\ OneReplyPerCommand

LEMMA RepliesRule == RepliesInv /\ Rule => RepliesInv'
<1> SUFFICES ASSUME RepliesInv, Rule PROVE RepliesInv'
  OBVIOUS
<1> USE DEF RepliesInv, CommandHeld, OneReplyPerCommand, Owed, States
<1>1. CASE doCommands
  <2> USE <1>1 DEF doCommands, Polls, pausing, Answer, NoAnswer
  <2>1. CASE Load
    BY <2>1 DEF Load, BreakPointOps
  <2>2. CASE BreakOnTraceFltr
    BY <2>2 DEF BreakOnTraceFltr
  <2>3. CASE ExecuteInstruction
    BY <2>3 DEF ExecuteInstruction
  <2>4. CASE ReportDest
    BY <2>4 DEF ReportDest
  <2>5. CASE MovePCtoDest
    BY <2>5 DEF MovePCtoDest
  <2>6. CASE PauseExecution
    BY <2>6 DEF PauseExecution
  <2>7. CASE ResumeExecution
    BY <2>7 DEF ResumeExecution
  <2>8. CASE ResumeUnpipelined
    BY <2>8 DEF ResumeUnpipelined
  <2>9. CASE StepExecution
    BY <2>9 DEF StepExecution
  <2>10. CASE StreamTrace
    BY <2>10 DEF StreamTrace
  <2>11. CASE ResetSystem
    BY <2>11 DEF ResetSystem
  <2>12. CASE InvalidCommand
    BY <2>12 DEF InvalidCommand
  <2> QED
    BY <2>1, <2>2, <2>3, <2>4, <2>5, <2>6, <2>7, <2>8, <2>9, <2>10, <2>11, <2>12
<1>2. CASE streamTrace
  BY <1>2 DEF streamTrace, NoAnswer
<1>3. CASE countIdleCyclesStreamTrace
  <2>1. \/ UNCHANGED <<state, curCommand, taken, answered>>
        \/ /\ state = "StreamTrace" /\ state' = "Polling"
           /\ answered' = answered + 1 /\ UNCHANGED <<curCommand, taken>>
    BY <1>3 DEF countIdleCyclesStreamTrace, Idles, Answer, NoAnswer
  <2> QED BY <2>1
<1>4. CASE reportBreakPoint
  BY <1>4 DEF reportBreakPoint
<1>5. CASE unpipelinedStep
  BY <1>5 DEF unpipelinedStep, StepsOn, NoAnswer
<1>6. CASE step
  BY <1>6 DEF step, Steps, Answer, NoAnswer
<1>7. CASE finishExecute
  BY <1>7 DEF finishExecute, Finishes, Answer
<1>8. CASE countIdleCycles
  <2>1. \/ UNCHANGED <<state, curCommand, taken, answered>>
        \/ /\ state = "ExecuteInstruction" /\ state' = "Polling" /\ curCommand' = << >>
           /\ answered' = answered + 1 /\ UNCHANGED taken
    BY <1>8 DEF countIdleCycles, Waits, Answer, NoAnswer
  <2> QED BY <2>1
<1>9. CASE noRule
  BY <1>9 DEF noRule, pausing
<1> QED
  BY <1>1, <1>2, <1>3, <1>4, <1>5, <1>6, <1>7, <1>8, <1>9 DEF Rule

LEMMA RepliesStep == RepliesInv /\ [Next]_vars => RepliesInv'
<1> SUFFICES ASSUME RepliesInv, [Next]_vars PROVE RepliesInv'
  OBVIOUS
<1>1. CASE Cycle
  BY <1>1, RepliesRule DEF Cycle
<1>2. CASE ControlKept
  BY <1>2 DEF ControlKept, pausing, RepliesInv, CommandHeld, OneReplyPerCommand, Owed
<1> QED
  BY <1>1, <1>2, OnlyCyclesControl

-----------------------------------------------------------------------------
(* Pausing.  unPipeline stands for a request to stay paused, and what the  *)
(* program must go back to is in previousPausePipe while an instruction of *)
(* the host's executes.                                                    *)
PauseInv ==
  /\ state \in States
  /\ unPipeline \in BOOLEAN /\ sysPause \in BOOLEAN /\ previousPausePipe \in BOOLEAN
  /\ asked \in BOOLEAN /\ timedOut \in BOOLEAN
  /\ unPipeline => asked
  /\ ~timedOut => /\ state = "Polling" => sysPause = asked
                  /\ state = "Step" => asked
                  /\ state = "ExecuteInstruction" => previousPausePipe = asked

LEMMA PauseRule == PauseInv /\ Rule => PauseInv'
<1> SUFFICES ASSUME PauseInv, Rule PROVE PauseInv'
  OBVIOUS
<1> USE DEF PauseInv, States, PauseWire
<1>1. CASE doCommands
  <2> USE <1>1 DEF doCommands, Polls, pausing
  <2>1. CASE Load
    BY <2>1 DEF Load
  <2>2. CASE BreakOnTraceFltr
    BY <2>2 DEF BreakOnTraceFltr
  <2>3. CASE ExecuteInstruction
    BY <2>3 DEF ExecuteInstruction
  <2>4. CASE ReportDest
    BY <2>4 DEF ReportDest
  <2>5. CASE MovePCtoDest
    BY <2>5 DEF MovePCtoDest
  <2>6. CASE PauseExecution
    BY <2>6 DEF PauseExecution
  <2>7. CASE ResumeExecution
    BY <2>7 DEF ResumeExecution
  <2>8. CASE ResumeUnpipelined
    BY <2>8 DEF ResumeUnpipelined
  <2>9. CASE StepExecution
    BY <2>9 DEF StepExecution
  <2>10. CASE StreamTrace
    BY <2>10 DEF StreamTrace
  <2>11. CASE ResetSystem
    BY <2>11 DEF ResetSystem
  <2>12. CASE InvalidCommand
    BY <2>12 DEF InvalidCommand
  <2> QED
    BY <2>1, <2>2, <2>3, <2>4, <2>5, <2>6, <2>7, <2>8, <2>9, <2>10, <2>11, <2>12
<1>2. CASE streamTrace
  BY <1>2 DEF streamTrace, stopTracePipe, Pops, StopsTrace, history
<1>3. CASE countIdleCyclesStreamTrace
  BY <1>3 DEF countIdleCyclesStreamTrace, Idles, history
<1>4. CASE reportBreakPoint
  BY <1>4 DEF reportBreakPoint, Reports, history
<1>5. CASE unpipelinedStep
  BY <1>5 DEF unpipelinedStep, StepsOn, history
<1>6. CASE step
  BY <1>6 DEF step, Steps, history
<1>7. CASE finishExecute
  BY <1>7 DEF finishExecute, Finishes, history
<1>8. CASE countIdleCycles
  <2>1. CASE idleCount >= ExecuteTimeout
    BY <1>8, <2>1 DEF countIdleCycles
  <2>2. CASE ~(idleCount >= ExecuteTimeout)
    BY <1>8, <2>2 DEF countIdleCycles
  <2> QED BY <2>1, <2>2
<1>9. CASE noRule
  BY <1>9 DEF noRule, pausing, history
<1> QED
  BY <1>1, <1>2, <1>3, <1>4, <1>5, <1>6, <1>7, <1>8, <1>9 DEF Rule

LEMMA PauseStep == PauseInv /\ [Next]_vars => PauseInv'
<1> SUFFICES ASSUME PauseInv, [Next]_vars PROVE PauseInv'
  OBVIOUS
<1>1. CASE Cycle
  BY <1>1, PauseRule DEF Cycle
<1>2. CASE ControlKept
  BY <1>2 DEF ControlKept, pausing, history, PauseInv
<1> QED
  BY <1>1, <1>2, OnlyCyclesControl

-----------------------------------------------------------------------------
(* Fetching.  The pause register of the fetch stage follows that of the    *)
(* processor a cycle later, so a pause lets one more fetch through.        *)
OverrunInv == /\ overrun \in {0, 1}
              /\ overrun = 1 => sysPause /\ fetchPause

LEMMA OverrunStep == PauseInv /\ OverrunInv /\ [Next]_vars => OverrunInv'
<1> SUFFICES ASSUME PauseInv, OverrunInv, [Next]_vars PROVE OverrunInv'
  OBVIOUS
<1>1. CASE Cycle
  <2>1. sysPause \in BOOLEAN /\ sysPause' \in BOOLEAN
    BY <1>1, PauseStep DEF PauseInv, Next
  <2>2. PICK f \in BOOLEAN : Fetch(f)
    BY <1>1 DEF Cycle
  <2>3. f => ~fetchPause
    BY <2>2 DEF Fetch, instructionFetch
  <2>4. overrun' = IF ~sysPause' THEN 0
                   ELSE IF sysPause /\ f THEN overrun + 1 ELSE overrun
    BY <2>2 DEF Fetch
  <2>5. fetchPause' = sysPause
    BY <1>1 DEF Cycle, Clock
  <2> QED
    BY <2>1, <2>2, <2>3, <2>4, <2>5 DEF OverrunInv
<1>2. CASE ControlKept
  BY <1>2 DEF ControlKept, clocked, pausing, OverrunInv
<1> QED
  BY <1>1, <1>2, OnlyCyclesControl

(* A step of a paused program: in the cycle after the command the rule     *)
(* step pauses the program again, so the fetch stage runs for one cycle.   *)
StepInv ==
  stepping =>
    /\ ~unPipeline
    /\ \/ /\ state = "Step" /\ ~sysPause /\ fetchPause
          /\ curCommand = <<"StepExecution">> /\ responses = << >>
          /\ stepFetched = 0
       \/ /\ state = "Polling" /\ sysPause
          /\ stepFetched = 0 \/ (stepFetched = 1 /\ fetchPause)

LEMMA StepRule == PauseInv /\ StepInv /\ Cycle => StepInv'
<1> SUFFICES ASSUME PauseInv, StepInv, Cycle, stepping' PROVE StepInv'
  BY DEF StepInv
<1>0. PICK f \in BOOLEAN : Fetch(f)
  BY DEF Cycle
<1>1. f => ~fetchPause
  BY <1>0 DEF Fetch, instructionFetch
<1>2. stepFetched' = IF Takes("StepExecution") THEN 0
                     ELSE IF stepping /\ f THEN stepFetched + 1 ELSE stepFetched
  BY <1>0 DEF Fetch
<1>3. fetchPause' = sysPause
  BY DEF Cycle, Clock
<1>4. CASE doCommands
  <2>1. Command.op = "StepExecution" /\ sysPause /\ ~unPipeline
    BY <1>4 DEF doCommands
  <2>2. StepExecution /\ Polls
    BY <1>4, <2>1 DEF doCommands, Load, BreakOnTraceFltr, ExecuteInstruction, ReportDest,
          MovePCtoDest, PauseExecution, ResumeExecution, ResumeUnpipelined, StreamTrace,
          ResetSystem, InvalidCommand, BreakPointOps
  <2>3. stepFetched' = 0
    BY <1>2, <2>1, <2>2 DEF Takes
  <2> QED
    BY <1>3, <2>1, <2>2, <2>3
       DEF StepInv, StepExecution, PauseWire, Polls, ReplyReady, NoAnswer
<1>5. CASE step
  BY <1>0, <1>1, <1>2, <1>3, <1>5
     DEF StepInv, PauseInv, step, Steps, history, PauseWire, Takes, Polls
<1>6. CASE reportBreakPoint
  BY <1>0, <1>1, <1>2, <1>3, <1>6
     DEF StepInv, PauseInv, reportBreakPoint, Reports, history, PauseWire, Takes, Polls
<1>7. CASE noRule
  <2>1. UNCHANGED <<state, sysPause, unPipeline, stepping>>
    BY <1>7 DEF noRule, registers, history, pausing
  <2>2. state = "Polling" /\ sysPause /\ ~unPipeline
        /\ (stepFetched = 0 \/ (stepFetched = 1 /\ fetchPause))
    BY <1>7, <2>1 DEF StepInv, noRule, Steps, ReplyReady
  <2>3. stepFetched' \in {0, 1} /\ fetchPause'
    BY <1>1, <1>2, <1>3, <2>2
  <2> QED BY <2>1, <2>2, <2>3 DEF StepInv
<1>8. CASE \/ streamTrace \/ countIdleCyclesStreamTrace \/ unpipelinedStep
           \/ finishExecute \/ countIdleCycles
  <2>1. ~stepping
    BY <1>8 DEF StepInv, streamTrace, Pops, StopsTrace, countIdleCyclesStreamTrace, Idles,
          unpipelinedStep, StepsOn, finishExecute, Finishes, countIdleCycles, Waits
  <2>2. stepping' = stepping
    BY <1>8 DEF streamTrace, countIdleCyclesStreamTrace, unpipelinedStep, finishExecute,
          countIdleCycles, history
  <2> QED
    BY <2>1, <2>2
<1> QED
  BY <1>4, <1>5, <1>6, <1>7, <1>8 DEF Cycle, Rule

LEMMA StepStep == PauseInv /\ StepInv /\ [Next]_vars => StepInv'
<1> SUFFICES ASSUME PauseInv, StepInv, [Next]_vars PROVE StepInv'
  OBVIOUS
<1>1. CASE Cycle
  BY <1>1, StepRule
<1>2. CASE ControlKept
  BY <1>2 DEF ControlKept, pausing, clocked, history, StepInv
<1> QED
  BY <1>1, <1>2, OnlyCyclesControl

-----------------------------------------------------------------------------
(* Reports. *)
LEMMA ReportsStep == ReportsNotLost /\ [Next]_vars => ReportsNotLost'
<1> SUFFICES ASSUME ReportsNotLost, [Next]_vars PROVE ReportsNotLost'
  OBVIOUS
<1> USE DEF ReportsNotLost
<1>1. CASE Cycle
  <2>1. CASE doCommands
    <3>1. bpReport2' = << >>
      BY <2>1 DEF doCommands, Polls, Reports
    <3> QED BY <3>1
  <2>2. CASE ~doCommands
    <3>1. breakTraceCmp' = breakTraceCmp /\ bpReport2' \in {bpReport2, << >>}
      BY <1>1, <2>2 DEF Cycle, Rule, streamTrace, countIdleCyclesStreamTrace, reportBreakPoint,
            unpipelinedStep, step, finishExecute, countIdleCycles, noRule, tracing
    <3> QED BY <3>1
  <2> QED BY <2>1, <2>2
<1>2. CASE Retire
  BY <1>2 DEF Retire, putTraceEntry, tracing
<1>3. CASE UNCHANGED tracing
  BY <1>3 DEF tracing
<1> QED
  BY <1>1, <1>2, <1>3 DEF Next, Send, Receive, vars

-----------------------------------------------------------------------------
(* Types, by group of variables. *)
BufferType == /\ traceCount \in 0 .. TraceSize
              /\ breakTraceCmp \in BOOLEAN
              /\ AtMostOne(bpReport2)

LEMMA BufferTypeStep == BufferType /\ [Next]_vars => BufferType'
<1> SUFFICES ASSUME BufferType, [Next]_vars PROVE BufferType'
  OBVIOUS
<1> USE SizeAssumption DEF BufferType, AtMostOne
<1>1. CASE Cycle
  <2>1. CASE doCommands
    <3>1. UNCHANGED <<bpReport2, traceCount>> /\ breakTraceCmp' \in {breakTraceCmp, ~breakTraceCmp}
      BY <2>1 DEF doCommands, Load, BreakOnTraceFltr, ExecuteInstruction, ReportDest,
          MovePCtoDest, PauseExecution, ResumeExecution, ResumeUnpipelined, StepExecution,
          StreamTrace, ResetSystem, InvalidCommand
    <3> QED BY <3>1
  <2>2. CASE streamTrace
    BY <2>2 DEF streamTrace, popTrace, Pops, notEmpty
  <2>3. CASE ~doCommands /\ ~streamTrace
    <3>1. UNCHANGED <<breakTraceCmp, traceCount>> /\ bpReport2' \in {bpReport2, << >>}
      BY <1>1, <2>3 DEF Cycle, Rule, countIdleCyclesStreamTrace, reportBreakPoint,
            unpipelinedStep, step, finishExecute, countIdleCycles, noRule, tracing
    <3> QED BY <3>1
  <2> QED BY <2>1, <2>2, <2>3
<1>2. CASE Retire
  <2>1. CASE UNCHANGED tracing
    BY <2>1 DEF tracing
  <2>2. ASSUME NEW m \in BOOLEAN, putTraceEntry(m) PROVE BufferType'
    <3>1. traceCount' \in 0 .. TraceSize
      BY <2>2 DEF putTraceEntry
    <3>2. breakTraceCmp' \in BOOLEAN /\ AtMostOne(bpReport2')
      BY <2>2 DEF putTraceEntry
    <3> QED BY <3>1, <3>2
  <2> QED BY <1>2, <2>1, <2>2 DEF Retire
<1>3. CASE UNCHANGED tracing
  BY <1>3 DEF tracing
<1> QED
  BY <1>1, <1>2, <1>3 DEF Next, Send, Receive, vars

ClockType == /\ pipeCount \in 0 .. Period - 1
             /\ fetchPause \in BOOLEAN /\ traceDelay \in BOOLEAN

LEMMA ClockTypeStep == PauseInv /\ ClockType /\ [Next]_vars => ClockType'
<1> SUFFICES ASSUME PauseInv, ClockType, [Next]_vars PROVE ClockType'
  OBVIOUS
<1>1. CASE Cycle
  BY <1>1, TimeAssumption DEF Cycle, Clock, ClockType, PauseInv
<1>2. CASE ControlKept
  BY <1>2 DEF ControlKept, clocked, ClockType
<1> QED
  BY <1>1, <1>2, OnlyCyclesControl

(* What the host's packets and the program put into the registers. *)
DataType ==
  /\ commands \in Seq(Commands) /\ AtMostOne(commands)
  /\ AtMostOne(responses)
  /\ deterministicCycleCount \in BOOLEAN /\ resetReg \in BOOLEAN
  /\ instruction \in Insts \cup {Null}
  /\ dest \in Insts \cup PCs \cup {Null} /\ mipsPC \in PCs \cup {Null}
  /\ bp \in [BreakPointOps -> PCs \cup {NoPC}]
  /\ bpReport \in Seq(PCs) /\ AtMostOne(bpReport)
  /\ instQ \in Seq(Insts \cup {Null}) /\ AtMostOne(instQ)
  /\ writebacks \in Seq(Results) /\ AtMostOne(writebacks)
  /\ pipe \in Seq(InPipeline) /\ Len(pipe) <= PipeDepth

LEMMA OneReply == ASSUME NEW op, NEW data, Answer(op, data) \/ NoAnswer, AtMostOne(responses)
                  PROVE  AtMostOne(responses)'
<1>1. CASE Answer(op, data)
  <2>1. Len(responses') = 1
    BY <1>1 DEF Answer
  <2> QED BY <2>1 DEF AtMostOne
<1>2. CASE NoAnswer
  BY <1>2 DEF NoAnswer, AtMostOne
<1> QED BY <1>1, <1>2

RegisterTypes == /\ deterministicCycleCount \in BOOLEAN /\ resetReg \in BOOLEAN
                 /\ instruction \in Insts \cup {Null}
                 /\ dest \in Insts \cup PCs \cup {Null}
                 /\ bp \in [BreakPointOps -> PCs \cup {NoPC}]

LEMMA RegisterRule == DataType /\ Rule => RegisterTypes'
<1> SUFFICES ASSUME DataType, Rule PROVE RegisterTypes'
  OBVIOUS
<1> USE DEF DataType, RegisterTypes
<1>1. CASE doCommands
  <2> USE <1>1 DEF doCommands, registers
  <2>0. Command \in Commands
    BY DEF Polls, Command, AtMostOne
  <2>1. CASE Load
    BY <2>0, <2>1, CommandsAssumption DEF Load
  <2>2. CASE BreakOnTraceFltr
    BY <2>2 DEF BreakOnTraceFltr
  <2>3. CASE ExecuteInstruction
    BY <2>3 DEF ExecuteInstruction
  <2>4. CASE ReportDest
    BY <2>4 DEF ReportDest
  <2>5. CASE MovePCtoDest
    BY <2>5 DEF MovePCtoDest
  <2>6. CASE PauseExecution
    BY <2>6 DEF PauseExecution
  <2>7. CASE ResumeExecution
    BY <2>7 DEF ResumeExecution
  <2>8. CASE ResumeUnpipelined
    BY <2>8 DEF ResumeUnpipelined
  <2>9. CASE StepExecution
    BY <2>9 DEF StepExecution
  <2>10. CASE StreamTrace
    BY <2>10 DEF StreamTrace
  <2>11. CASE ResetSystem
    BY <2>11 DEF ResetSystem
  <2>12. CASE InvalidCommand
    BY <2>12 DEF InvalidCommand
  <2> QED
    BY <2>1, <2>2, <2>3, <2>4, <2>5, <2>6, <2>7, <2>8, <2>9, <2>10, <2>11, <2>12
<1>2. CASE finishExecute
  <2>1. Head(writebacks) \in Results
    BY <1>2 DEF finishExecute, Finishes
  <2>2. Head(writebacks).inst \in Insts \cup {Null}
    BY <2>1 DEF Results
  <2> QED
    BY <1>2, <2>2 DEF finishExecute
<1>3. CASE UNCHANGED registers
  BY <1>3 DEF registers
<1>4. \/ doCommands \/ finishExecute \/ UNCHANGED registers
  <2>1. ASSUME streamTrace \/ countIdleCyclesStreamTrace \/ reportBreakPoint PROVE UNCHANGED registers
    BY <2>1 DEF streamTrace, countIdleCyclesStreamTrace, reportBreakPoint
  <2>2. ASSUME unpipelinedStep \/ step \/ countIdleCycles \/ noRule PROVE UNCHANGED registers
    BY <2>2 DEF unpipelinedStep, step, countIdleCycles, noRule
  <2> QED BY <2>1, <2>2 DEF Rule
<1> QED
  BY <1>1, <1>2, <1>3, <1>4

LEMMA Emptied == ASSUME NEW S, NEW q \in Seq(S), NEW r, AtMostOne(q), r \in {q, << >>}
                 PROVE  r \in Seq(S) /\ AtMostOne(r)
<1>1. CASE r = << >>
  <2>1. << >> \in Seq(S)
    OBVIOUS
  <2>2. AtMostOne(<< >>)
    BY DEF AtMostOne
  <2> QED BY <1>1, <2>1, <2>2
<1>2. CASE r = q
  BY <1>2
<1> QED BY <1>1, <1>2

LEMMA Single == ASSUME NEW S, NEW x \in S PROVE <<x>> \in Seq(S) /\ AtMostOne(<<x>>)
<1>1. <<x>> \in Seq(S)
  OBVIOUS
<1>2. Len(<<x>>) = 1
  OBVIOUS
<1>3. AtMostOne(<<x>>)
  BY <1>2 DEF AtMostOne
<1> QED BY <1>1, <1>3

PacketTypes == commands \in Seq(Commands) /\ AtMostOne(commands) /\ AtMostOne(responses)

LEMMA PacketRule == PacketTypes /\ Rule => PacketTypes'
<1> SUFFICES ASSUME PacketTypes, Rule PROVE PacketTypes'
  OBVIOUS
<1>1. commands' \in {commands, << >>}
  BY DEF Rule, doCommands, streamTrace, countIdleCyclesStreamTrace, reportBreakPoint,
         unpipelinedStep, step, finishExecute, countIdleCycles, noRule
<1>2. (commands \in Seq(Commands) /\ AtMostOne(commands))'
  BY <1>1, Emptied DEF PacketTypes
<1>3. CASE \E op, data : Answer(op, data) \/ NoAnswer
  BY <1>2, <1>3, OneReply DEF PacketTypes
<1>4. CASE reportBreakPoint
  <2>1. Len(responses') = 1
    BY <1>4 DEF reportBreakPoint
  <2> QED BY <1>2, <2>1 DEF PacketTypes, AtMostOne
<1>5. ASSUME ~reportBreakPoint PROVE \E op, data : Answer(op, data) \/ NoAnswer
  <2>1. CASE doCommands
    BY <2>1 DEF doCommands, Load, BreakOnTraceFltr, ExecuteInstruction, ReportDest,
          MovePCtoDest, PauseExecution, ResumeExecution, ResumeUnpipelined, StepExecution,
          StreamTrace, ResetSystem, InvalidCommand
  <2>2. CASE streamTrace \/ unpipelinedStep \/ noRule
    BY <2>2 DEF streamTrace, unpipelinedStep, noRule, NoAnswer
  <2>3. CASE countIdleCyclesStreamTrace
    BY <2>3 DEF countIdleCyclesStreamTrace
  <2>4. CASE step
    BY <2>4 DEF step
  <2>5. CASE finishExecute
    BY <2>5 DEF finishExecute
  <2>6. CASE countIdleCycles
    BY <2>6 DEF countIdleCycles
  <2> QED BY <1>5, <2>1, <2>2, <2>3, <2>4, <2>5, <2>6 DEF Rule
<1> QED
  BY <1>3, <1>4, <1>5

QueueTypes == /\ bpReport \in Seq(PCs) /\ AtMostOne(bpReport)
              /\ instQ \in Seq(Insts \cup {Null}) /\ AtMostOne(instQ)
              /\ writebacks \in Seq(Results) /\ AtMostOne(writebacks)
              /\ pipe \in Seq(InPipeline) /\ Len(pipe) <= PipeDepth

LEMMA QueueCycle == DataType /\ Cycle => QueueTypes'
<1> SUFFICES ASSUME DataType, Cycle PROVE QueueTypes'
  OBVIOUS
<1> USE DEF DataType
<1>1. PICK f \in BOOLEAN : Fetch(f)
  BY DEF Cycle
<1>2. (writebacks \in Seq(Results) /\ AtMostOne(writebacks))'
  <2>1. writebacks' \in {writebacks, << >>}
    BY DEF Cycle, Clock
  <2> QED BY <2>1, Emptied
<1>3. instQFilled \in Seq(Insts \cup {Null}) /\ AtMostOne(instQFilled)
  BY Single DEF instQFilled
<1>4. bpReportLeft \in Seq(PCs) /\ AtMostOne(bpReportLeft)
  BY Emptied DEF bpReportLeft
<1>5. CASE Stall
  <2>1. instQ' = instQFilled /\ bpReport' = bpReportLeft /\ pipe' = pipe
    BY <1>5 DEF Stall
  <2> QED BY <1>2, <1>3, <1>4, <2>1 DEF QueueTypes, AtMostOne
<1>6. CASE debugInstructionFetch
  <2>1. Head(instQ) \in Insts \cup {Null}
    BY <1>6 DEF debugInstructionFetch
  <2>2. [debug |-> TRUE, what |-> Head(instQ)] \in InPipeline
    BY <2>1 DEF InPipeline
  <2>3. pipe' \in Seq(InPipeline) /\ Len(pipe') <= PipeDepth
    BY <1>6, <2>2, SizeAssumption DEF debugInstructionFetch
  <2>4. instQ' \in {instQ, << >>} /\ bpReport' = bpReportLeft
    BY <1>6 DEF debugInstructionFetch
  <2>5. (instQ \in Seq(Insts \cup {Null}) /\ AtMostOne(instQ))'
    BY <2>4, Emptied
  <2> QED BY <1>2, <1>4, <2>3, <2>4, <2>5 DEF QueueTypes, AtMostOne
<1>7. ASSUME NEW pc \in PCs, instructionFetch(pc) PROVE QueueTypes'
  <2>1. [debug |-> FALSE, what |-> pc] \in InPipeline
    BY DEF InPipeline
  <2>2. pipe' \in Seq(InPipeline) /\ Len(pipe') <= PipeDepth
    BY <1>7, <2>1, SizeAssumption DEF instructionFetch
  <2>3. (bpReport \in Seq(PCs) /\ AtMostOne(bpReport))'
    <3>1. bpReport' = bpReportLeft \/ bpReport' = <<pc>>
      BY <1>7 DEF instructionFetch
    <3> QED BY <1>4, <3>1, Single DEF AtMostOne
  <2>4. instQ' = instQFilled
    BY <1>7 DEF instructionFetch
  <2> QED BY <1>2, <1>3, <2>2, <2>3, <2>4 DEF QueueTypes, AtMostOne
<1> QED
  BY <1>1, <1>5, <1>6, <1>7 DEF Fetch

LEMMA DataTypeStep == DataType /\ [Next]_vars => DataType'
<1> SUFFICES ASSUME DataType, [Next]_vars PROVE DataType'
  OBVIOUS
<1>1. CASE Cycle
  <2>1. Rule /\ mipsPC' = mipsPC
    BY <1>1 DEF Cycle
  <2>2. RegisterTypes' /\ QueueTypes'
    BY <1>1, <2>1, RegisterRule, QueueCycle
  <2>3. PacketTypes'
    BY <2>1, PacketRule DEF DataType, PacketTypes
  <2> QED BY <2>1, <2>2, <2>3 DEF DataType, RegisterTypes, QueueTypes, PacketTypes
<1>2. CASE Retire
  <2> USE DEF DataType
  <2>1. Head(pipe) \in InPipeline /\ pipe' \in Seq(InPipeline) /\ Len(pipe') <= PipeDepth
    BY <1>2, SizeAssumption DEF Retire
  <2>2. mipsPC' \in PCs \cup {Null}
    BY <1>2, <2>1 DEF Retire, InPipeline
  <2>3. writebacks' \in Seq(Results) /\ AtMostOne(writebacks)'
    <3>1. CASE Head(pipe).debug
      <4>1. Head(pipe).what \in Insts \cup {Null}
        BY <2>1, <3>1 DEF InPipeline
      <4>2. PICK wb, exc \in BOOLEAN :
              writebacks' = <<[inst |-> Head(pipe).what, writeback |-> wb, exception |-> exc]>>
        BY <1>2, <3>1 DEF Retire
      <4>3. [inst |-> Head(pipe).what, writeback |-> wb, exception |-> exc] \in Results
        BY <4>1 DEF Results
      <4> QED BY <4>2, <4>3 DEF AtMostOne
    <3>2. CASE ~Head(pipe).debug
      BY <1>2, <3>2 DEF Retire, AtMostOne
    <3> QED BY <3>1, <3>2
  <2> QED BY <1>2, <2>1, <2>2, <2>3 DEF Retire, registers, AtMostOne
<1>3. ASSUME NEW c \in Commands, Send(c) PROVE DataType'
  <2>1. commands' \in Seq(Commands) /\ Len(commands') = 1
    BY <1>3 DEF Send
  <2> QED BY <1>3, <2>1 DEF DataType, Send, registers, queues, AtMostOne
<1>4. CASE Receive
  BY <1>4 DEF DataType, Receive, registers, queues, AtMostOne
<1>5. CASE UNCHANGED vars
  BY <1>5 DEF DataType, vars, registers, queues, AtMostOne
<1> QED
  BY <1>1, <1>2, <1>3, <1>4, <1>5 DEF Next

-----------------------------------------------------------------------------
(* Instructions of the host's on their way: in instQ, in the pipeline or   *)
(* back in writebacks, in one place at a time.                             *)
NoDebugIn(p) == \A i \in DOMAIN p : ~p[i].debug
OnlyDebugIn(p, x) == \E i \in DOMAIN p : /\ p[i].debug /\ p[i].what = x
                                         /\ \A j \in DOMAIN p : p[j].debug => j = i

InQueue  == instQ = <<executing>> /\ NoDebugIn(pipe) /\ writebacks = << >>
InPipe   == instQ = << >> /\ OnlyDebugIn(pipe, executing) /\ writebacks = << >>
InResult == /\ instQ = << >> /\ NoDebugIn(pipe) /\ Len(writebacks) = 1
            /\ Head(writebacks).inst = executing
Nowhere  == instQ = << >> /\ NoDebugIn(pipe) /\ writebacks = << >>

InFlightInv == ~timedOut => IF state = "ExecuteInstruction" THEN InQueue \/ InPipe \/ InResult
                                                            ELSE Nowhere

LEMMA AppendDebug ==
  ASSUME NEW p \in Seq(InPipeline), NEW e \in InPipeline
  PROVE  /\ NoDebugIn(p) /\ e.debug => OnlyDebugIn(Append(p, e), e.what)
         /\ NoDebugIn(p) /\ ~e.debug => NoDebugIn(Append(p, e))
         /\ \A x : OnlyDebugIn(p, x) /\ ~e.debug => OnlyDebugIn(Append(p, e), x)
<1> DEFINE q == Append(p, e)
<1>1. /\ DOMAIN q = 1 .. Len(p) + 1 /\ DOMAIN p = 1 .. Len(p) /\ Len(p) \in Nat
      /\ q[Len(p) + 1] = e /\ \A i \in 1 .. Len(p) : q[i] = p[i]
  OBVIOUS
<1> HIDE DEF q
<1>2. NoDebugIn(p) /\ e.debug => OnlyDebugIn(q, e.what)
  BY <1>1 DEF NoDebugIn, OnlyDebugIn
<1>3. NoDebugIn(p) /\ ~e.debug => NoDebugIn(q)
  BY <1>1 DEF NoDebugIn
<1>4. ASSUME NEW x, OnlyDebugIn(p, x), ~e.debug PROVE OnlyDebugIn(q, x)
  <2>1. PICK i \in DOMAIN p : p[i].debug /\ p[i].what = x /\ \A j \in DOMAIN p : p[j].debug => j = i
    BY <1>4 DEF OnlyDebugIn
  <2>2. i \in DOMAIN q /\ q[i] = p[i] /\ \A j \in DOMAIN q : q[j].debug => j = i
    BY <1>1, <1>4, <2>1
  <2> QED BY <2>1, <2>2 DEF OnlyDebugIn
<1> QED BY <1>2, <1>3, <1>4 DEF q

LEMMA TailDebug ==
  ASSUME NEW p \in Seq(InPipeline), p # << >>
  PROVE  /\ NoDebugIn(p) => ~Head(p).debug /\ NoDebugIn(Tail(p))
         /\ \A x : OnlyDebugIn(p, x) =>
              IF Head(p).debug THEN Head(p).what = x /\ NoDebugIn(Tail(p))
                               ELSE OnlyDebugIn(Tail(p), x)
<1> DEFINE q == Tail(p)
<1>1. /\ Len(p) \in Nat \ {0} /\ DOMAIN p = 1 .. Len(p) /\ DOMAIN q = 1 .. Len(p) - 1
      /\ Head(p) = p[1] /\ \A i \in 1 .. Len(p) - 1 : q[i] = p[i + 1]
  OBVIOUS
<1> HIDE DEF q
<1>2. NoDebugIn(p) => ~Head(p).debug /\ NoDebugIn(q)
  BY <1>1 DEF NoDebugIn
<1>3. ASSUME NEW x, OnlyDebugIn(p, x)
      PROVE  IF Head(p).debug THEN Head(p).what = x /\ NoDebugIn(q) ELSE OnlyDebugIn(q, x)
  <2>1. PICK i \in DOMAIN p : p[i].debug /\ p[i].what = x /\ \A j \in DOMAIN p : p[j].debug => j = i
    BY <1>3 DEF OnlyDebugIn
  <2>2. CASE Head(p).debug
    <3>1. i = 1
      BY <1>1, <2>1, <2>2
    <3> QED BY <1>1, <2>1, <2>2, <3>1 DEF NoDebugIn
  <2>3. CASE ~Head(p).debug
    <3>1. i # 1 /\ i - 1 \in DOMAIN q /\ q[i - 1] = p[i]
      BY <1>1, <2>1, <2>3
    <3>2. ASSUME NEW j \in DOMAIN q, q[j].debug PROVE j = i - 1
      <4>1. j + 1 \in DOMAIN p /\ p[j + 1].debug
        BY <1>1, <3>2
      <4>2. j + 1 = i
        BY <2>1, <4>1
      <4> QED BY <1>1, <4>2
    <3> QED BY <2>1, <2>3, <3>1, <3>2 DEF OnlyDebugIn
  <2> QED BY <2>2, <2>3
<1> QED BY <1>2, <1>3 DEF q

(* What the fetch stage does to the pipeline and instQ in a cycle. *)
DebugNotFetched == /\ instQ' = instQFilled
                   /\ NoDebugIn(pipe) => NoDebugIn(pipe')
                   /\ \A x : OnlyDebugIn(pipe, x) => OnlyDebugIn(pipe', x)
DebugFetched == /\ instQ # << >> /\ instQ' = << >>
                /\ NoDebugIn(pipe) => OnlyDebugIn(pipe', Head(instQ))

LEMMA FetchDebug == ASSUME DataType, Cycle PROVE DebugNotFetched \/ DebugFetched
<1>1. PICK f \in BOOLEAN : Fetch(f)
  BY DEF Cycle
<1>2. pipe \in Seq(InPipeline)
  BY DEF DataType
<1>3. CASE Stall
  BY <1>3 DEF Stall, DebugNotFetched
<1>4. CASE debugInstructionFetch
  <2> DEFINE e == [debug |-> TRUE, what |-> Head(instQ)]
  <2>1. instQ # << >> /\ instQ' = << >> /\ pipe' = Append(pipe, e)
    BY <1>4 DEF debugInstructionFetch
  <2>2. Head(instQ) \in Insts \cup {Null}
    BY <2>1 DEF DataType
  <2>3. e \in InPipeline /\ e.debug /\ e.what = Head(instQ)
    BY <2>2 DEF InPipeline
  <2> HIDE DEF e
  <2>4. NoDebugIn(pipe) => OnlyDebugIn(pipe', Head(instQ))
    BY <1>2, <2>1, <2>3, AppendDebug
  <2> QED BY <2>1, <2>4 DEF DebugFetched
<1>5. ASSUME NEW pc \in PCs, instructionFetch(pc) PROVE DebugNotFetched
  <2>1. [debug |-> FALSE, what |-> pc] \in InPipeline
    BY DEF InPipeline
  <2> QED BY <1>2, <1>5, <2>1, AppendDebug DEF instructionFetch, DebugNotFetched
<1>6. Stall \/ debugInstructionFetch \/ \E pc \in PCs : instructionFetch(pc)
  BY <1>1 DEF Fetch
<1> QED BY <1>3, <1>4, <1>5, <1>6

(* What a cycle does to what is executed, as long as it does not time out. *)
LEMMA ExecutingRule ==
  ASSUME Rule, ~timedOut', PauseInv
  PROVE  /\ ~timedOut
         /\ \/ /\ Takes("ExecuteInstruction") /\ state = "Polling" /\ instQ = << >> /\ ~Finishes
               /\ state' = "ExecuteInstruction" /\ executing' = instruction
            \/ /\ Finishes /\ state' # "ExecuteInstruction"
               /\ ~Takes("ExecuteInstruction") /\ executing' = executing
            \/ /\ ~Finishes /\ ~Takes("ExecuteInstruction") /\ executing' = executing
               /\ (state' = "ExecuteInstruction") <=> (state = "ExecuteInstruction")
<1> USE DEF Takes, Polls, Finishes
<1>1. CASE doCommands
  <2> USE <1>1 DEF doCommands, pausing
  <2>1. CASE ExecuteInstruction
    BY <2>1 DEF ExecuteInstruction
  <2>2. CASE StepExecution
    <3>1. state' # "ExecuteInstruction" /\ executing' = executing /\ Command.op = "StepExecution"
      BY <2>2 DEF StepExecution
    <3> QED BY <3>1
  <2>3. CASE StreamTrace
    BY <2>3 DEF StreamTrace
  <2>4. CASE Load
    BY <2>4 DEF Load, BreakPointOps
  <2>5. CASE BreakOnTraceFltr \/ ReportDest \/ MovePCtoDest
    BY <2>5 DEF BreakOnTraceFltr, ReportDest, MovePCtoDest
  <2>6. CASE PauseExecution \/ ResumeExecution \/ ResumeUnpipelined
    BY <2>6 DEF PauseExecution, ResumeExecution, ResumeUnpipelined
  <2>7. CASE ResetSystem \/ InvalidCommand
    BY <2>7 DEF ResetSystem, InvalidCommand
  <2> QED
    BY <2>1, <2>2, <2>3, <2>4, <2>5, <2>6, <2>7
<1>2. CASE finishExecute
  BY <1>2 DEF finishExecute, history
<1>3. CASE countIdleCycles
  <2>1. CASE idleCount >= ExecuteTimeout
    BY <1>3, <2>1 DEF countIdleCycles
  <2>2. CASE ~(idleCount >= ExecuteTimeout)
    BY <1>3, <2>2 DEF countIdleCycles, Waits
  <2> QED BY <2>1, <2>2
<1>4. CASE noRule
  BY <1>4 DEF noRule, history, pausing
<1>5. CASE streamTrace
  BY <1>5 DEF streamTrace, Pops, StopsTrace, history
<1>6. CASE countIdleCyclesStreamTrace
  BY <1>6 DEF countIdleCyclesStreamTrace, Idles, history
<1>7. CASE reportBreakPoint
  BY <1>7 DEF reportBreakPoint, Reports, history
<1>8. CASE unpipelinedStep
  BY <1>8 DEF unpipelinedStep, StepsOn, history
<1>9. CASE step
  BY <1>9 DEF step, Steps, history
<1> QED
  BY <1>1, <1>2, <1>3, <1>4, <1>5, <1>6, <1>7, <1>8, <1>9 DEF Rule

LEMMA InFlightCycle ==
  ASSUME DataType, PauseInv, InFlightInv, Cycle, ~timedOut'
  PROVE  IF state' = "ExecuteInstruction" THEN InQueue' \/ InPipe' \/ InResult' ELSE Nowhere'
<1>1. writebacks' = IF Finishes \/ state = "Polling" THEN << >> ELSE writebacks
  BY DEF Cycle, Clock
<1>2. Rule
  BY DEF Cycle
<1>3. CASE Takes("ExecuteInstruction")
  <2>1. /\ ~timedOut /\ state = "Polling" /\ instQ = << >>
        /\ state' = "ExecuteInstruction" /\ executing' = instruction
    BY <1>2, <1>3, ExecutingRule DEF Finishes, Takes, Polls
  <2>2. Nowhere
    BY <2>1 DEF InFlightInv
  <2>3. instQ' = <<instruction>> /\ NoDebugIn(pipe')
    BY <1>3, <2>1, <2>2, FetchDebug DEF DebugNotFetched, DebugFetched, instQFilled, Nowhere
  <2> QED BY <1>1, <2>1, <2>3 DEF InQueue, NoDebugIn
<1>4. CASE ~Takes("ExecuteInstruction")
  <2>1. instQFilled = instQ /\ executing' = executing /\ ~timedOut
    BY <1>2, <1>4, ExecutingRule DEF instQFilled
  <2>2. CASE state # "ExecuteInstruction"
    <3>1. Nowhere /\ state' # "ExecuteInstruction"
      BY <1>2, <1>4, <2>1, <2>2, ExecutingRule DEF InFlightInv
    <3>2. instQ' = << >> /\ NoDebugIn(pipe')
      BY <2>1, <3>1, FetchDebug DEF DebugNotFetched, DebugFetched, Nowhere
    <3> QED BY <1>1, <3>1, <3>2 DEF Nowhere, NoDebugIn
  <2>3. CASE state = "ExecuteInstruction" /\ Finishes
    <3>1. state' # "ExecuteInstruction" /\ InResult
      BY <1>2, <1>4, <2>1, <2>3, ExecutingRule DEF InFlightInv, Finishes, InQueue, InPipe
    <3>2. instQ' = << >> /\ NoDebugIn(pipe')
      BY <2>1, <3>1, FetchDebug DEF DebugNotFetched, DebugFetched, InResult
    <3> QED BY <1>1, <2>3, <3>1, <3>2 DEF Nowhere, NoDebugIn
  <2>4. CASE state = "ExecuteInstruction" /\ ~Finishes
    <3>1. state' = "ExecuteInstruction" /\ (InQueue \/ InPipe \/ InResult)
      BY <1>2, <1>4, <2>1, <2>4, ExecutingRule DEF InFlightInv
    <3>2. writebacks' = writebacks
      BY <1>1, <2>4
    <3>3. CASE InQueue
      <4>1. Head(instQ) = executing /\ instQ = <<executing>> /\ NoDebugIn(pipe)
        BY <3>3 DEF InQueue
      <4>2. \/ instQ' = <<executing>> /\ NoDebugIn(pipe')
            \/ instQ' = << >> /\ OnlyDebugIn(pipe', executing)
        BY <2>1, <4>1, FetchDebug DEF DebugNotFetched, DebugFetched
      <4> QED BY <2>1, <3>1, <3>2, <3>3, <4>2 DEF InQueue, InPipe, NoDebugIn, OnlyDebugIn
    <3>4. CASE InPipe
      <4>1. instQ' = << >> /\ OnlyDebugIn(pipe', executing)
        BY <2>1, <3>4, FetchDebug DEF DebugNotFetched, DebugFetched, InPipe
      <4> QED BY <2>1, <3>1, <3>2, <3>4, <4>1 DEF InPipe, OnlyDebugIn
    <3>5. CASE InResult
      <4>1. instQ' = << >> /\ NoDebugIn(pipe')
        BY <2>1, <3>5, FetchDebug DEF DebugNotFetched, DebugFetched, InResult
      <4> QED BY <2>1, <3>1, <3>2, <3>5, <4>1 DEF InResult, NoDebugIn
    <3> QED BY <3>1, <3>3, <3>4, <3>5
  <2> QED BY <2>2, <2>3, <2>4
<1> QED BY <1>3, <1>4

LEMMA InFlightRetire ==
  ASSUME DataType, InFlightInv, Retire, ~timedOut
  PROVE  IF state = "ExecuteInstruction" THEN InQueue' \/ InPipe' \/ InResult' ELSE Nowhere'
<1>1. /\ pipe \in Seq(InPipeline) /\ pipe # << >> /\ pipe' = Tail(pipe)
      /\ instQ' = instQ /\ executing' = executing
  BY DEF DataType, Retire, history
<1>2. CASE ~Head(pipe).debug
  <2>1. writebacks' = writebacks
    BY <1>2 DEF Retire
  <2>2. NoDebugIn(pipe) => NoDebugIn(pipe')
    BY <1>1, TailDebug
  <2>3. OnlyDebugIn(pipe, executing) => OnlyDebugIn(pipe', executing)
    BY <1>1, <1>2, TailDebug
  <2> QED BY <1>1, <2>1, <2>2, <2>3
          DEF InFlightInv, InQueue, InPipe, InResult, Nowhere, NoDebugIn, OnlyDebugIn
<1>3. CASE Head(pipe).debug
  <2>1. ~NoDebugIn(pipe)
    BY <1>1, <1>3, TailDebug
  <2>2. state = "ExecuteInstruction" /\ InPipe
    BY <2>1 DEF InFlightInv, InQueue, InResult, Nowhere
  <2>3. Head(pipe).what = executing /\ NoDebugIn(pipe')
    BY <1>1, <1>3, <2>2, TailDebug DEF InPipe
  <2>4. Len(writebacks') = 1 /\ Head(writebacks').inst = executing
    <3>1. PICK wb, exc \in BOOLEAN :
            writebacks' = <<[inst |-> Head(pipe).what, writeback |-> wb, exception |-> exc]>>
      BY <1>3 DEF Retire
    <3> QED BY <2>3, <3>1
  <2> QED BY <1>1, <2>2, <2>3, <2>4 DEF InResult, InPipe, NoDebugIn
<1> QED BY <1>2, <1>3

LEMMA InFlightStep == DataType /\ PauseInv /\ InFlightInv /\ [Next]_vars => InFlightInv'
<1> SUFFICES ASSUME DataType, PauseInv, InFlightInv, [Next]_vars PROVE InFlightInv'
  OBVIOUS
<1>1. CASE Cycle
  BY <1>1, InFlightCycle DEF InFlightInv
<1>2. CASE Retire
  <2>1. state' = state /\ timedOut' = timedOut
    BY <1>2 DEF Retire, pausing, history
  <2> QED BY <1>2, <2>1, InFlightRetire DEF InFlightInv
<1>3. CASE UNCHANGED <<state, timedOut, executing, instQ, pipe, writebacks>>
  BY <1>3 DEF InFlightInv, InQueue, InPipe, InResult, Nowhere, NoDebugIn, OnlyDebugIn
<1>4. Cycle \/ Retire \/ UNCHANGED <<state, timedOut, executing, instQ, pipe, writebacks>>
  BY DEF Next, Send, Receive, vars, pausing, queues, history
<1> QED BY <1>1, <1>2, <1>3, <1>4

LEMMA InFlightOne == DataType /\ InFlightInv => OneAtATime /\ ResultIsOfCommand
<1> SUFFICES ASSUME DataType, InFlightInv, ~timedOut PROVE OneAtATime /\ ResultIsOfCommand
  BY DEF OneAtATime, ResultIsOfCommand
<1>1. CASE Nowhere /\ state # "ExecuteInstruction"
  BY <1>1 DEF Nowhere, NoDebugIn, OneAtATime, ResultIsOfCommand, DebugInFlight
<1>2. CASE InQueue /\ state = "ExecuteInstruction"
  <2>1. DebugInFlight = {<<"instQ", 1>>}
    BY <1>2 DEF InQueue, NoDebugIn, DebugInFlight
  <2> QED BY <1>2, <2>1 DEF OneAtATime, ResultIsOfCommand, InQueue
<1>3. CASE InPipe /\ state = "ExecuteInstruction"
  <2>1. PICK i \in DOMAIN pipe : pipe[i].debug /\ \A j \in DOMAIN pipe : pipe[j].debug => j = i
    BY <1>3 DEF InPipe, OnlyDebugIn
  <2>2. DebugInFlight = {<<"pipe", i>>}
    BY <1>3, <2>1 DEF InPipe, DebugInFlight
  <2> QED BY <1>3, <2>2 DEF OneAtATime, ResultIsOfCommand, InPipe
<1>4. CASE InResult /\ state = "ExecuteInstruction"
  <2>1. DOMAIN writebacks = {1}
    BY <1>4 DEF InResult, DataType
  <2>2. DebugInFlight = {<<"writebacks", 1>>}
    BY <1>4, <2>1 DEF InResult, NoDebugIn, DebugInFlight
  <2> QED BY <1>4, <2>2 DEF OneAtATime, ResultIsOfCommand, InResult
<1> QED BY <1>1, <1>2, <1>3, <1>4 DEF InFlightInv

-----------------------------------------------------------------------------
(* The inductive invariants together, and the theorems. *)
TypeInv == RepliesInv /\ PauseInv /\ BufferType /\ ClockType /\ DataType

LEMMA TypeInvInit == Init => TypeInv
<1> SUFFICES ASSUME Init PROVE TypeInv
  OBVIOUS
<1> USE DEF Init
<1>1. RepliesInv
  BY DEF RepliesInv, CommandHeld, OneReplyPerCommand, Owed, States
<1>2. PauseInv
  BY DEF PauseInv, States
<1>3. AtMostOne(<< >>)
  BY DEF AtMostOne
<1>4. BufferType
  <2>1. 0 \in 0 .. TraceSize
    BY SizeAssumption
  <2> QED BY <1>3, <2>1 DEF BufferType
<1>5. ClockType
  <2>1. 0 \in 0 .. Period - 1
    BY TimeAssumption
  <2> QED BY <2>1 DEF ClockType
<1>6. DataType
  <2>1. Len(pipe) <= PipeDepth
    BY SizeAssumption
  <2>2. << >> \in Seq(Commands) /\ << >> \in Seq(PCs) /\ << >> \in Seq(Insts \cup {Null})
        /\ << >> \in Seq(Results) /\ << >> \in Seq(InPipeline)
    OBVIOUS
  <2> QED BY <1>3, <2>1, <2>2 DEF DataType
<1> QED
  BY <1>1, <1>2, <1>4, <1>5, <1>6 DEF TypeInv

LEMMA TypeInvStep == TypeInv /\ [Next]_vars => TypeInv'
BY RepliesStep, PauseStep, BufferTypeStep, ClockTypeStep, DataTypeStep DEF TypeInv

LEMMA TypeInvAlways == Spec => []TypeInv
BY TypeInvInit, TypeInvStep, PTL DEF Spec

LEMMA TypeInvImplies == TypeInv => TypeOK
<1> SUFFICES ASSUME TypeInv PROVE TypeOK
  OBVIOUS
<1>1. curCommand \in Seq({"ExecuteInstruction", "StepExecution", "Null"}) /\ AtMostOne(curCommand)
  <2>1. CASE curCommand = << >>
    <3>1. << >> \in Seq({"ExecuteInstruction", "StepExecution", "Null"})
      OBVIOUS
    <3>2. AtMostOne(<< >>)
      BY DEF AtMostOne
    <3> QED BY <2>1, <3>1, <3>2
  <2>2. CASE \E op \in {"ExecuteInstruction", "StepExecution", "Null"} : curCommand = <<op>>
    BY <2>2, Single
  <2> QED BY <2>1, <2>2 DEF TypeInv, RepliesInv, CommandHeld
<1>2. {unPipeline, previousPausePipe, breakTraceCmp, deterministicCycleCount, resetReg,
       sysPause, fetchPause, traceDelay} \subseteq BOOLEAN
  BY DEF TypeInv, PauseInv, BufferType, ClockType, DataType
<1> QED
  BY <1>1, <1>2 DEF TypeInv, TypeOK, RepliesInv, CommandHeld, BufferType, ClockType, DataType

(* The types of mkDebug's registers and FIFOs, none of which ever holds    *)
(* more than one element, and the size of its trace buffer.                *)
THEOREM TypeCorrect == Spec => []TypeOK
BY TypeInvAlways, TypeInvImplies, PTL

(* Every packet that doCommands takes is replied to at most once, and the  *)
(* only packet not yet replied to is the one the debug unit works on.      *)
THEOREM RepliesCorrect == Spec => []OneReplyPerCommand
<1>1. TypeInv => OneReplyPerCommand
  BY DEF TypeInv, RepliesInv
<1> QED BY <1>1, TypeInvAlways, PTL

(* In the states ExecuteInstruction and Step there is a command to finish: *)
(* the rules step, finishExecute and countIdleCycles never wait for one.   *)
THEOREM NoEmptyWait == Spec => []CommandInProgress
<1>1. TypeInv => CommandInProgress
  BY DEF TypeInv, RepliesInv, CommandHeld, CommandInProgress
<1> QED BY <1>1, TypeInvAlways, PTL

(* Until an instruction of the host's times out, the program is paused     *)
(* when and only when the host (or a breakpoint, or the end of a trace)    *)
(* asked for it, whatever was stepped and executed in between.             *)
THEOREM PauseCorrect == Spec => []PausedAsAsked
<1>1. TypeInv => PausedAsAsked
  BY DEF TypeInv, PauseInv, PausedAsAsked
<1> QED BY <1>1, TypeInvAlways, PTL

(* A pause lets the fetch stage fetch one more instruction at most. *)
THEOREM StopCorrect == Spec => []StopsAtOnce
<1>1. Init => OverrunInv
  BY DEF Init, OverrunInv
<1>2. TypeInv /\ OverrunInv /\ [Next]_vars => OverrunInv'
  BY OverrunStep DEF TypeInv
<1>3. OverrunInv => StopsAtOnce
  BY DEF OverrunInv, StopsAtOnce
<1> QED BY <1>1, <1>2, <1>3, TypeInvAlways, PTL DEF Spec

(* A StepExecution of a paused program fetches one instruction at most. *)
THEOREM StepCorrect == Spec => []OneInstructionPerStep
<1>1. Init => StepInv
  BY DEF Init, StepInv
<1>2. TypeInv /\ StepInv /\ [Next]_vars => StepInv'
  BY StepStep DEF TypeInv
<1>3. StepInv => OneInstructionPerStep
  BY DEF StepInv, OneInstructionPerStep
<1> QED BY <1>1, <1>2, <1>3, TypeInvAlways, PTL DEF Spec

(* Until an instruction of the host's times out, one is on its way exactly *)
(* while ExecuteInstruction waits for it.                                  *)
THEOREM ExecuteCorrect == Spec => [](OneAtATime /\ ResultIsOfCommand)
<1>1. Init => InFlightInv
  BY DEF Init, InFlightInv, Nowhere, NoDebugIn
<1>2. TypeInv /\ InFlightInv /\ [Next]_vars => InFlightInv'
  BY InFlightStep DEF TypeInv
<1>3. TypeInv /\ InFlightInv => OneAtATime /\ ResultIsOfCommand
  BY InFlightOne DEF TypeInv
<1> QED BY <1>1, <1>2, <1>3, TypeInvAlways, PTL DEF Spec

(* It exists once: in the queue to fetch, in the pipeline or as a result.  *)
THEOREM InstructionsAlone == Spec => []OneAtATime
<1>1. OneAtATime /\ ResultIsOfCommand => OneAtATime
  OBVIOUS
<1> QED BY <1>1, ExecuteCorrect, PTL

(* The report of a trace breakpoint is sent before another can be made, so *)
(* the unguarded FIFO bpReport2 never loses one.                           *)
THEOREM ReportsCorrect == Spec => []ReportsNotLost
<1>1. Init => ReportsNotLost
  BY DEF Init, ReportsNotLost
<1> QED BY <1>1, ReportsStep, PTL DEF Spec

=============================================================================
