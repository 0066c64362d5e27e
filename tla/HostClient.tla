----------------------------- MODULE HostClient -----------------------------
(***************************************************************************)
(* Sessions of berictl, cherictl and cherictl_test with a debug unit, over *)
(* a stream of bytes: the library's two rings, packets written and read,   *)
(* breakpoint reports that arrive at any time, errors, and a host process  *)
(* that is killed.  The debug unit is what DebugUnit.tla shows it to be;   *)
(* that of a BERI2 is known only from what the library expects of it.      *)
(*                                                                         *)
(* A byte is its value where the library looks at it: the op, the length,  *)
(* the state of the pipeline and the valid flag of a trace entry.  All     *)
(* other data is 0.                                                        *)
(***************************************************************************)
EXTENDS HostOperations

CONSTANTS Rings,         \* requests that fit in the out ring; 0: built without BUFFERING
          Unsupported,   \* ops that the unit does not know
          MaxUnread      \* bound: bytes before the unit is told of another breakpoint

ASSUME RingAssumption == Rings \subseteq Nat /\ MaxUnread \in Nat
ASSUME UnsupportedAssumption == Unsupported \subseteq Nat \ {RESET}

VARIABLES beri2,    \* BERI_BERI2 in bd_flags
          ring,     \* the size of the out ring
          open,     \* a session is open
          cmd,      \* its command
          prog,     \* the steps that are left
          handlers, \* the callers that go on after a failure, innermost first
          ret,      \* what the command returns
          cached,   \* bd_pipeline_state
          saved,    \* the oldstate of each BERI2_PAUSE
          fired,    \* bd_breakpoint_fired
          out,      \* requests in the out ring
          net,      \* requests on their way
          back,     \* bytes on their way back, those in the in ring first
          unit,     \* the debug unit
          was,      \* history: the unit's state when the session began
          sloppy    \* history: a session may have left something behind

hostVars == <<open, cmd, prog, handlers, ret, cached, saved, fired>>
vars == <<beri2, ring, hostVars, out, net, back, unit, was, sloppy>>

-----------------------------------------------------------------------------
(* Packets.                                                                *)
ReplyOp(op) == IF beri2 THEN op + 1 ELSE op + 128
breakpointFiredOp == IF beri2 THEN 46 ELSE 255
exceptionOp       == IF beri2 THEN 47 ELSE 197
invalidOp         == IF beri2 THEN exceptionOp ELSE 32
StreamEnd         == 211

Zeros(n)       == [i \in 1 .. n |-> 0]
Packet(op, data) == <<op, Len(data)>> \o data
Report         == Packet(breakpointFiredOp, Zeros(IF beri2 THEN 9 ELSE 8))
Forget(n)      == SubSeq(back, n + 1, Len(back))

-----------------------------------------------------------------------------
(* Failures after which replies, or parts of them, are left unread.        *)
LeavesReplies(e) == \/ e = "EXCEPTION" /\ cmd \in Pipelined
                    \/ e = "UNSUPPORTED"
                    \/ e = "DATA_UNEXPECTED" /\ beri2

(* A failure returns to the innermost caller that goes on: what is left to *)
(* it, and what it had saved.  Without one the command ends.               *)
Handler == IF handlers = << >> THEN [rest |-> << >>, saved |-> << >>] ELSE Head(handlers)

Fail(e) ==
  /\ ret' = e
  /\ prog' = Handler.rest
  /\ saved' = Handler.saved
  /\ sloppy' = (sloppy \/ LeavesReplies(e))
  /\ UNCHANGED <<open, cmd, handlers, cached>>

At(what) == open /\ prog # << >> /\ Head(prog).do = what
Reading == \/ \E what \in {"read", "readSet", "readPause", "popTrace"} : At(what)
           \/ At("wait") /\ ~fired
Continue == prog' = Tail(prog)

-----------------------------------------------------------------------------
(* Sessions.                                                               *)
Begin(c) == /\ cmd' = c
            /\ prog' = Command(c, beri2)
            /\ handlers' = << >>
            /\ ret' = "SUCCESS"

(* Mutant: the library assumes that it begins with a paused pipeline.      *)
InitialPipelineStatePaused == PAUSED
InitialPipelineState == UNKNOWN

(* After a session that left something behind the next one is a drain.     *)
(* Bound: at most one reset is still on its way.                           *)
Open(c) ==
  /\ ~open
  /\ sloppy \/ Len(net) <= 1
  /\ sloppy => c = "drain"
  /\ beri2 => c # "control test"
  /\ open' = TRUE
  /\ Begin(c)
  /\ cached' = InitialPipelineState
  /\ saved' = << >>
  /\ fired' = FALSE
  /\ was' = IF sloppy THEN UNKNOWN ELSE unit.state
  /\ UNCHANGED <<beri2, ring, out, net, back, unit, sloppy>>

(* The next line of cherictl_test's control file.                          *)
NextCommand(c) ==
  /\ open
  /\ prog = << >>
  /\ ~beri2
  /\ {cmd, c} \subseteq ControlNames
  /\ ret = "SUCCESS"
  /\ Begin(c)
  /\ UNCHANGED <<beri2, ring, open, cached, saved, fired, out, net, back, unit, was, sloppy>>

OnlyReports(bytes) == \E n \in 0 .. Len(bytes) : bytes = FlattenSeq([i \in 1 .. n |-> Report])

(* What is in the rings dies with the process.                             *)
Leave(n) ==
  /\ open' = FALSE
  /\ out' = << >>
  /\ back' = Forget(n)
  /\ prog' = << >>
  /\ handlers' = << >>
  /\ saved' = << >>
  /\ fired' = FALSE
  /\ UNCHANGED <<beri2, ring, cmd, ret, cached, net, unit, was>>

beri_debug_client_close ==
  /\ open
  /\ prog = << >>
  /\ \E n \in (IF ring = 0 THEN {0} ELSE 0 .. Len(back)) :
       /\ Leave(n)
       /\ sloppy' = (\/ sloppy
                     \/ ~OnlyReports(Forget(n)) /\ OnlyReports(back)
                     \/ cmd = "memtrace" /\ out = << >>)

(* Bounds: the killed process has no byte in its ring, or one, or all; and *)
(* once something may be left behind, only a session that waits for ever   *)
(* is killed.                                                              *)
Kill ==
  /\ open
  /\ sloppy => Reading /\ out = << >> /\ net = << >>
  /\ \E n \in {0, 1, Len(back)} : n <= Len(back) /\ Leave(n)
  /\ sloppy' = TRUE

-----------------------------------------------------------------------------
(* Writing.                                                                *)
beri_debug_client_packet_write ==
  /\ At("write")
  /\ LET request == [op |-> Head(prog).op, arg |-> Head(prog).arg]
     IN IF ring = 0
        THEN net' = Append(net, request) /\ UNCHANGED out
        ELSE IF Len(out) = ring
        THEN net' = net \o out /\ out' = <<request>>
        ELSE out' = Append(out, request) /\ UNCHANGED net
  /\ Continue
  /\ UNCHANGED <<beri2, ring, open, cmd, handlers, ret, cached, saved, fired, back, unit, was, sloppy>>

(* Reading.  A reader that finds too few bytes in its ring sends what is   *)
(* in the other one first.                                                 *)
(* Mutant: nothing is sent before the ring is full.                        *)
circular_buffer_flushFull ==
  /\ Reading
  /\ Len(out) = ring /\ out # << >>
  /\ net' = net \o out
  /\ out' = << >>
  /\ UNCHANGED <<beri2, ring, hostVars, back, unit, was, sloppy>>

circular_buffer_flush ==
  /\ Reading
  /\ out # << >>
  /\ net' = net \o out
  /\ out' = << >>
  /\ UNCHANGED <<beri2, ring, hostVars, back, unit, was, sloppy>>

readUnchanged == <<beri2, ring, out, net, unit, was>>

(* The packet at the front.  The op of a reply is not looked at.           *)
Arrived(n) == Len(back) >= n
IsReport   == back[1] = breakpointFiredOp /\ ~(At("wait") /\ ~beri2)
IsReply    == back[1] \notin {exceptionOp, invalidOp} /\ ~IsReport
Length     == Head(prog).arg

ReadException ==
  /\ Reading /\ Arrived(3)
  /\ back[1] = exceptionOp /\ back[2] = 1
  /\ back' = Forget(3)
  /\ Fail("EXCEPTION")
  /\ UNCHANGED <<readUnchanged, fired>>

ReadInvalid ==
  /\ Reading /\ Arrived(1)
  /\ back[1] = invalidOp /\ invalidOp # exceptionOp
  /\ back' = Forget(1)
  /\ Fail("UNSUPPORTED")
  /\ UNCHANGED <<readUnchanged, fired>>

beri_debug_client_breakpoint_fired ==
  /\ Reading /\ Arrived(10)
  /\ IsReport /\ back[2] = 8
  /\ back' = Forget(10)
  /\ fired' = TRUE
  /\ UNCHANGED <<readUnchanged, open, cmd, prog, handlers, ret, cached, saved, sloppy>>

ReadUnexpected ==
  /\ Reading /\ Arrived(2)
  /\ \/ back[1] = exceptionOp /\ back[2] # 1
     \/ IsReport /\ back[2] # 8
     \/ IsReply /\ back[2] # Length
  /\ back' = Forget(2)
  /\ Fail("DATA_UNEXPECTED")
  /\ UNCHANGED <<readUnchanged, fired>>

(* A trace entry is followed by another, unless it is an invalid one of a  *)
(* BERI2.                                                                  *)
ReadReply ==
  /\ Reading /\ Arrived(2 + Length)
  /\ IsReply /\ back[2] = Length
  /\ back' = Forget(2 + Length)
  /\ prog' = IF At("popTrace") /\ (beri2 => back[3] # 0) THEN prog ELSE Tail(prog)
  /\ cached' = CASE At("readSet")   -> Head(prog).op \div 2
                 [] At("readPause") -> PAUSED
                 [] OTHER           -> cached
  /\ saved' = IF At("readPause") THEN <<back[3]>> \o saved ELSE saved
  /\ UNCHANGED <<readUnchanged, open, cmd, handlers, ret, fired, sloppy>>

-----------------------------------------------------------------------------
(* The other steps.                                                        *)
stepUnchanged == <<beri2, ring, out, net, unit, was>>

needPaused ==
  /\ At("needPaused")
  /\ IF cached = PAUSED THEN Continue /\ UNCHANGED <<open, cmd, handlers, ret, cached, saved, sloppy>>
                        ELSE Fail("NOTPAUSED")
  /\ UNCHANGED <<stepUnchanged, fired, back>>

usage ==
  /\ At("usage")
  /\ Fail("USAGE_ERROR")
  /\ UNCHANGED <<stepUnchanged, fired, back>>

(* set_pipeline_state, BERI2_PAUSE and BERI2_RESUME become requests only   *)
(* where the state is not the one that is known to be set.                 *)
ToState(what, st) == Write(2 * st) \o Step(what, 2 * st, 1)

beri_debug_client_set_pipeline_state ==
  /\ At("set")
  /\ prog' = (IF beri2 /\ cached # Head(prog).op THEN ToState("readSet", Head(prog).op) ELSE << >>)
             \o Tail(prog)
  /\ UNCHANGED <<stepUnchanged, open, cmd, handlers, ret, cached, saved, fired, back, sloppy>>

Beri2Pause ==
  /\ At("pause")
  /\ IF beri2 /\ cached # PAUSED
       THEN prog' = ToState("readPause", PAUSED) \o Tail(prog) /\ UNCHANGED saved
       ELSE Continue /\ saved' = IF beri2 THEN <<PAUSED>> \o saved ELSE saved
  /\ UNCHANGED <<stepUnchanged, open, cmd, handlers, ret, cached, fired, back, sloppy>>

(* Only the two states in which it ran are set again; what comes of that   *)
(* is only warned about.                                                   *)
SetAgain(st) == IF st \in {RUNPIPELINED, RUNUNPIPELINED}
                THEN Attempt(set_pipeline_state(st), Ignored) ELSE << >>

(* Mutant: the state that was restored is kept.                            *)
Beri2ResumeKeeping ==
  /\ At("restore")
  /\ prog' = (IF beri2 THEN SetAgain(Head(saved)) ELSE << >>) \o Tail(prog)
  /\ UNCHANGED <<stepUnchanged, open, cmd, handlers, ret, cached, saved, fired, back, sloppy>>

Beri2Resume ==
  /\ At("restore")
  /\ IF beri2 THEN prog' = SetAgain(Head(saved)) \o Tail(prog) /\ saved' = Tail(saved)
              ELSE Continue /\ UNCHANGED saved
  /\ UNCHANGED <<stepUnchanged, open, cmd, handlers, ret, cached, fired, back, sloppy>>

attempt ==
  /\ At("try")
  /\ handlers' = <<[rest  |-> SubSeq(prog, Head(prog).op + 2, Len(prog)),
                    saved |-> saved, ret |-> ret]>> \o handlers
  /\ Continue
  /\ UNCHANGED <<stepUnchanged, open, cmd, ret, cached, saved, fired, back, sloppy>>

forget ==
  /\ \E what \in {"caught", "excepted", "ignored"} : At(what)
  /\ ret' = CASE At("ignored") -> Head(handlers).ret
              [] At("excepted") /\ ret = "EXCEPTION" -> "SUCCESS"
              [] OTHER -> ret
  /\ handlers' = Tail(handlers)
  /\ Continue
  /\ UNCHANGED <<stepUnchanged, open, cmd, cached, saved, fired, back, sloppy>>

(* A report read earlier ends the wait at once.                            *)
breakpoint_check ==
  /\ At("wait")
  /\ fired
  /\ fired' = FALSE
  /\ Continue
  /\ UNCHANGED <<stepUnchanged, open, cmd, handlers, ret, cached, saved, back, sloppy>>

-----------------------------------------------------------------------------
(* The debug unit.                                                         *)
Busy == unit.lost \/ unit.state = RUNSTREAMING
Op   == net[1].op
SetsState == IF beri2 THEN {PAUSEPIPELINE, RESUMEPIPELINE, RESUMEUNPIPELINED, RESUMESTREAMING}
                      ELSE {PAUSE_EXECUTION, RESUME_EXECUTION, UNPIPELINE_EXECUTION, STREAM_TRACE_START}
NewState ==
  CASE Op \in {PAUSEPIPELINE, PAUSE_EXECUTION}          -> PAUSED
    [] Op \in {RESUMEPIPELINE, RESUME_EXECUTION}        -> RUNPIPELINED
    [] Op \in {RESUMEUNPIPELINED, UNPIPELINE_EXECUTION} -> RUNUNPIPELINED
    [] OTHER                                            -> RUNSTREAMING

ReplyData ==
  IF beri2
  THEN CASE Op \in SetsState -> <<unit.state>>
         [] Op \in {GETPC, GETDOUBLEWORD, GETREGISTER} -> Zeros(8)
         [] Op = GETWORD       -> Zeros(4)
         [] Op = GETHALFWORD   -> Zeros(2)
         [] Op = GETBYTE       -> Zeros(1)
         [] Op = GETC2REGISTER -> Zeros(32)
         [] OTHER              -> << >>
  ELSE CASE Op = REPORT_DESTINATION -> Zeros(8)
         [] Op \in {PAUSE_EXECUTION, UNPIPELINE_EXECUTION} -> Zeros(1)
         [] OTHER -> << >>

Unknown      == Unsupported \cup (IF beri2 THEN {} ELSE {MEM_TRACE})
MayExcept    == IF beri2 THEN SETBYTE .. GETDOUBLEWORD + 1 ELSE {EXECUTE_INSTRUCTION}
NoReply      == IF beri2 THEN {} ELSE {RESET, STREAM_TRACE_START}
StepsRunning == ~beri2 /\ Op = STEP_EXECUTION /\ unit.state # PAUSED

Take == ~Busy /\ net # << >> /\ net' = Tail(net)
unitUnchanged == <<beri2, ring, hostVars, out, was, sloppy>>

Serve ==
  /\ Take
  /\ Op \notin Unknown \cup {RESET}
  /\ ~StepsRunning
  /\ back' = back \o (IF Op \in NoReply THEN << >> ELSE Packet(ReplyOp(Op), ReplyData))
  /\ unit' = [unit EXCEPT
       !.state = IF Op \in SetsState THEN NewState ELSE @,
       !.breakpoint = IF Op = (IF beri2 THEN SETBREAKPOINT ELSE LOAD_BREAKPOINT_0)
                        THEN net[1].arg = 1 ELSE @]
  /\ UNCHANGED unitUnchanged

ServeException ==
  /\ Take
  /\ Op \in MayExcept
  /\ back' = back \o Packet(exceptionOp, Zeros(1))
  /\ UNCHANGED <<unitUnchanged, unit>>

ServeInvalid ==
  /\ Take
  /\ Op \in Unknown
  /\ back' = back \o Packet(invalidOp, IF beri2 THEN Zeros(1) ELSE << >>)
  /\ UNCHANGED <<unitUnchanged, unit>>

ServeReset ==
  /\ Take
  /\ Op = RESET
  /\ unit' = [state |-> RUNPIPELINED, breakpoint |-> FALSE, lost |-> FALSE]
  /\ UNCHANGED <<unitUnchanged, back>>

(* A step of a program that runs is never answered, nor what comes after.  *)
LoseStep ==
  /\ Take
  /\ StepsRunning
  /\ unit' = [unit EXCEPT !.lost = TRUE]
  /\ UNCHANGED <<unitUnchanged, back>>

StreamEntry(last) ==
  /\ unit.state = RUNSTREAMING
  /\ Len(back) < MaxUnread
  /\ back' = back \o (IF ~beri2 THEN IF last THEN Packet(StreamEnd, << >>)
                                             ELSE Packet(ReplyOp(POP_TRACE), Zeros(32))
                      ELSE Packet(ReplyOp(POPTRACE), <<IF last THEN 0 ELSE 1>> \o Zeros(31)))
  /\ unit' = [unit EXCEPT !.state = IF last THEN PAUSED ELSE @]
  /\ UNCHANGED <<unitUnchanged, net>>

BreakpointFires ==
  /\ unit.breakpoint
  /\ ~unit.lost
  /\ unit.state # PAUSED
  /\ Len(back) < MaxUnread
  /\ back' = back \o Report
  /\ unit' = [unit EXCEPT !.state = IF @ = RUNSTREAMING THEN @ ELSE PAUSED]
  /\ was' = UNKNOWN
  /\ UNCHANGED <<beri2, ring, hostVars, out, net, sloppy>>

(* Nothing is pending that the next session could read.                    *)
Quiet == /\ \A i \in DOMAIN net : net[i].op = RESET
         /\ OnlyReports(back)
         /\ ~Busy

(* Empties the rings, then reads until nothing has come for 10 ms.         *)
beri_debug_client_drain ==
  /\ At("drain")
  /\ out' = << >>
  /\ back' = << >>
  /\ Continue
  /\ UNCHANGED <<beri2, ring, open, cmd, handlers, ret, cached, saved, fired, net, unit, was>>
  /\ sloppy' = ~Quiet'

-----------------------------------------------------------------------------
Init ==
  /\ beri2 \in BOOLEAN
  /\ ring \in Rings
  /\ open = FALSE /\ cmd = "drain" /\ prog = << >> /\ handlers = << >> /\ ret = "SUCCESS"
  /\ cached = UNKNOWN /\ saved = << >> /\ fired = FALSE
  /\ out = << >> /\ net = << >> /\ back = << >>
  /\ unit \in [state : {PAUSED, RUNPIPELINED, RUNUNPIPELINED}, breakpoint : {FALSE}, lost : {FALSE}]
  /\ was = unit.state
  /\ sloppy = FALSE

HostStep ==
  \/ beri_debug_client_packet_write \/ circular_buffer_flush
  \/ ReadException \/ ReadInvalid \/ ReadUnexpected \/ ReadReply
  \/ beri_debug_client_breakpoint_fired \/ breakpoint_check
  \/ needPaused \/ usage \/ beri_debug_client_set_pipeline_state
  \/ Beri2Pause \/ Beri2Resume \/ attempt \/ forget
  \/ beri_debug_client_drain

UnitStep == Serve \/ ServeException \/ ServeInvalid \/ ServeReset \/ LoseStep

Next ==
  \/ \E c \in Names : Open(c) \/ NextCommand(c)
  \/ beri_debug_client_close \/ Kill
  \/ HostStep
  \/ UnitStep
  \/ \E last \in BOOLEAN : StreamEntry(last)
  \/ BreakpointFires

(* The host's process is scheduled and the unit takes what arrives.        *)
Spec == Init /\ [][Next]_vars /\ WF_vars(HostStep) /\ WF_vars(UnitStep)

-----------------------------------------------------------------------------
(* The kinds of values of the variables; the macros nest at most twice.    *)
Request  == [op : Nat, arg : {0, 1}]
Outcomes == {"SUCCESS", "EXCEPTION", "UNSUPPORTED", "DATA_UNEXPECTED", "NOTPAUSED", "USAGE_ERROR"}
TypeOK ==
  /\ beri2 \in BOOLEAN /\ ring \in Rings /\ open \in BOOLEAN /\ cmd \in Names
  /\ ret \in Outcomes /\ \A i \in DOMAIN handlers : handlers[i].ret \in Outcomes
  /\ cached \in {UNKNOWN, PAUSED, RUNPIPELINED, RUNUNPIPELINED}
  /\ saved \in Seq(0 .. 255) /\ Len(saved) <= 2
  /\ fired \in BOOLEAN
  /\ Len(out) <= ring /\ \A i \in DOMAIN out : out[i] \in Request
  /\ \A i \in DOMAIN net : net[i] \in Request
  /\ \A i \in DOMAIN back : back[i] \in 0 .. 255
  /\ unit \in [state : PAUSED .. RUNSTREAMING, breakpoint : BOOLEAN, lost : BOOLEAN]
  /\ was \in UNKNOWN .. RUNSTREAMING /\ sloppy \in BOOLEAN

(* packet_read does not compare the op of a reply with that of the command *)
(* it waits for, though its comment says so.  Unless a session was cut     *)
(* off before, the packet it finds is nevertheless the right one: the      *)
(* reply, the exception of that very operation, or a breakpoint report.    *)
ReplyIsOfCommand ==
  Reading /\ ~sloppy /\ back # << >> =>
    LET s == Head(prog) IN
    \/ back[1] = breakpointFiredOp
    \/ s.do # "wait" /\ back[1] = ReplyOp(s.op)
    \/ s.do = "popTrace" /\ ~beri2 /\ back[1] = StreamEnd
    \/ s.op \in MayExcept /\ back[1] = exceptionOp
    \/ s.op \in Unknown /\ back[1] = invalidOp
    \/ s.do = "popTrace" /\ ~beri2 /\ STREAM_TRACE_START \in Unknown /\ back[1] = invalidOp

(* Every reply is read before its session ends, also when the command      *)
(* failed: the next session finds at most breakpoint reports.  The         *)
(* exceptions are those that set sloppy: a process killed, or stopped by   *)
(* an exception with replies outstanding, an operation the unit does not   *)
(* know, a report of a BERI2 or one of which a part was in the ring.       *)
NothingLeftBehind == ~open /\ ~sloppy => Quiet

(* Where an operation of a BERI2 relies on the pipeline being paused, it   *)
(* is, and no request is under way that would resume it.                   *)
PausedWhenAssumed ==
  At("needPaused") /\ cached = PAUSED /\ ~sloppy =>
    unit.state = PAUSED /\ \A i \in DOMAIN net : net[i].op \notin SetsState

(* A command that is about something else leaves a BERI2's pipeline as it  *)
(* found it, when it succeeds and no breakpoint stopped it.                *)
ChangesState == {"pause", "resume", "unpipeline", "dumpatse", "dumpfifo", "dumppic",
                 "streamtrace", "breakpoint -w", "test"}
StateRestored ==
  open /\ beri2 /\ prog = << >> /\ ret = "SUCCESS" /\ ~sloppy
    /\ cmd \notin ChangesState /\ was # UNKNOWN
    => unit.state = was

(* A command comes to its end, unless it waits for a breakpoint or for a   *)
(* trace, or steps a program of a BERI that runs.                          *)
MayWait == {"breakpoint -w", "streamtrace", "test", "control test"} \cup (IF beri2 THEN {} ELSE {"step"})
CommandsReturn == (open /\ cmd \notin MayWait /\ ~sloppy) ~> (prog = << >> \/ sloppy)
=============================================================================
