---------------------------- MODULE MCDebugUnit ----------------------------
(***************************************************************************)
(* TLC instances of DebugUnit.  Each run gives the host the packets of one *)
(* kind of session.                                                        *)
(***************************************************************************)
EXTENDS DebugUnit

CONSTANTS p1, p2, i1, i2

Packet(op) == [op |-> op, arg |-> NoPC, ok |-> TRUE]
Loading(op, arg, ok) == [op |-> op, arg |-> arg, ok |-> ok]

(* Running, pausing and stepping the program, with a breakpoint. *)
RunCommands == { Packet("PauseExecution"), Packet("ResumeExecution"), Packet("StepExecution"),
                 Packet("ResumeUnpipelined"), Loading("LoadBreakPoint0", p1, TRUE) }

(* Executing instructions of the host's. *)
ExecuteCommands == { Packet("PauseExecution"), Packet("ResumeExecution"),
                     Packet("ExecuteInstruction"), Packet("ReportDest"),
                     Loading("LoadInstruction", i1, TRUE), Loading("LoadInstruction", i2, FALSE) }

(* Tracing. *)
TraceCommands == { Packet("StreamTrace"), Packet("BreakOnTraceFltr"), Packet("ResumeExecution"),
                   Packet("PauseExecution"), Packet("LoadTraceFltr") }

(* What can keep the debug unit from polling, streaming aside. *)
BusyCommands == { Packet("PauseExecution"), Packet("StepExecution"), Packet("ResumeUnpipelined"),
                  Packet("ExecuteInstruction"), Loading("LoadBreakPoint0", p1, TRUE) }

(* Both: executing, and everything that keeps the unit from polling. *)
HostCommands == ExecuteCommands \cup BusyCommands

(* Every kind of packet; one instruction is enough for what they check. *)
AllCommands == RunCommands \cup TraceCommands \cup
               { Packet("ExecuteInstruction"), Packet("ReportDest"), Packet("MovePCtoDest"),
                 Packet("Reset"), Packet("Invalid"), Loading("LoadInstruction", i1, TRUE),
                 Loading("LoadInstruction", i1, FALSE), Loading("LoadOpA", i1, TRUE),
                 Loading("LoadOpB", i1, TRUE) }
=============================================================================
