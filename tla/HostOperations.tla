--------------------------- MODULE HostOperations ---------------------------
(***************************************************************************)
(* The operations of the host's debugger library (cheri_debug.c) and the   *)
(* commands berictl and cherictl build from them, as sequences of steps:   *)
(* a request is written, a reply is read, the saved state of the pipeline  *)
(* is looked at.  A step that fails ends its command (HostClient).         *)
(*                                                                         *)
(* The parameter b is the flag BERI_BERI2 of the connection.  Addresses,   *)
(* values and the instructions built from them are left out: a request is  *)
(* its op.  Replies keep their length, on which the framing depends.       *)
(***************************************************************************)
EXTENDS Integers, Sequences, SequencesExt

CONSTANTS NRegs,       \* 31 registers are read by regs
          NC0Regs,     \* N_C0REG
          NCapRegs,    \* 32 capability registers, of 6 fields each
          NCacheLines, \* 512
          NDeviceRegs, \* what dumpatse, dumpfifo and dumppic read
          Outstanding, \* OUTSTANDING_MAX_DEFAULT and _BERI2
          FileWords,   \* whole double words of the file loaded by loadbin
          FileTail,    \* bytes after them
          Batches      \* trace batches asked for

ASSUME CountAssumption == /\ {NRegs, NC0Regs, NCapRegs, NCacheLines, NDeviceRegs} \subseteq Nat
                          /\ {FileWords, FileTail, Batches} \subseteq Nat
                          /\ Outstanding \in Nat \ {0}

-----------------------------------------------------------------------------
(* Ops (cheri_debug.h).                                                    *)
LOAD_BREAKPOINT_0    == 48
LOAD_OPERAND_A       == 97
LOAD_OPERAND_B       == 98
BREAK_ON_TRACE_FILTER  == 66
LOAD_TRACE_FILTER      == 67
LOAD_TRACE_FILTER_MASK == 77
MOVE_PC_TO_DESTINATION == 99
REPORT_DESTINATION   == 100
EXECUTE_INSTRUCTION  == 101
LOAD_INSTRUCTION     == 105
PAUSE_EXECUTION      == 112
RESUME_EXECUTION     == 114
RESET                == 82
STEP_EXECUTION       == 115
STREAM_TRACE_START   == 83
POP_TRACE            == 116
UNPIPELINE_EXECUTION == 117
MEM_TRACE            == 84

PAUSEPIPELINE     == 0
RESUMEPIPELINE    == 2
RESUMEUNPIPELINED == 4
SETPC             == 6
GETPC             == 8
SETBYTE           == 10
GETBYTE           == 12
SETHALFWORD       == 14
GETHALFWORD       == 16
SETWORD           == 18
GETWORD           == 20
SETDOUBLEWORD     == 22
GETDOUBLEWORD     == 24
SETREGISTER       == 26
GETREGISTER       == 28
GETC2REGISTER     == 36
EXECUTESINGLEINST == 38
SETBREAKPOINT     == 40
POPTRACE          == 42
SETTRACEMASK      == 44
SETTRACEFILTER    == 48
RESUMESTREAMING   == 50
SETTHREAD         == 52

(* States of the pipeline of a BERI2.                                      *)
UNKNOWN        == -1
PAUSED         == 0
RUNPIPELINED   == 1
RUNUNPIPELINED == 2
RUNSTREAMING   == 3

-----------------------------------------------------------------------------
(* Steps.  Every step has the same fields; arg is the length of the reply  *)
(* to read, what a breakpoint is set to, or a state of the pipeline.       *)
Step(what, op, arg) == <<[do |-> what, op |-> op, arg |-> arg]>>

Write(op)     == Step("write", op, 0)
Read(op, len) == Step("read", op, len)
Ask(op, len)  == Write(op) \o Read(op, len)
NeedPaused    == Step("needPaused", 0, 0)     \* ERROR_NOTPAUSED on a running BERI2
Usage         == Step("usage", 0, 0)          \* USAGE_ERROR

Times(n, steps) == FlattenSeq([i \in 1 .. n |-> steps])

(* An operation of one request.                                            *)
Both(b, op, op2, len) == IF b THEN NeedPaused \o Ask(op2, len) ELSE Ask(op, len)
OnlyBeri(b, steps) == IF b THEN Usage ELSE steps

(* What the library does with the state of a BERI2's pipeline.  "set" sets *)
(* it unless it is believed to be set already; "pause" is the macro        *)
(* BERI2_PAUSE, which also saves the old state, and "restore" is           *)
(* BERI2_RESUME.                                                           *)
set_pipeline_state(st) == Step("set", st, 0)
BERI2_PAUSE  == Step("pause", PAUSED, 0)
BERI2_RESUME == Step("restore", 0, 0)

(* A failure of attempted steps does not end the command: it goes on at    *)
(* the step after them, which says what errors are forgotten.              *)
Attempt(steps, end) == Step("try", Len(steps), 0) \o steps \o end
Caught   == Step("caught", 0, 0)      \* none: they are returned at the end
Excepted == Step("excepted", 0, 0)    \* exceptions
Ignored  == Step("ignored", 0, 0)     \* all: the outcome is that before the steps

-----------------------------------------------------------------------------
(* The library: one debug instruction.                                     *)
load_instruction(b)   == OnlyBeri(b, Ask(LOAD_INSTRUCTION, 0))
load_operand_a(b)     == IF b THEN << >> ELSE Ask(LOAD_OPERAND_A, 0)
load_operand_b(b)     == IF b THEN << >> ELSE Ask(LOAD_OPERAND_B, 0)
execute_instruction(b) == OnlyBeri(b, Ask(EXECUTE_INSTRUCTION, 0))
move_pc_to_destination(b) == OnlyBeri(b, Ask(MOVE_PC_TO_DESTINATION, 0))
report_destination(b) == OnlyBeri(b, Ask(REPORT_DESTINATION, 8))
breakpoint_to(b, enabled) == LET op == IF b THEN SETBREAKPOINT ELSE LOAD_BREAKPOINT_0
                             IN Step("write", op, enabled) \o Read(op, 0)
breakpoint_set(b)     == breakpoint_to(b, 1)
breakpoint_clear(b)   == breakpoint_to(b, 0)
breakpoint_wait(b)    == Step("wait", 0, IF b THEN 9 ELSE 8)
pause_execution(b)    == IF b THEN set_pipeline_state(PAUSED) ELSE Ask(PAUSE_EXECUTION, 1)
unpipeline_execution(b) == IF b THEN set_pipeline_state(RUNUNPIPELINED)
                                ELSE Ask(UNPIPELINE_EXECUTION, 1)
resume_execution(b)   == IF b THEN set_pipeline_state(RUNPIPELINED)
                              ELSE Ask(RESUME_EXECUTION, 0)
reset(b)              == OnlyBeri(b, Write(RESET))
step_execution(b)     == Both(b, STEP_EXECUTION, EXECUTESINGLEINST, 0)
set_thread(b)         == IF b THEN Ask(SETTHREAD, 0) ELSE Usage

trace_filter_set(b)      == Ask(IF b THEN SETTRACEFILTER ELSE LOAD_TRACE_FILTER, 0)
trace_filter_mask_set(b) == Ask(IF b THEN SETTRACEMASK ELSE LOAD_TRACE_FILTER_MASK, 0)
break_on_trace_filter(b) == IF b THEN << >> ELSE Ask(BREAK_ON_TRACE_FILTER, 0)

stream_trace_start(b) == IF b THEN Ask(RESUMESTREAMING, 1) ELSE Write(STREAM_TRACE_START)
pop_trace_receive(b)  == Step("popTrace", IF b THEN POPTRACE ELSE POP_TRACE, 32)

-----------------------------------------------------------------------------
(* The library: several debug instructions, waiting for each reply ...     *)
operands(b)     == load_operand_a(b) \o load_operand_b(b)
instruct(b)     == load_instruction(b) \o execute_instruction(b)
load(b, op)     == IF b THEN NeedPaused \o Ask(op, 8)
                        ELSE operands(b) \o instruct(b) \o report_destination(b)
store(b, op)    == IF b THEN NeedPaused \o Ask(op, 0) ELSE operands(b) \o instruct(b)

get_pc(b) == IF b THEN NeedPaused \o Ask(GETPC, 8)
                  ELSE move_pc_to_destination(b) \o report_destination(b)
set_pc(b) == IF b THEN NeedPaused \o Ask(SETPC, 0)
                  ELSE load_instruction(b) \o operands(b) \o execute_instruction(b)
get_c0reg(b) == OnlyBeri(b, instruct(b) \o report_destination(b))
set_reg(b) == IF b THEN NeedPaused \o Ask(SETREGISTER, 0) ELSE operands(b) \o instruct(b)
lbu(b) == IF b THEN NeedPaused \o Ask(GETBYTE, 1) ELSE load(b, GETBYTE)
lhu(b) == IF b THEN NeedPaused \o Ask(GETHALFWORD, 2) ELSE load(b, GETHALFWORD)
lwu(b) == IF b THEN NeedPaused \o Ask(GETWORD, 4) ELSE load(b, GETWORD)
ld(b)  == load(b, GETDOUBLEWORD)
sb(b)  == store(b, SETBYTE)
sh(b)  == store(b, SETHALFWORD)
sw(b)  == store(b, SETWORD)
sd(b)  == store(b, SETDOUBLEWORD)
pcc_to_cr26(b) == IF b THEN << >> ELSE pause_execution(b) \o operands(b) \o Times(2, instruct(b))

(* ... or sending all of them first.                                       *)
get_reg_pipelined_send(b) ==
  IF b THEN NeedPaused \o Write(GETREGISTER)
       ELSE Write(LOAD_INSTRUCTION) \o Write(EXECUTE_INSTRUCTION) \o Write(REPORT_DESTINATION)
(* Mutant: the replies are read in another order.                          *)
get_reg_pipelined_responseSwapped(b) ==
  IF b THEN NeedPaused \o Read(GETREGISTER, 8)
       ELSE Read(REPORT_DESTINATION, 8) \o Read(LOAD_INSTRUCTION, 0) \o Read(EXECUTE_INSTRUCTION, 0)
get_reg_pipelined_response(b) ==
  IF b THEN NeedPaused \o Read(GETREGISTER, 8)
       ELSE Read(LOAD_INSTRUCTION, 0) \o Read(EXECUTE_INSTRUCTION, 0) \o Read(REPORT_DESTINATION, 8)
get_reg(b) == IF b THEN get_reg_pipelined_send(b) \o get_reg_pipelined_response(b)
                   ELSE instruct(b) \o report_destination(b)
get_c0reg_pipelined_send(b) == OnlyBeri(b, get_reg_pipelined_send(b))
get_c2reg_pipelined_send(b) == OnlyBeri(b, get_reg_pipelined_send(b))

get_c2reg_field(b) == get_reg_pipelined_send(FALSE) \o get_reg_pipelined_response(FALSE)
get_c2reg(b) == IF b THEN NeedPaused \o Ask(GETC2REGISTER, 32) ELSE Times(6, get_c2reg_field(b))

sd_pipelined_send(b) ==
  IF b THEN NeedPaused \o Write(SETDOUBLEWORD)
       ELSE Write(LOAD_OPERAND_A) \o Write(LOAD_OPERAND_B)
            \o Write(LOAD_INSTRUCTION) \o Write(EXECUTE_INSTRUCTION)
sd_pipelined_response(b) ==
  IF b THEN Read(SETDOUBLEWORD, 0)
       ELSE Read(LOAD_OPERAND_A, 0) \o Read(LOAD_OPERAND_B, 0)
            \o Read(LOAD_INSTRUCTION, 0) \o Read(EXECUTE_INSTRUCTION, 0)

nop_pipelined_send(b)     == OnlyBeri(b, sd_pipelined_send(b))
nop_pipelined_response(b) == OnlyBeri(b, sd_pipelined_response(b))

invalidateicache(b) ==
  OnlyBeri(b, operands(b)
              \o Times(NCacheLines, Write(LOAD_INSTRUCTION) \o Write(EXECUTE_INSTRUCTION))
              \o Times(NCacheLines, Read(LOAD_INSTRUCTION, 0) \o Read(EXECUTE_INSTRUCTION, 0)))

-----------------------------------------------------------------------------
(* The commands.  The old state is restored after an operation that        *)
(* succeeded, and in Guarded also after one that failed.                   *)
Paused(steps)  == BERI2_PAUSE \o steps \o BERI2_RESUME
Guarded(steps) == BERI2_PAUSE \o Attempt(steps, Excepted) \o BERI2_RESUME

berictl_pc(b)     == Paused(get_pc(b))
berictl_pause(b)  == pause_execution(b) \o get_pc(b)
berictl_resume(b) == set_pipeline_state(PAUSED) \o get_pc(b) \o resume_execution(b)
berictl_step(b)   == Paused(get_pc(b) \o step_execution(b) \o get_pc(b))
berictl_setpc(b)  == Paused(set_pc(b) \o get_pc(b))
(* Mutant: the pipeline is left paused.                                    *)
berictl_setregPaused(b) == BERI2_PAUSE \o set_reg(b)
berictl_setreg(b) == Paused(set_reg(b))
berictl_setthread(b) == Paused(set_thread(b))

berictl_lbu(b) == Guarded(lbu(b))
berictl_lhu(b) == Guarded(lhu(b))
berictl_lwu(b) == Guarded(lwu(b))
berictl_ld(b)  == Guarded(ld(b))
berictl_sb(b)  == Guarded(sb(b))
berictl_sh(b)  == Guarded(sh(b))
berictl_sw(b)  == Guarded(sw(b))
berictl_sd(b)  == Guarded(sd(b))

berictl_drain(b)      == Step("drain", 0, 0)
berictl_reset(b)      == reset(b)
berictl_unpipeline(b) == unpipeline_execution(b)

berictl_breakpoint(b) == Paused(breakpoint_set(b))
berictl_breakpoint_w(b) == berictl_breakpoint(b) \o breakpoint_wait(b) \o breakpoint_clear(b)

berictl_regs(b) ==
  Paused(pause_execution(b) \o berictl_pc(b) \o operands(b)
            \o Times(NRegs, get_reg_pipelined_send(b))
            \o Times(NRegs, get_reg_pipelined_response(b)))
berictl_c0regs(b) ==
  Paused(pause_execution(b) \o operands(b)
            \o Times(NC0Regs, get_c0reg_pipelined_send(b))
            \o Times(NC0Regs, get_reg_pipelined_response(b)))
berictl_c2regs(b) == Paused(pause_execution(b) \o Times(NCapRegs, get_c2reg(b)))

(* At most Outstanding stores are sent ahead of their replies.             *)
Window == IF FileWords < Outstanding THEN FileWords ELSE Outstanding
(* Mutant: the last replies are not waited for.                            *)
berictl_loadbinUndrained(b) ==
  Paused(Times(Window, sd_pipelined_send(b))
            \o Times(FileWords - Window, sd_pipelined_response(b) \o sd_pipelined_send(b))
            \o Times(FileTail, sb(b)))
berictl_loadbin(b) ==
  Paused(Times(Window, sd_pipelined_send(b))
            \o Times(FileWords - Window, sd_pipelined_response(b) \o sd_pipelined_send(b))
            \o Times(Window, sd_pipelined_response(b))
            \o Times(FileTail, sb(b)))

(* Entries of a batch are received until one cannot be.                    *)
berictl_stream_trace(b) ==
  Times(Batches, stream_trace_start(b) \o Attempt(pop_trace_receive(b), Ignored))
berictl_set_trace_filter(b) == Paused(trace_filter_mask_set(b) \o trace_filter_set(b))
berictl_mem_trace(b) == Write(MEM_TRACE)

(* Dumps of a device: the first register that cannot be read is the last.  *)
Dump(b, steps) == berictl_pause(b) \o Attempt(Times(NDeviceRegs, steps), Caught) \o berictl_resume(b)
berictl_dumpatse(b) == Dump(b, lwu(b))
berictl_dumpfifo(b) == Dump(b, lwu(b))
berictl_dumppic(b)  == Dump(b, ld(b))

berictl_test_run(b) == Attempt(berictl_pause(b), Ignored) \o berictl_stream_trace(b)
                       \o berictl_setpc(b) \o berictl_stream_trace(b) \o berictl_pause(b)
berictl_test_report(b) == berictl_regs(b) \o berictl_c2regs(b) \o berictl_c0regs(b)

(* Two commands go on whatever their parts return: test, of cherictl, and  *)
(* test in a control file of cherictl_test.                                *)
Whatever(steps) == Attempt(steps, Ignored)
test(b) ==
  Whatever(berictl_pause(b)) \o Whatever(berictl_pause(b))
    \o Whatever(berictl_loadbin(b)) \o Whatever(berictl_reset(b))
    \o Whatever(berictl_test_run(b)) \o Whatever(berictl_test_report(b))
    \o Whatever(berictl_pause(b)) \o Whatever(berictl_loadbin(b))
control_test(b) == Whatever(berictl_test_run(b)) \o berictl_test_report(b)

-----------------------------------------------------------------------------
(* The commands by name, as the handlers of berictl select them; "resume   *)
(* -u" is the command unpipeline of cherictl.  The number of arguments is  *)
(* checked before a session is opened.                                     *)
run_boot(b) == berictl_setreg(b)

run_dumpdevice(name, b) ==
  CASE name = "dumpatse" -> berictl_dumpatse(b)
    [] name = "dumpfifo" -> berictl_dumpfifo(b)

run_dumppic(b) == berictl_dumppic(b)

run_loadfile(name, b) ==
  CASE name = "loadbin"       -> berictl_loadbin(b)
    [] name = "loadbin usage" -> Usage           \* no such file

run_load(name, b) ==
  CASE name = "lbu" -> berictl_lbu(b)
    [] name = "lhu" -> berictl_lhu(b)
    [] name = "lwu" -> berictl_lwu(b)
    [] name = "ld"  -> berictl_ld(b)

run_store(name, b) ==
  CASE name = "sb" -> berictl_sb(b)
    [] name = "sh" -> berictl_sh(b)
    [] name = "sw" -> berictl_sw(b)
    [] name = "sd" -> berictl_sd(b)

run_setaddr(name, b) ==
  CASE name = "setreg"        -> berictl_setreg(b)
    [] name = "breakpoint"    -> berictl_breakpoint(b)
    [] name = "breakpoint -w" -> berictl_breakpoint_w(b)
    [] name = "setpc"         -> berictl_setpc(b)
    [] name = "setthread"     -> berictl_setthread(b)

run_trace(name, b) ==
  CASE name = "memtrace"          -> berictl_mem_trace(b)
    [] name = "streamtrace"       -> berictl_stream_trace(b)
    [] name = "streamtrace usage" -> Usage   \* a number or a version it refuses

run_zeroargs(name, b) ==
  CASE name = "c0regs"     -> berictl_c0regs(b)
    [] name = "c2regs"     -> berictl_c2regs(b)
    [] name = "drain"      -> berictl_drain(b)
    [] name = "pause"      -> berictl_pause(b)
    [] name = "pc"         -> berictl_pc(b)
    [] name = "regs"       -> berictl_regs(b)
    [] name = "reset"      -> berictl_reset(b)
    [] name = "resume"     -> berictl_resume(b)
    [] name = "unpipeline" -> berictl_unpipeline(b)
    [] name = "settracefilter"     -> berictl_set_trace_filter(b)
    [] name = "breakontracefilter" -> break_on_trace_filter(b)
    [] name = "step"       -> berictl_step(b)

Files    == {"loadbin", "loadbin usage"}
Loads    == {"lbu", "lhu", "lwu", "ld"}
Stores   == {"sb", "sh", "sw", "sd"}
SetAddrs == {"setreg", "breakpoint", "breakpoint -w", "setpc", "setthread"}
Traces   == {"memtrace", "streamtrace", "streamtrace usage"}
ZeroArgs == {"c0regs", "c2regs", "drain", "pause", "pc", "regs", "reset", "resume", "unpipeline",
             "settracefilter", "breakontracefilter", "step"}
Devices  == {"dumpatse", "dumpfifo"}

(* Operations of the library that only other clients call.                 *)
Library  == {"invalidateicache", "pcc_to_cr26", "get_reg", "get_c0reg", "c2reg ahead", "nop ahead"}
Names    == Loads \cup Stores \cup SetAddrs \cup Traces \cup ZeroArgs \cup Devices \cup Library
            \cup Files \cup {"boot", "dumppic", "test", "control test"}

(* The control file of cherictl_test may hold any number of these.         *)
ControlNames == {"breakpoint", "c0regs", "lbu", "ld", "pause", "pc", "regs", "c2regs", "resume",
                 "sb", "sd", "setpc", "setreg", "step", "unpipeline", "control test"}

(* Those that send several requests before they read the first reply.      *)
Pipelined == {"regs", "c0regs", "c2regs", "loadbin", "test", "control test", "invalidateicache",
              "c2reg ahead", "nop ahead"}

Command(name, b) ==
  CASE name \in Loads    -> run_load(name, b)
    [] name \in Stores   -> run_store(name, b)
    [] name \in SetAddrs -> run_setaddr(name, b)
    [] name \in Traces   -> run_trace(name, b)
    [] name \in ZeroArgs -> run_zeroargs(name, b)
    [] name \in Devices  -> run_dumpdevice(name, b)
    [] name \in Files    -> run_loadfile(name, b)
    [] name = "boot"    -> run_boot(b)
    [] name = "dumppic" -> run_dumppic(b)
    [] name = "test"    -> test(b)
    [] name = "control test" -> control_test(b)
    [] name = "invalidateicache" -> invalidateicache(b)
    [] name = "pcc_to_cr26" -> pcc_to_cr26(b)
    [] name = "get_reg"     -> get_reg(b)
    [] name = "get_c0reg"   -> get_c0reg(b)
    [] name = "c2reg ahead" -> get_c2reg_pipelined_send(b) \o get_reg_pipelined_response(b)
    [] name = "nop ahead"   -> nop_pipelined_send(b) \o nop_pipelined_response(b)
=============================================================================
