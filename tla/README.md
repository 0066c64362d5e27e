# Verification of BERI: pipeline, trace path, debugger and simulator

This directory holds TLA+ models of the part of this repository that its author
wrote or changed, and that everything else serves here: the path a trace record
takes from the pipeline of the BERI processor to the host's debugger, and the
debug unit that controls it.  It goes on to both ends of that path: the
processor's pipeline with its branch predictor and register file at one, and at
the other the debugger's library and tools on the host and the simulator's
peripheral bus and debug socket, through which a simulated processor meets the
world.  Each model is checked with TLC on small instances, and most of the
safety properties are proved with TLAPS for all values of the constants;
section 4 says which are only model-checked.

Paths below are relative to `src/project/BERI/`; `trunk/` stands for
`cherilibs/trunk/`.

## 1. The system

BERI is a 64-bit MIPS processor in Bluespec.  A Bluespec module is a set of
registers, of *rules* (guarded atomic actions) and of *methods* (guarded
actions called by rules of other modules).  In each clock cycle the scheduler
fires every rule that can fire, one after the other in a fixed order; a rule
fires only if its condition and the conditions of every method it calls hold.
The build (`trunk/Makefile:7`) does not use `-aggressive-conditions`: a rule
that calls a method in one branch only waits for the method's condition in all
of them.  Several of the results below rest on this.

| Part | State | Operations | Talks to | Hard because |
|---|---|---|---|---|
| Trace buffer, `trunk/CircularBuffer.bsv` | two pointers, block RAM, `readDelay` | `enq`, `deq`, `first`, rule `incHead` | debug unit (both sides) | methods called in the same cycle; RAM latency; pointers that wrap |
| Predictors, `Compressor.bsv:99-469` | context registers, eight tables, usage counters, one FIFO per predicted field | `predictUpdate`, rules `predictPC`, `predictTrace`, five getters | compressor | two rules that do not wait for each other; table addresses computed twice |
| Compressor, `Compressor.bsv:476-543` | input and output FIFO | rules `compress_trace`, `enq_predictions` | debug unit (instantiated at `DebugUnit.bsv:340`; the calls are commented out at 453-484) | back pressure; an encoding with eight cases |
| Debug unit, `DebugUnit.bsv:303-652` | state, pause and step registers, breakpoints, result FIFOs | twelve rules, `checkPC`, `putPC`, `putTraceEntry`, `client` | packet conversion, fetch, writeback, pause register of the processor | asynchronous breakpoints, timeouts, a pause that arrives late |
| Packet conversion, `DebugUnit.bsv:191-283` | two state machines over byte FIFOs | `getCommand`, `deliverResponse` | host, debug unit | resynchronisation after a bad length |
| Pause registers, `Proc.bsv:77-91`, `Multicore.bsv:131-147`, `MIPSTop.bsv:487-492` | `pause` twice | `irqForward`, `getPause`, `putState` | debug unit, fetch | every core writes the one register |
| Fetch, `MIPSTop.bsv:307-387` | | `instructionFetch`, `debugInstructionFetch` | debug unit, branch predictor | speculation; runs a cycle behind the pause |
| Branch predictor, `BranchSimple.bsv` | `pc`, `specPc`, two epochs and the one to come, predictions, a table of targets | `getPc`, `putTarget`, `pcWriteback`, rules `primeFifo`, `flushDelay` | fetch, scheduler, writeback | a new epoch begins an instruction late, for the delay slot; instructions of old epochs on their way |
| Register file, `ForwardingPipelinedRegFile.bsv` | registers, rename registers and their tags, five FIFOs | `reqRegs`, `readRegs`, `writeRegSpeculative`, `writeReg`, rules `readRegFiles`, `writePending` | scheduler, execute, writeback | results read before they are final; loads whose result comes late; instructions killed on their way |
| Pipeline stages, `MIPSTop.bsv`, `Scheduler.bsv`, `Decode.bsv`, `Execute.bsv`, `MemAccess.bsv`, `Writeback.bsv` | a FIFO each, `pendingOps`, the scheduler's last branch | one rule between each two | predictor, register file, debug unit, memory | delay slots, exceptions, flushes and pauses at any time |
| Writeback's trace, `Writeback.bsv` | report register, last report id | `doInstructionReport` | debug unit, trace buffer | a report can be replaced before it is stored |
| Host library and tools, `trunk/tools/debug/` | two rings, the cached pipeline state, a breakpoint report | sixty operations, built into the commands of `berictl`, `cherictl`, `cherictl_test` | packet conversion | replies mixed with asynchronous reports; failures half way; a process killed |
| Debug socket, `trunk/peripherals/pismdev/debug_stream/` | session socket, one byte of input, writable flag | poll, ready, get, put; rules `debugIn`, `debugOut` | host library, packet conversion | hosts come and go between a guard and its call |
| Peripheral bus, `trunk/peripherals/pismdev/`, `trunk/TopSimAxi.bsv`, `trunk/PutMerge.bsv` | response FIFO, registers of DRAM, UART, SD card, five FIFOs | `pism_*` entry points, rules of `mkPISMTLM` and of the merge | processor, files and processes of the simulating machine | writes acknowledged before they happen; input that arrives between two register reads |
| Interconnect, caches, coprocessors, other peripherals | | | | the processor as the project found it |

What makes each part correct:

* **Trace buffer**: it is a queue of bounded size that drops its *oldest*
  element when full, hands out elements in order and once, and raises
  `almostFull` early enough for the pipeline to be stopped.
* **Predictors and compressor**: no record is lost, duplicated or mixed with
  another; what comes out can be decoded by somebody who knows only what came
  out before; it keeps moving.
* **Debug unit**: each command is answered once; the program runs or stands
  still as the host asked, whatever breakpoints, steps and debug instructions
  come in between; a step is one instruction; a result goes to the command it
  belongs to; the unit always comes back to polling for commands.
* **Pipeline**: what completes is the program, one instruction after the other
  with its delay slots and exceptions, on the register values that the
  instructions before it left, whatever was predicted or read early; and a
  program that is not paused goes on.
* **Host**: each reply is read by the command that asked for it; whatever fails,
  the next session starts clean; a BERI2's pipeline is paused where an operation
  relies on it and restored afterwards; commands return.
* **Bus**: requests take effect one by one in the order in which they were
  accepted, and none waits for ever; no input of the UART is lost; the SD
  card's status tells a driver that a read completed, and of a write either that
  or that the block must be read back to know.
* **Debug socket**: each host's bytes arrive whole, in order and apart from
  another host's, and a host that is served is served to the end.
* **Packet conversion**: the packets at one end are the packets at the other,
  in order, wherever their bytes are delayed, and after a length that is too
  long both ends can still say where the next packet begins.

`PROJECT.json` lists every place in the code where one of these could go wrong
(`hazards`) and the property that would catch it.

## 2. The modules

### DropOldestQueue

The abstract specification of the trace buffer: a sequence, with `Push` (drops
the head of a full queue), `Pop`, and `PushPop` for both in one cycle.

### CircularBuffer

One step is one clock cycle.  `Idle`, `Enq`, `Deq` and `EnqDeq` are the four
combinations of method calls; each includes the whole of rule `incHead`, which
runs in every cycle.  `readData` is what port b of the block RAM outputs: it
was read in the cycle before, at the address `incHead` put there, *before*
port a wrote.  `popped` and `swapped` are history variables.  `RefillLast` says
whether a client may enqueue in the very cycle in which the last element is
dequeued: the case in which the header's promise does not hold.  `Size` is
`2^log2size`; the code's buffer has 4096 words and a gap of 32.

The refinement maps the abstract queue to the words between the pointers,
`Contents`.

### TracePredictor

The tables as values and the predictors as functions of them: what they propose
(`PcProposal`, `EasyProposal`, `R1Proposal`, ...), which proposal is used
(`MostUsed`: of the predictors that were right, the one most often right, the
first in a tie, as the chain of comparisons with `hicnt` computes it), what the
tables hold afterwards (`LearnPc`, `LearnCell`).  Words have `WIDTH` bits and
arithmetic wraps; `PSIZE` is `pfcmsizeblg2`, `VBITS` the 16 address bits of the
value tables.  The six value memories share one address and are read and
written together, so a word of the model's one table holds the six.  What a
memory word reads as before it is written is the constant `PowerUp`.

### Compressor

The rules `compress_trace`, `predictPC`, `predictTrace` and `enq_predictions`
and the two interfaces, one action each.  Rules that fire in one cycle fire one
after the other; the only conflict that restricts the order is that
`enq_predictions` reads `original_trace`, which `compress_trace` writes, so
when both can fire `enq_predictions` goes first (the conjunct `~CanEmit`).  A
prediction FIFO (`mkFIFO1`) holds one element; `mkFIFO` holds two
(`FifoDepth`).  `predictUpdate` waits for both predictors to be `Done`, but not
for their predictions to be taken: this is where the code goes wrong when its
output is not taken for a few cycles, and the history variable `overran`
records it.

The repository has no decoder.  `Decode` and `Receive` are a reference decoder
that does what the encoding allows: it looks the predictor codes up in tables
of its own (`mirrorPc`, `mirrorValues`) and learns from what it decoded.
`Lossless` and `DecoderInStep` compare it with the compressor.

### DebugUnit

One `Cycle` is one clock cycle: the one rule of `mkDebug` that fires in it
(`Rule`), what fetch does in it (`Fetch`), and what happens in every cycle
(`Clock`: `incPipeCount`, the pause on its way to fetch,
`finishExecuteFailsafe`).  They are one step because they are coupled cycle by
cycle by wires.  What meets the debug unit only through one-element FIFOs
interleaves: packets (`Send`, `Receive`) and writeback (`Retire`).

The conditions of the rules, with the room and elements the methods they call
need and with the urgency the code states (`descending_urgency`), are named
`Reports`, `Polls`, `StepsOn`, `Steps`, `Finishes`, `Waits`, `Pops`,
`StopsTrace`, `Idles`.  `doCommands` has one disjunct per command.
`sysPause` is the register `pause` of `Proc.bsv`, `fetchPause` the one of
`MIPSTop.bsv`, a cycle behind; `pipe` holds the instructions between fetch and
writeback, of which any may be cancelled.  Which program counter is fetched
next is open, as is whether a record matches the trace filter.

Data is abstracted: packets are records of an op, an argument and whether the
length was right; a reply is an op and what is sent with it.  Timeouts and the
period of `pipeCount` are constants.

### DebugConvert

`getCommand` and `deliverResponse` are the two rules of `mkDebugConvert`, one
step per byte; the three branches of each are operators of their own.
`getCommand` enqueues a packet in one branch only, but waits for room in all of
them (`CanGet`).  `Take` and `Put` are the two methods the debug unit calls.
`Send` and `Hear` are the host: `beri_debug_client_packet_write` writes a
packet byte by byte, `packet_read_excode` reads op, length and data.

Each byte in a FIFO carries a label that says which packet it comes from and
which place in it.  The labels, `taken` and `replied` are history: no guard
reads them, and the proof says with them which bytes are under way.  The host's
limit for a packet is 64 bytes (`cheri_debug.c:135`), that of the debug unit is
32, so requests may be too long; replies never are.

### HostOperations

The operations of `cheri_debug.c` and the commands built from them, each as the
sequence of steps it takes: write a request, read a reply of a given length,
check the cached pipeline state, pause and resume around it.  What is left out
are addresses, values and the encodings of the instructions the debug unit is
given.  `Attempt` is a part of a command whose failure the command survives, ended
by the step that looks at the failure: `caught`, `excepted` or `ignored`, by
which failures it forgives.  `Command` gives the steps of each command through
the handlers of `berictl` (`run_load`, `run_store`, `run_zeroargs` and so on);
`cherictl` selects the same ones by name.  Operations of the library that no tool
of the repository calls (`get_reg`, `get_c0reg`, the pipelined forms of `nop` and
of the capability registers) are commands of their own.

### HostClient

A session runs the steps of one command.  `handlers` are the callers that go on
after a failure, the innermost first, each with the steps it goes on with, the
states of the pipeline it has saved and what had failed before it: `attempt`
enters one, a failure (`Fail`) goes on with it, and so does the end of an
attempt that did not fail (`forget`).  `Open` connects and knows nothing of
the pipeline's state, `NextCommand` starts another command in the same session
(only `cherictl_test` does that), `beri_debug_client_close`
and `Kill` end it, the latter with requests in the out ring and replies
half read.  `ring` is 0 in a build without `BUFFERING`
(`trunk/tools/debug/Makefile:38-40`); otherwise requests stay in the out ring
until a reply is read or the ring is full.  The bytes on the way back are kept
as bytes, since the length of what is read is the whole difficulty; a byte is
its value only where the library looks at it.

The unit is `DebugUnit` as the host can see it: it takes requests in order,
answers each once, reports a breakpoint or an exception at any time at which
`DebugUnit` may.  Of the BERI2's debug unit the repository holds the library's
expectations only, and the model takes these.

The history variable `sloppy` marks that a session may have left something
behind, with every place where the code does so: a process killed, an exception
with replies outstanding in `loadbin`, the reply to an unknown operation, of
which one byte stays unread, the nine bytes of a BERI2's breakpoint report, of
which eight are expected, a report of which a part was in the in ring when the
session ended, and a memory trace that was not sent.  After a session marked so
the next one is taken to be the command `drain`, which is there for that; no
tool runs it by itself.

### Pism, TopSim, SequentialBus

`Pism` is the C side of the simulated bus: `pism.c` and the devices `dram.c`,
`uart.c` and `sdcard.c`, whose functions are operators on the registers.  A
device's delay counts down in `tickPISM`.  A data bus of 32 bytes is a few
`Lanes`; a block of the SD card is one value, with `Partial` for a block or
buffer of which a short write or read has replaced a part.  The image is its
blocks and its size in half sectors, since the file may end within a block: such
a block, and one beyond the end, cannot be read whole, and is filled up with
zeros when a later write makes the file grow.  `cmd_arg` wraps at `ArgRange`, as its sum wraps at 2^32 in the code, which lets
the last block of the range through the check of the length.  A UART is a
socket, the terminal, a file or nothing; the end of a file is told apart from a
socket that is closed.

`TopSim` is the Bluespec side, one action per rule: the merge of reads and
writes (`PutMerge.bsv`), `mkPISMTLM`, which answers writes before they are
made, and the processes at the UART's other end.  The bypass FIFO of a rule
holds one element, and a rule that writes a FIFO in one branch only waits for
room in both.

`SequentialBus` is what the bus promises its masters: a sequence of accepted
requests, performed one at a time and answered in order.  `ActsInOrder` is the
refinement: a store that has been acknowledged and not yet been made counts as
made (`MemoryNow`), a fetch as pending until its reply is taken (`Awaited`).

### DebugStream

`debug_stream.c` and the rules `debugIn` and `debugOut`.  `debug_poll` may
happen in any cycle (the code polls every 10 to 10000 of them) and takes the
newest host that connects in place of the one it served.  The guard of
`debugOut` and its call are two steps, between which the poll of that cycle may
close or replace the session; this is the case the comment at
`debug_stream.c:289-291` is about.  The socket to the host never fills up.

### Instructions, RegisterFile, Pipeline, Machine

`Instructions` is what the control of the processor needs to know of the
instruction set: eight `Kinds`, of which registers an instruction reads and
writes, when its result is known and how it changes the flow of control.  A word
is one of two values; an operation is a function of its operands that tells
wrong operands from right ones.  A load's value is what memory answers, any
value.

`RegisterFile` keeps `mkForwardingPipelinedRegFile` in one record, each rule and
method an operator that returns the next one.  `readRegFiles` gives a writer a
rename register and finds what its operands are renamed to, `readRegs` takes
each operand from `pendVal`, a rename register or the register file,
`writeRegSpeculative` fills the rename register, and `writeReg` releases it,
whether the instruction completes or not.  Fields that the code leaves undefined
are not looked at and have one value.

`Pipeline` has one action per rule of `MIPSTop.bsv` between two stages and per
rule of the predictor and the register file.  A cycle fires many rules, one
after the other in an order the compiler picks; the model's steps are single
rules in any order, so that whatever the order, the cycle is one of the model's
behaviours.  Where several rules of one cycle are kept apart only by a wire
(`speculativeWriteUsed`), the model allows either.  `putTarget` predicts any
address of `Predictions`, which is what a table with any contents may hold.
`doWriteBack` decides, as the code does, whether the instruction is dead, meets
an exception, writes its register and the pc, and flushes; which instructions of
the program can meet an exception is the constant `Trapping`.  `due` is history:
the address the program's next instruction must have, by what has completed.

`Machine` is the processor as its programs see it: an instruction completes, or
meets an exception, before the next one begins, with a branch delay slot of one
instruction.  `ImplementsMachine` maps `due` and the register file to it.

While the core is paused the debug unit inserts instructions
(`debugInstructionFetch`).  With `OnlySettled` the host does so only in an empty pipeline when no
change of the flow of control is outstanding; without it, it may at any time, as
the hardware permits.

### Proofs and instances

`CircularBufferProofs`, `CompressorProofs`, `DebugUnitProofs`,
`DebugConvertProofs`, `HostClientProofs`, `TopSimProofs` (with the UART and the
debug socket) and `PipelineProofs` hold the theorems, `SequenceLemmas` what the
proofs share about sequences of any length.  The invariants that the longest
two of them prove inductive are modules of definitions, which can be read without
the proofs: `HostClientInvariant` and `PipelineInvariant`.

`MCCircularBuffer`, `MCCompressor`, `MCDebugUnit`, `MCDebugConvert`,
`MCHostClient`, `MCTopSim` and `MCPipeline` give TLC its instances.  Definitions
commented as *mutant* are deliberate errors, used in no specification: each
property is known to fail when the definition after the mutant is replaced by it.

## 3. The runs

| Run | Bounds | Shows |
|---|---|---|
| `buffer_queue` | 4 words, gap 2, 3 values, no refill | the buffer implements `DropOldestQueue`; `almostFull` leaves room; stored data becomes visible |
| `compressor_pipeline` | 4 records of 5 kinds, 3-bit words, 4 and 2 table words | nothing lost, lossless, decoder in step, everything comes out |
| `debug_executing` | 3 packets, all that leave `Polling` but streaming, pipeline of 2 | results go to their commands; pause state restored; comes back to polling |
| `debug_all` | 3 packets of every kind, pipeline of 1 | one reply per command, stops within one fetch, one instruction per step, no report lost |
| `debug_convert` | packets of 0 to 3 bytes with room for 2, FIFOs of 3 and 2, 3 requests, 2 replies | requests and replies arrive whole and in order, a request that is too long is framed anew from its next byte, nothing stays in the conversion |
| `host_client` | BERI and BERI2, rings of 0 and 3 requests, every command, 1 or 2 of whatever a command repeats, 1 reply outstanding, one unknown op, no new breakpoint while 20 bytes are unread | replies go to their commands, nothing is left behind, pipeline paused and restored, commands return |
| `pism_devices` | eight configurations: RAM and ROM with 3 requests in flight; SD card with and without its `readonly` option; the UART as socket, terminal, file and nothing; the debug socket with 2 hosts | order of requests, input of UART and of hosts, status of the card, progress |
| `pipeline` | a program of 6 instructions of 6 kinds, exceptions at 2 of them; 2 registers, 2 rename registers, 4 epochs, FIFOs of 1, 2 instructions of the host | the pipeline implements `Machine`; rename registers are not shared; the program goes on |

Why the bounds are enough.  Four words let the pointers wrap, meet in both
directions and be one apart, and a gap of two separates almost full from full;
nothing in the code depends on more.  The record kinds of the compressor are
chosen so that each field is predicted in some behaviours and missed in others
in all eight combinations, two program counters share a table word, and three
of four records can be under way while the output is full.  In the debug unit
three packets cover an operation, its interruption and what follows (pause,
step, second step; execute, time out, execute), breakpoints come on top of
them, a pipeline of two keeps one instruction behind another, and the timeouts of two to four cycles
are longer than the shortest way through the pipeline and shorter than the
longest.  `pipeCount` has a period of 2 or 3 instead of 8, or stands still where nothing runs un-pipelined.

In the packet conversion a request of three bytes is
one longer than a packet holds, its bytes read as lengths are a good one, the
largest and a bad one, and a FIFO of three holds parts of two packets.

On the host every command runs in both protocols, with and without buffering.  A
command that reads 31 registers is a loop over requests and replies: two
registers with one reply outstanding give its first, a later and its last round.
Three requests fill the ring of the model within one command, as 4095 bytes fill
that of the code.  `MaxUnread` is more than any command's replies with two
breakpoint reports.  Killing drops no byte, one or all of those that had arrived:
the stream is then cut between packets or within one.

On the bus three requests in flight fill every FIFO on the path from the merge
to the devices (no more than one is between `mkPISMTLM` and the devices, which
`SerialAlways` proves for all depths), a delay of one cycle makes a device not
ready for a while, and two lanes give stores that write one byte of a word.  The
card has one sector, of which the image may have half, and the range of `cmd_arg`
has three: arguments are misaligned, good, out of range, and in the last block,
where the sum wraps and a write makes the image grow over the block between.  Each of two
connections types two bytes: one may wait in the registers while the other is in
the socket.  The configurations are checked apart since the devices share
nothing but the FIFOs.  Two hosts of two bytes each and three bytes of the unit
let a byte of one session be held back while the next begins.

In the pipeline the program loads the operand of its branch, so that the branch
waits for a load that may be killed; its delay slot multiplies, its handler
returns, a likely branch skips its delay slot, and a conditional move takes the
old value of a register that is renamed.  Taken and not taken, a branch may be
predicted right or wrong.  The pipeline holds at most six instructions with
FIFOs of one; FIFOs of two (the code's) let more wait and add no rule.  Two rename
registers, of the code's four, are wrapped around and exhausted.  Epochs are the
bound that matters: an instruction of an old epoch must not live to see it again.
The code has eight, and its comment holds four to be enough (`MIPS.bsv:56`); the
run has four.  Two cycles of flushing instead of four fill the pipeline sooner.

`MaxTraces`, `MaxCommands`, `MaxRequests`, `MaxReplies`, `MaxConns`, `MaxTyped`, `MaxSent` and `outstanding` bound behaviours, `PipeDepth` the pipeline,
`TraceSize` and the timeouts are the code's constants made small.  Deadlock is
checked in all runs but `debug_convert`, where the host may have nothing left to
send.

### Where the code does not do what it says

Each of these runs checks one statement of a document or comment, and TLC finds
a behaviour of the model that contradicts it.

| Run | Statement | What happens |
|---|---|---|
| `buffer_refill` | `CircularBuffer.bsv:34-36`: at all other times the head is available immediately | enqueue in the cycle that dequeues the last element: `first()` returns the old word |
| `compressor_stale` | `Compressor.bsv:510`: easy data wrong, send it back | with the output full, the *next* record is sent back instead, and the mispredicted one is lost |
| `debug_step_lost` | `cheri_debug.h:153`: replies contain the request op | a step while the core runs is never answered; nothing is after it |
| `pipeline_debug` | `BranchSimple.bsv:77-79`: branch delay slots always finish before the epoch changes | paused between a mispredicted branch and its delay slot, the first instruction of the debug unit that completes begins the new epoch |

That last one is a case of a debug unit that does not ask whether the program's
flow of control is settled.  Two more were met while modelling and are the
reason for `OnlySettled`: `getPc` for an instruction of the debug unit takes
over the new epoch without taking over `pc` (`BranchSimple.bsv:103-113`), so that
a redirection of the program is lost if it was outstanding; and an instruction
of the debug unit that meets an exception writes the address of the handler to
`pc` without a flush (`Writeback.bsv:249-256`), which the program then follows
only when something else ends the epoch.

More statements are contradicted by the models without a run of their own: in
version 14 the second word repeats `regVal1` and `regVal2` is in the third
(`Compressor.bsv:504-506`), where `acd_final.tex:149` sends the mispredicted
values first; streaming the trace of a program that keeps running never ends,
since each record that is popped resets the idle count (`DebugUnit.bsv:482-483`),
and sends nothing, its put being commented out, where `berictl.1:259` receives
batches; a record of which every field is mispredicted is sent compressed as
version 15 (`Compressor.bsv:518`), where `acd_final.tex:149` sends it
uncompressed; the count is never looked at (`Compressor.bsv:517`) and is lost
when predicted wrongly, where the comment at 511 sends the record whole; and
fetch runs once more after the pause that, at `MIPSTop.bsv:328`, prevents the
rule from firing again.

### Fairness

The hardware fires every rule that can fire, so each rule of the compressor is
weakly fair, and so is `Cycle`.  `Receive` (and `Get`) is weakly fair: the host
takes what is offered; so are `Take` and `Hear` of the packet conversion, since
the debug unit comes back to polling and the host reads its replies.  Nothing is assumed of writeback or of the fetch stage,
which may stall for ever: the timeout is what brings the debug unit back, and
`BackToPolling` shows that it is enough.  `BackToPolling` is checked without
`StreamTrace`, for which it is false (see above).

The host's process is scheduled and the debug unit takes what arrives and
answers it: `HostStep` and `UnitStep` are weakly fair.  No breakpoint, no
exception and no entry of a trace need ever come, which is why `CommandsReturn`
excepts the commands that wait for one; a `step` of a BERI that runs is excepted
because it does hang (`debug_step_lost`).

The simulator fires every rule of `TopSim` that can fire in every cycle, ticks
the bus, and the masters take their replies.  `debug_poll` is weakly fair
because the guard of `debugIn` is evaluated in every cycle, which
`debug_stream.c:69-71` says it relies on.  Nobody need ask, type, connect or
leave.

The pipeline's rules are weakly fair together: in each cycle some rule fires if
one can.  Memory answers in the same step, so that a processor that waits for
it for ever is left out.  `ProgramGoesOn` asks no more than that, and that the
program is not paused again and again.

## 4. What is proved

All theorems hold for every value of the constants that satisfies the named
assumptions of the module, and for behaviours of any length.

**CircularBuffer.**  The inductive invariant `StorageInv` says that pointers
are slots and that the words between them are elements.  The refinement needs
more: that `first()` returns the head word, which follows from
`FirstIsHead` with what `readDelay` says of the cycle before, and
that no exchange has happened (`NoSwap`), which is why
`BufferImplementsQueue` assumes `RefillLast = FALSE`.  The lemmas
`...Effect` state what each combination of calls does to `Contents`.

**Compressor.**  `CompressorInv` has four parts.  `FlowInv` counts records:
each path holds at most one record in its predictor and one in its FIFO, read
requests exist exactly while predicting and name the current addresses, and the
four value FIFOs are filled together.  It gives `NothingLost` and
`WritesMatchReads`.  `EntryInv` says which record the registers hold (the one
started last) and which the predictions belong to (the oldest not put out):
`PredictionsBelongTogether` alone is not inductive, since it says nothing of
the registers the predictions are made from.  The other two are types.
`LosslessCorrect` adds `InStep`: while no record came in on waiting
predictions at most one is under way, the compressor's tables are the
decoder's, or those with that record learnt, and each prediction is one that
the decoder's tables propose.  `MostUsedIsHit` shows that the code chosen is
that of a predictor that was right, for any usage counts; `CompressedDecodes`
that each of the eight encodings decodes to the record.

**DebugUnit.**  The safety properties of the runs, except those listed below as
only model-checked.  Each follows from an invariant that says, state by state, which FIFOs are full, what the pause
registers are and what is under way; `ExecuteCorrect` needs that an
instruction of the debug unit exists in exactly one place from the cycle it is
enqueued in to the one its result is taken in, `PauseCorrect` that
`previousPausePipe` is what the host asked for while an instruction executes.

**DebugConvert.**  `ConvertInv` says for each direction that a FIFO holds
exactly the bytes (`Carries`) between the place its reader has reached and the
place its writer has reached, and that what the reader has gathered is the
beginning of the packet it stands in.  For requests this holds while all that
were sent `Fit`; after one that is too long the bytes are read as other packets,
which is what `BytesAreFramed` describes.  `RequestsCorrect` and
`RepliesCorrect` follow for any packets, depths and delays.  `BytesFramed` needs
an invariant of its own, `FramesInv`: the bytes written are those of the packets
that the debug unit got, those of the packet that has begun, and those in the
FIFO, and the first stand for their packets whatever comes after them
(`StandFor`).  The last is what makes it inductive: `Frames` peels packets off the
front of a sequence, while `getCommand` adds bytes at its end.

**HostClient.**  A command is a sequence of steps of any length, some of it put
in front while it runs, so that no action says what a step that is reached may
rely on.  The invariant says it for the whole rest of the command.  `Good` is the
largest set of configurations all of which fit: a configuration is the replies
that are owed (their ops, in order), whether the pipeline is known to be paused,
how many states of it are saved, the callers that go on after a failure, and the
steps that are left; it fits when its next step has what it needs (a step that
reads, a reply that is owed, first in line; one that restores, a state that was
saved; one that relies on a pause, to know of it with nothing owed that resumes
the pipeline), when it fails into a configuration of the set, and when it goes on
to one.  Being the largest such set, `Good` can be shown to hold a configuration
by any set that is closed under these conditions; that the operations
compose (`Leads`, `Plain`), that loops of requests and replies do, for every
number of registers, words and batches, and that each of the commands begins in
`Good` is the first part of the proof.  In the other direction `Owed` is the least
set of streams: the bytes on their way back, what the host believes before and
after reading them, whether the unit is streaming or lost, and the replies that
the bytes amount to.  It grows at the end as the unit sends, and the second part
of the proof shows what can be at its front as the host reads: a report, or the
reply, the refusal or the trace entry of the first that is owed.  The invariant
`IInv` is that the rest of the command fits some replies, which are those of the
stream followed by those of the requests still on their way.  `ReplyIsOfCommand`,
`NothingLeftBehind`, `PausedWhenAssumed` and `TypeOK` follow.  As `Good` and `Owed`
quantify over infinite sets TLC cannot evaluate `IInv`; it checks the four
properties.  After a session marked `sloppy` nothing is claimed of the bytes, but
the command still fits, so that the types hold always.

`StateIsRestored` follows a BERI2's pipeline through a command.  A place is where
a command is on its way back to the state that it found: the state the pipeline
will be in when what is under way has been served, the one before the last change
while the reply that reports it is waited for, the state the host believes, the
states saved, the callers that go on after a failure, and the steps left.
`Way(w)` is the largest set of places from which every continuation, each
failure included, leads to an end in state `w` or to a failure that is reported.
`CommandAimed` proves, command by command, that each one that is about something
else than the state begins on it, whatever the state: the parts between
`BERI2_PAUSE` and `BERI2_RESUME` are `Steady`, they keep a paused pipeline paused
also when they pause and restore it once more.  `StateInv` says that the session
is at such a place (`Here`), and that what is under way is what the place says
(`Settled`): no change of the state, one that is not served, or the reply to it,
of which the byte is the state that `BERI2_PAUSE` is about to save.  That a change
is alone on its way when it is written (`ChangeAlone`) comes from `IInv`.  The
theorem's hypothesis is that the unit knows the three ops that set the state.
It cannot be dropped: `BERI2_RESUME` only warns when the state cannot be set
again, and a command then succeeds with the pipeline left paused (TLC finds this
with `Unsupported = {2, 66}`).  As `IInv`, `StateInv` is beyond what TLC can
evaluate; the run checks `StateRestored`.

The assumptions are that counts are natural numbers, that at least one reply may
be outstanding, that rings have a size, and that the ops a unit may not know are
numbers other than that of `reset` (`UnsupportedAssumption`).

**TopSim.**  `BusActsInOrder` proves that the bus implements `SequentialBus`
for any memories, requests, delays and any number of requests in flight.  Step
simulation alone fails: it needs that when a fetch takes its reply no store is
between it and the devices.  `Serial` says so: an element of `incompleteResps`
that awaits a reply is the one request that can be in `pismRequests`, in the
device's FIFO or in `pism_fifo`; otherwise the devices are idle and
`pismRequests` holds at most a store.  `IInv` is `Serial` with the shapes of the
FIFOs (`SerialAlways`).  `TInv` adds the types of the registers, among them that
the block of an argument that passed the check, wrapped or not, is one of the
range; `TypeCorrect` follows, and with it the assertions of the C code that its
FIFO has room and that the device at its head has a fetch.  With `DataOK`, the
types alone, `CommandsReported` follows case by case (`ReadSays`, `WriteSays`).
It has a hypothesis of its own, `StatusIsOnlyRead`: the card lets a store change
its status registers, which then say whatever was stored.

What `CommandReported` says of the card is less than a driver would wish.  A
command that fails only adds `DATAERROR`, which a write that completes sets as
well, so that VALID and RR1 are those of an earlier command: a write that fails
after a success, which may have replaced a part of the block, leaves the very
registers of one that completed.  (Stated without regard to what the registers
said before, "a write that shows VALID and no error in RR1 is in the image" is
refuted by TLC.)  What holds, and is checked and proved, is:

- VALID without `DATAERROR` after a read: the buffer holds the block;
- VALID and no error in RR1, where the registers did not say so before the
  command: the command completed; the registers stop saying so only with a
  command that is refused and changes nothing;
- no VALID, or an error in RR1, after a write: it did not complete;
- a write changes no block but its own, and never shortens the image: whether
  a doubtful write completed can be found out by reading the block.

**The UART**, as a part of `TopSim`.  `InputInOrder` speaks of the bytes that have
arrived at the processor; the invariant `Fed` also counts those that wait in the
line.  What has arrived followed by the unread line is in turn (`Ordered`), up to
the last byte typed while the UART's input is open, and of no connection later
than the line's.  A caller that was not accepted yet has a later number, and all
it has typed is unread (`CallerOK`).  Closing therefore drops an end of the
sequence, accepting begins a new run after it, typing appends the next byte, and
a fetch moves one byte from the line to the processor.  Each operation of the
device has a lemma (`FedClosed`, `FedPolled`, `FedFetched`, ...);
`InputInv` is `Fed` with a byte in a reply that the processor has not taken
counted as arrived.

**DebugStream**, as a part of `TopSim`.  `SessionsInOrder` speaks of what has
arrived; the inductive invariant `SInv` also says where the rest is.  `Sockets`
says that the session is that of the host accepted last or none.  `Input` says
that no byte has arrived of a host that was not accepted, so that its first one
is in turn after the last of any other.  `Output` says that the last byte a
served host has is the last that has left (`Left`), which makes the next one
consecutive, and that nothing received is newer, which keeps hosts apart.

**Pipeline.**  `RenameRegsNotShared` speaks of two instructions under way; what
makes it so is a count.  `Accounted` says that `limiter` is the number of writers
between `readRegFiles` and `writeReg`, and that the register of each is as many
places behind `nextReReg`, around the circle, as there are writers from it on.  As
there are no more of them than registers, no two can be at the same place.  The
invariant survives kills since a dead instruction releases its register as any
other does, and in order.  The rest of `IInv` is the types, for which the counter
of the start must be known to be at most one (`BranchInv`): it becomes the
counter of flushes.

`Refinement` proves that the pipeline implements `Machine`, for every program,
any number of registers and rename registers, any depth of the FIFOs and
whatever the predictor holds.  Its invariant `FlowInv` reads the FIFOs between
the stages as one line of instructions, oldest first (`Line`), and has three
parts.  `LengthsInv` says which of them the register file and the predictor know
of.  `Correct` is about values: if the instructions of the line completed in
order, the registers would run through a course of values (`Course`), and each
operand of a live instruction that has been read or renamed leads to the value it
has in that course at its place, be it in the register file, in a rename
register, or still owed by an older instruction (`Sources`, `Valued`); a name is
that of the youngest older instruction that may write the register (`Named`).  A
dead instruction takes part in neither.  `Control` is about order: the live
instructions are the last ones of the line, each is the next of the program as
far as the predictions of the branches before it are true (`Path`), knows whether
it is in a delay slot (`Delays`), and has its prediction checked at its own place
(`Checked`, `Counted`, `Predicted`); when nothing is alive fetching resumes at
`due` (`Resumes`).  What is met of epochs is the current one and those two before
it (`Ages`).  With it `doWriteBack` completes an instruction, meets an exception
or does nothing the machine sees, and every other rule is a stutter
(`FlowInvariant`, `Refinement`).

Both assume, as all of the pipeline's modules do (`Instructions`), that the host
inserts instructions of the kinds its library sends only: alu, load and jump.
Both have two hypotheses.  `OnlySettled` is that the host inserts an instruction
only when the pipeline is empty and no change of the flow of control is
outstanding; without it the property is false, as the constants of
`pipeline_debug` show.  `Epochs >= 4` is that an epoch is not used again while an
instruction of it is under way.  The code has eight, and holds that "4 should be
enough" (`MIPS.bsv:56`): this proves it.  With three TLC finds the property
violated, as a dead instruction comes to life when its epoch comes round.

**Only model-checked**: the liveness properties (`StoredBecomesVisible`, both
`EverythingComesOut`, `BackToPolling`, `EverythingDelivered`, `CommandsReturn`,
`HostIsServed`, `ProgramGoesOn`), which need fairness, and the refutations of
section 3.  Every invariant and every action property of a passing run is stated
by a theorem.

The library's induction theorems take a predicate as their parameter, which the
provers cannot instantiate.  `SequenceLemmas` states induction for sets instead
(`LeastNumber`, `InductiveSet`, `InductiveSequences`): the numbers or sequences of
which something holds are a set.  With it `FlattenSeq`, a recursive function, is
shown to do what its users need for sequences of any length.

## 5. What is not modelled

Of the trace path: the multi-core pause, the reset of the core, `doneInst`
(never tested) and `instQnotEmpty` (never read); the fields of a record that the
predictors treat as one.  Usage counters do not wrap (they have 64 bits).

Of the host: the transports over PCIe and JTAG and the sockets' own errors
(`pcie_stream.c`, `altera_systemconsole.c`), the end of the stream (`recv`
returning 0, with which `circular_buffer.c:128` loops for ever), option parsing,
printing, the disassembler, and the encodings of instructions
(`cheri_debug.c:938-1289`).

Of the simulator: the Ethernet device, whose entry points called by PISM refuse
every request; the frame buffer; the configuration file; the options of a device
that only change what is printed or how a file is opened.  Creating the sockets
is left out, and so is a `read` that fails, which is only warned about.  Rules
of the second core's debug socket are those of the first.

Of the pipeline: what operations compute, HI and LO and the operations that
write them, the stall of an instruction that reads a coprocessor while a write to
it is pending (`MIPSTop.bsv:419`), the builds with several cores, capabilities or
a floating point unit and the predictor and register file that other builds take
(`Branch.bsv`, the variant for high frequencies), misses of the caches and the
TLB beyond the exceptions they raise, and the debug unit's writing of its own
operands.

Caches, coprocessors and the interconnect of the board, which the project left as it found them; vendored and
generated code; test programs that run on the processor (`sw/`).  These make up
most of the repository's lines: what is modelled is the logic of this project
and of the programs at both ends of it.

## 6. Plan

Done: the trace buffer with its abstract queue, the compressor with a reference
decoder, the debug unit with fetch, the packet conversion, the proofs of their
safety; the host's library and commands; the simulated bus with three device
classes and the proof of its order; the debug socket; the pipeline with
predictor and register file, and the machine it implements.  Left:

1. `TraceReport`: the report register of writeback and the records made from
   it; composed with `CircularBuffer` and the debug unit's stream, that records
   reach the host in order.
2. `Multicore`: several debug units and one pause register.
3. The interconnect modules with an abstract specification each
   (`OrderingLimiter`, `ReorderBuffer`, `FairMerge`).
4. Proofs: those of the modules above.  Of the present ones the safety
   properties are proved.
