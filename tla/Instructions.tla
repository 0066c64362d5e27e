---------------------------- MODULE Instructions ----------------------------
(***************************************************************************)
(* What the pipeline's control and its register file need to know of the   *)
(* MIPS instructions that BERI executes (Scheduler.bsv, Decode.bsv,        *)
(* Execute.bsv): which registers an instruction reads and writes, whether  *)
(* its result is known before the memory answers, whether it changes the   *)
(* flow of control and how.  What an operation computes is abstracted to a *)
(* function of its operands, a word to a member of the small set Value.    *)
(* Addresses count instructions.                                           *)
(***************************************************************************)
EXTENDS Integers

CONSTANTS
  Size,              \* addresses of instructions; they wrap, as the pc does
  Code,              \* the program: an instruction for each address
  Reset,             \* the address of the first instruction
  Entry,             \* the address of the exception handler
  Trapping,          \* the instructions that an exception or interrupt can hit
  DebugInstructions, \* the instructions that the debug unit can insert
  DebugOperand,      \* what they read in place of register 0 (debugOpA, debugOpB)
  NumRegs            \* general purpose registers, with register 0

Address == 0 .. Size - 1
Register == 0 .. NumRegs - 1
Value == 0 .. 1

Kinds == { "alu", "load", "move", "multiply", "branch", "likely", "jump", "eret" }

Instruction == [kind : Kinds, a : Register, b : Register, dest : Register, target : Address]

Plus(x, n) == (x + n) % Size

(* The kinds with a branchType: their successor is a branch delay slot. *)
IsBranch(i) == i.kind \in { "branch", "likely", "jump" }

(* MOVZ, whose write depends on operand B. *)
IsConditional(i) == i.kind = "move"

(* Writes to register 0 are cancelled. *)
Writes(i) == i.dest # 0

(* Whether a branch is taken, from its operand. *)
Takes(i, a) == i.kind = "jump" \/ a = 1

(* What an instruction at x computes from its operands: a linking jump the *)
(* address after its delay slot.  A load's result is the memory's.         *)
Result(i, x, a, b) ==
  CASE i.kind = "jump" -> (x + 2) % 2
    [] i.kind = "move" -> a
    [] OTHER -> (a + b + 1) % 2

(* Whether an instruction that may write does. *)
DoesWrite(i, b) == Writes(i) /\ (IsConditional(i) => b = 0)

(* MIPS leaves an ERET in a branch delay slot undefined. *)
ASSUME CodeAssumption ==
  /\ Size \in Nat \ {0} /\ NumRegs \in Nat \ {0}
  /\ Code \in [Address -> Instruction]
  /\ Reset \in Address /\ Entry \in Address
  /\ Trapping \subseteq Address
  /\ DebugInstructions \subseteq Instruction
  /\ DebugOperand \in Value
  /\ \A x \in Address : IsBranch(Code[x]) => Code[Plus(x, 1)].kind # "eret"
  /\ \A i \in DebugInstructions : i.kind \in { "alu", "load", "jump" }
=============================================================================
