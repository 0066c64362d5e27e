------------------------------- MODULE Machine -------------------------------
(***************************************************************************)
(* The machine a programmer sees: one instruction after the other, each    *)
(* complete before the next begins.  It says what the pipeline promises:   *)
(* the order of instructions, with delay slots and exceptions, and the     *)
(* register file.                                                          *)
(***************************************************************************)
EXTENDS Instructions

CONSTANT NoAddress   \* there is no branch whose delay slot is due

VARIABLES
  at,     \* the address of the next instruction
  after,  \* the address after it, when it is in a branch delay slot
  regs    \* the general purpose registers

vars == <<at, after, regs>>

Init == /\ at = Reset
        /\ after = NoAddress
        /\ regs = [r \in Register |-> 0]

Written(i, v) == [regs EXCEPT ![i.dest] = v]

(* Control after the instruction i at x whose operand is a.  A branch in a *)
(* delay slot does not branch; a likely branch that is not taken skips its *)
(* delay slot.                                                             *)
Follow(i, x, a) ==
  LET delaySlot == after # NoAddress
      branches == IsBranch(i) /\ ~delaySlot
      taken == branches /\ Takes(i, a)
      nullifies == branches /\ ~taken /\ i.kind = "likely"
  IN  /\ at' = CASE i.kind = "eret"                -> i.target
                 [] i.kind # "eret" /\ delaySlot -> after
                 [] nullifies                    -> Plus(x, 2)
                 [] OTHER                        -> Plus(x, 1)
      /\ after' = CASE taken                                 -> i.target
                    [] branches /\ ~taken /\ ~nullifies      -> Plus(x, 2)
                    [] OTHER                                 -> NoAddress

(* An instruction completes. *)
Retire ==
  LET i == Code[at] IN
  /\ Follow(i, at, regs[i.a])
  /\ \E v \in IF i.kind = "load" THEN Value ELSE {Result(i, at, regs[i.a], regs[i.b])} :
       regs' = IF DoesWrite(i, regs[i.b]) THEN Written(i, v) ELSE regs

(* An exception instead of it: the handler follows. *)
Trap == /\ at \in Trapping
        /\ at' = Entry
        /\ after' = NoAddress
        /\ UNCHANGED regs

(* The debug unit has an instruction executed between two of the program's:  *)
(* a jump moves the program counter, any other leaves the program alone.  It *)
(* is at no address of the program's; the pc it computes with is a constant  *)
(* (MIPSTop.bsv:366).                                                        *)
Operand(r) == IF r = 0 THEN DebugOperand ELSE regs[r]

Debug(i) ==
  /\ IF IsBranch(i) THEN at' = i.target /\ after' = NoAddress ELSE UNCHANGED <<at, after>>
  /\ \E v \in IF i.kind = "load" THEN Value ELSE {Result(i, Reset, Operand(i.a), Operand(i.b))} :
       regs' = IF DoesWrite(i, Operand(i.b)) THEN Written(i, v) ELSE regs

Next == Retire \/ Trap \/ \E i \in DebugInstructions : Debug(i)

Spec == Init /\ [][Next]_vars
=============================================================================
