---------------------------- MODULE MCCompressor ----------------------------
(***************************************************************************)
(* TLC instances of Compressor: three-bit words, four table words for the  *)
(* program counter contexts, two for the values (the program counters 1    *)
(* and 3 share one), and entries chosen so that each field is predicted in *)
(* some behaviours and missed in others, in all eight combinations.        *)
(***************************************************************************)
EXTENDS Compressor

Entry(pc, easy, r1, r2, count) ==
  [version |-> 1, easy |-> easy, pc |-> pc, r1 |-> r1, r2 |-> r2, count |-> count]

MCInputs == { Entry(1, 0, 0, 0, 0),   \* registers hold their power-up values
              Entry(1, 0, 3, 5, 0),   \* the same instruction, both registers new
              Entry(1, 0, 3, 0, 0),   \* the same instruction, one register new
              Entry(3, 0, 0, 5, 1),   \* shares a value word with the others
              Entry(3, 1, 0, 0, 0) }  \* an exception: easy fields differ
=============================================================================
