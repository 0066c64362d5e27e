--------------------------- MODULE TracePredictor ---------------------------
(***************************************************************************)
(* The value predictors of mkTracePredictor as functions of their tables:  *)
(* what each table proposes for the next trace entry, which proposal is    *)
(* used, and what the table holds once the entry is known.  A predictor    *)
(* keeps nothing the receiver of the compressed trace could not keep too,  *)
(* so the same operators serve the compressor and the reference decoder.   *)
(*                                                                         *)
(* Words have WIDTH bits (64 in the code).  The program counter tables are *)
(* indexed by hashes of 2^PSIZE values (pfcmsizeblg2 = 17) and the value   *)
(* tables by the low VBITS bits of the program counter (16).               *)
(***************************************************************************)
EXTENDS Integers, Sequences, FiniteSetsExt

CONSTANTS WIDTH, PSIZE, VBITS,
          PowerUp      \* what a table word reads as before it is written

ASSUME WidthAssumption == /\ WIDTH \in Nat \ {0} /\ PSIZE \in Nat /\ VBITS \in Nat
                          /\ VBITS <= WIDTH
ASSUME PowerUpAssumption == PowerUp \in 0 .. 2^WIDTH - 1

Word == 0 .. 2^WIDTH - 1

Add(a, b) == (a + b) % 2^WIDTH
Sub(a, b) == (a - b) % 2^WIDTH

BitOf(a, i) == (a \div 2^i) % 2
HashBits == WIDTH + PSIZE + 2
XorTable == [a, b \in 0 .. 2^HashBits - 1 |->
  MapThenSumSet(LAMBDA i : 2^i * ((BitOf(a, i) + BitOf(b, i)) % 2), 0 .. HashBits - 1)]
Xor(a, b) == XorTable[a, b]

-----------------------------------------------------------------------------
(* Stride two-delta entries: the last value, the last stride, and the last *)
(* stride seen twice in a row.                                             *)

updateSt2d(old, new) ==
  LET newDelta == Sub(new, old.data)
  IN  [data   |-> new,
       delta  |-> newDelta,
       delta2 |-> IF old.delta = newDelta THEN newDelta ELSE old.delta2]

St2dProposal(entry) == [c \in {8, 9} |-> Add(entry.data, IF c = 8 THEN entry.delta
                                                                  ELSE entry.delta2)]

-----------------------------------------------------------------------------
(* Among the predictors that were right, the one that has been right most  *)
(* often; the first of them in a tie.  The code of a miss if none was.     *)
MostUsed(hits, used, miss) ==
  IF hits = {} THEN miss
  ELSE CHOOSE c \in hits : \A d \in hits : used[d] < used[c] \/ (used[d] = used[c] /\ c <= d)

(* Usage counters are bumped for the chosen code, the miss code included. *)
Bump(used, code) == [used EXCEPT ![code] = @ + 1]

Hits(proposal, value) == {c \in DOMAIN proposal : proposal[c] = value}

-----------------------------------------------------------------------------
(* The program counter: two finite context tables, indexed by a hash of    *)
(* the last program counter (pfcma0) and of the last three (pfcma2); each  *)
(* word holds the two values most recently seen in that context.           *)

pcHash(pc) == Xor(pc, pc \div 2^PSIZE) % 2^PSIZE

(* pfcma0 rotated right by two within PSIZE bits. *)
Rotated(h) == (((h * 2^PSIZE + h) \div 4) % 2^PSIZE)

PcTables0 == [pfcma0 |-> 0, pfcma1 |-> 0, pfcma2 |-> 0,
              pfcmb0 |-> [i \in 0 .. 2^PSIZE - 1 |-> <<PowerUp, PowerUp>>],
              pfcmb2 |-> [i \in 0 .. 2^(PSIZE + 2) - 1 |-> <<PowerUp, PowerUp>>]]

(* What was read from the two tables at the addresses in reads. *)
PcProposal(t, reads) ==
  [c \in 0 .. 3 |-> IF c < 2 THEN t.pfcmb0[reads.b0][c + 1] ELSE t.pfcmb2[reads.b2][c - 1]]

(* The tables and the contexts once the program counter is known: the      *)
(* writes go to the words the current contexts name.                       *)
LearnPc(t, reads, pc) ==
  [pfcma0 |-> pcHash(pc),
   pfcma1 |-> Xor(2 * Rotated(t.pfcma0), pcHash(pc)),
   pfcma2 |-> Xor(2 * t.pfcma1, pcHash(pc)),
   pfcmb0 |-> [t.pfcmb0 EXCEPT ![t.pfcma0] = <<pc, PcProposal(t, reads)[0]>>],
   pfcmb2 |-> [t.pfcmb2 EXCEPT ![t.pfcma2] = <<pc, PcProposal(t, reads)[2]>>]]

-----------------------------------------------------------------------------
(* Everything else is predicted from tables indexed by the program counter.*)
(* The code's six memories are read and written together at one address;   *)
(* here a word of one memory holds the six: the last four values of the    *)
(* easy fields and of each register, and a stride entry for each register  *)
(* and the cycle count.                                                    *)

ValueIndex(pc) == pc % 2^VBITS

UnwrittenEasy == [version |-> PowerUp, easy |-> PowerUp, pc |-> PowerUp]
St2d0 == [data |-> PowerUp, delta |-> PowerUp, delta2 |-> PowerUp]
Cell0 == [vlnv |-> [i \in 1 .. 4 |-> UnwrittenEasy],
          reg1 |-> [i \in 1 .. 4 |-> PowerUp], reg2 |-> [i \in 1 .. 4 |-> PowerUp],
          st2d_reg1 |-> St2d0, st2d_reg2 |-> St2d0, st2d_count |-> St2d0]
ValueTables0 == [i \in 0 .. 2^VBITS - 1 |-> Cell0]

(* Predictor codes: 4 to 7 for the last-four tables, 8 and 9 for strides.  *)
LastFour(l4) == [c \in 4 .. 7 |-> l4[c - 3]]
RegProposal(l4, st2d) == [c \in 4 .. 9 |-> IF c < 8 THEN LastFour(l4)[c] ELSE St2dProposal(st2d)[c]]
EasyProposal(cell) == LastFour(cell.vlnv)
R1Proposal(cell) == RegProposal(cell.reg1, cell.st2d_reg1)
R2Proposal(cell) == RegProposal(cell.reg2, cell.st2d_reg2)
CountProposal(cell) == [c \in {0, 1} |-> St2dProposal(cell.st2d_count)[c + 8]]

Pushed(l4, v) == [i \in 1 .. 4 |-> IF i = 1 THEN v ELSE l4[i - 1]]

(* A word once the entry it was to predict is known. *)
LearnCell(cell, trace, r1, r2, count) ==
  [vlnv |-> Pushed(cell.vlnv, trace),
   reg1 |-> Pushed(cell.reg1, r1),
   reg2 |-> Pushed(cell.reg2, r2),
   st2d_reg1 |-> updateSt2d(cell.st2d_reg1, r1),
   st2d_reg2 |-> updateSt2d(cell.st2d_reg2, r2),
   st2d_count |-> updateSt2d(cell.st2d_count, count)]

(* Predictor codes that stand for "no predictor was right". *)
PcMiss    == 4
EasyMiss  == 10
RegMiss   == 10
CountMiss == 2
=============================================================================
