-------------------------- MODULE HostClientProofs --------------------------
(***************************************************************************)
(* Proofs about HostClient, of the invariants that HostClientInvariant     *)
(* defines.                                                                *)
(*                                                                         *)
(* The first part proves that every command begins in a configuration from *)
(* which it goes on well.  The second part says what the bytes on their    *)
(* way back can be; the third proves that the two fit together in every    *)
(* reachable state.  The fourth follows the state of a BERI2's pipeline    *)
(* through a command, and proves that the command leaves it as it was.     *)
(***************************************************************************)
EXTENDS HostClientInvariant, SequenceLemmas

-----------------------------------------------------------------------------
(* The configurations from which a command goes on well.                   *)
LEMMA FitsMonotone ==
  ASSUME NEW b, NEW c, NEW X, NEW Y, X \subseteq Y,
         NEW q, NEW k, NEW d, NEW hs, NEW p, Fits(b, c, X, q, k, d, hs, p)
  PROVE  Fits(b, c, Y, q, k, d, hs, p)
<1>1. ASSUME NEW s, NEW r, StepFits(b, c, X, q, k, d, hs, s, r, p)
      PROVE  StepFits(b, c, Y, q, k, d, hs, s, r, p)
  <2>1. /\ WriteFits(b, X, q, k, d, hs, s, r) => WriteFits(b, Y, q, k, d, hs, s, r)
        /\ ReadFits(b, c, X, q, k, d, hs, s, r) => ReadFits(b, c, Y, q, k, d, hs, s, r)
        /\ ReadSetFits(b, X, q, k, d, hs, s, r) => ReadSetFits(b, Y, q, k, d, hs, s, r)
        /\ ReadPauseFits(b, X, q, k, d, hs, s, r) => ReadPauseFits(b, Y, q, k, d, hs, s, r)
        /\ PopTraceFits(b, X, q, k, d, hs, s, r) => PopTraceFits(b, Y, q, k, d, hs, s, r)
        /\ WaitFits(b, X, q, k, d, hs, s, r) => WaitFits(b, Y, q, k, d, hs, s, r)
        /\ NeedPausedFits(b, X, q, k, d, hs, s, r) => NeedPausedFits(b, Y, q, k, d, hs, s, r)
    BY Zenon DEF WriteFits, ReadFits, ReadSetFits, ReadPauseFits, PopTraceFits, WaitFits, NeedPausedFits
  <2>2. /\ UsageFits(X, q, hs) => UsageFits(Y, q, hs)
        /\ SetFits(b, X, q, k, d, hs, s, r) => SetFits(b, Y, q, k, d, hs, s, r)
        /\ PauseFits(b, X, q, k, d, hs, s, r) => PauseFits(b, Y, q, k, d, hs, s, r)
        /\ RestoreFits(b, X, q, k, d, hs, s, r) => RestoreFits(b, Y, q, k, d, hs, s, r)
        /\ TryFits(X, q, k, d, hs, s, r, p) => TryFits(Y, q, k, d, hs, s, r, p)
        /\ ForgetFits(X, q, k, d, hs, r) => ForgetFits(Y, q, k, d, hs, r)
    BY Zenon DEF UsageFits, SetFits, PauseFits, RestoreFits, TryFits, ForgetFits
  <2> QED BY <1>1, <2>1, <2>2 DEF StepFits
<1> QED BY <1>1, Zenon DEF Fits

LEMMA GoodUnfolds ==
  ASSUME NEW b, NEW c, NEW w \in Good(b, c)
  PROVE  w \in Configs /\ Fits(b, c, Good(b, c), w[1], w[2], w[3], w[4], w[5])
<1>1. PICK X \in SUBSET Configs : /\ w \in X
                                  /\ \A v \in X : Fits(b, c, X, v[1], v[2], v[3], v[4], v[5])
  BY Zenon DEF Good
<1>2. X \subseteq Good(b, c)
  BY <1>1, Zenon DEF Good
<1> QED BY <1>1, <1>2, FitsMonotone, Zenon

LEMMA GoodFolds ==
  ASSUME NEW b, NEW c, NEW q, NEW k, NEW d, NEW hs, NEW p, <<q, k, d, hs, p>> \in Configs,
         Fits(b, c, Good(b, c), q, k, d, hs, p)
  PROVE  <<q, k, d, hs, p>> \in Good(b, c)
<1> DEFINE w == <<q, k, d, hs, p>>
           X == Good(b, c) \cup {w}
<1>1. X \in SUBSET Configs
  BY GoodUnfolds, Zenon
<1>2. w[1] = q /\ w[2] = k /\ w[3] = d /\ w[4] = hs /\ w[5] = p
  OBVIOUS
<1> HIDE DEF w
<1>3. \A v \in X : Fits(b, c, X, v[1], v[2], v[3], v[4], v[5])
  <2> TAKE v \in X
  <2>1. Good(b, c) \subseteq X
    OBVIOUS
  <2>2. CASE v = w
    BY <1>2, <2>1, <2>2, FitsMonotone, Zenon
  <2>3. CASE v \in Good(b, c)
    <3>1. Fits(b, c, Good(b, c), v[1], v[2], v[3], v[4], v[5])
      BY <2>3, GoodUnfolds, Zenon
    <3> HIDE DEF X
    <3> QED BY <2>1, <3>1, FitsMonotone, Zenon
  <2> QED BY <2>2, <2>3
<1>4. w \in X
  OBVIOUS
<1> HIDE DEF X
<1>5. w \in Good(b, c)
  BY <1>1, <1>3, <1>4, Zenon DEF Good
<1> QED BY <1>5 DEF w

LEMMA GoodIs ==
  ASSUME NEW b, NEW c, NEW q, NEW k, NEW d, NEW hs, NEW p, <<q, k, d, hs, p>> \in Good(b, c)
  PROVE  /\ q \in Seq(Nat) /\ k \in BOOLEAN /\ d \in 0 .. 2 /\ hs \in Seq(Frames)
         /\ p \in Seq(Steps)
         /\ Fits(b, c, Good(b, c), q, k, d, hs, p)
<1> DEFINE w == <<q, k, d, hs, p>>
<1>1. w[1] = q /\ w[2] = k /\ w[3] = d /\ w[4] = hs /\ w[5] = p
  OBVIOUS
<1>2. w \in Configs /\ Fits(b, c, Good(b, c), w[1], w[2], w[3], w[4], w[5])
  BY GoodUnfolds
<1>3. Fits(b, c, Good(b, c), q, k, d, hs, p)
  BY <1>1, <1>2, Zenon
<1>4. /\ q \in Seq(Nat) /\ k \in BOOLEAN /\ d \in 0 .. 2 /\ hs \in Seq(Frames)
      /\ p \in Seq(Steps)
  BY <1>2 DEF Configs
<1> QED BY <1>3, <1>4

LEMMA KnownForgotten ==
  ASSUME NEW b, NEW c, NEW q, NEW k \in BOOLEAN, NEW d, NEW hs, NEW p,
         <<q, FALSE, d, hs, p>> \in Good(b, c)
  PROVE  <<q, k, d, hs, p>> \in Good(b, c)
<1>1. CASE k = FALSE
  BY <1>1
<1>2. CASE k = TRUE
  <2>1. <<q, k, d, hs, p>> \in Configs
    BY GoodIs DEF Configs
  <2>2. Fits(b, c, Good(b, c), q, k, d, hs, p)
    BY <1>2 DEF Fits
  <2> QED BY <2>1, <2>2, GoodFolds
<1> QED BY <1>1, <1>2

LEMMA EndIsGood ==
  ASSUME NEW b, NEW c
  PROVE  << <<>>, FALSE, 0, <<>>, <<>> >> \in Good(b, c)
<1>1. << <<>>, FALSE, 0, <<>>, <<>> >> \in Configs
  <2>1. << >> \in Seq(Nat) /\ << >> \in Seq(Frames) /\ << >> \in Seq(Steps)
    BY EmptySeq, Zenon
  <2>2. 0 \in 0 .. 2 /\ FALSE \in BOOLEAN
    OBVIOUS
  <2> QED BY <2>1, <2>2, Zenon DEF Configs
<1>2. Fits(b, c, Good(b, c), << >>, FALSE, 0, << >>, << >>)
  BY DEF Fits, EndFits
<1> QED BY <1>1, <1>2, GoodFolds

-----------------------------------------------------------------------------
(* Steps that lead from one configuration to another, with at most D       *)
(* states saved before them, whatever follows and whoever goes on after a  *)
(* failure.                                                                *)
Leads(b, c, D, s, q, k, q2, k2) ==
  /\ s \in Seq(Steps)
  /\ \A d \in 0 .. D, hs \in Seq(Frames), p \in Seq(Steps) :
       <<q2, k2, d, hs, p>> \in Good(b, c) /\ Failed(hs) \in Good(b, c)
         => <<q, k, d, hs, s \o p>> \in Good(b, c)

(* Steps after which nothing more is owed than before: nothing.            *)
Plain(b, c, D, s) == Leads(b, c, D, s, << >>, FALSE, << >>, FALSE)

LEMMA FirstStep ==
  ASSUME NEW what \in Kinds, NEW op \in Int, NEW arg \in Int, NEW p \in Seq(Steps)
  PROVE  /\ Step(what, op, arg) \in Seq(Steps) /\ Len(Step(what, op, arg)) = 1
         /\ Step(what, op, arg) \o p \in Seq(Steps)
         /\ Step(what, op, arg) \o p # << >>
         /\ Head(Step(what, op, arg) \o p) = [do |-> what, op |-> op, arg |-> arg]
         /\ Tail(Step(what, op, arg) \o p) = p
<1> DEFINE x == [do |-> what, op |-> op, arg |-> arg]
<1>1. x \in Steps
  BY DEF Steps
<1>2. Step(what, op, arg) = <<x>>
  BY DEF Step
<1> HIDE DEF x
<1>3. <<x>> \in Seq(Steps) /\ Len(<<x>>) = 1 /\ <<x>>[1] = x
  BY <1>1
<1> DEFINE r == <<x>> \o p
<1>4. /\ r \in Seq(Steps) /\ Len(r) = 1 + Len(p) /\ Len(p) \in Nat
      /\ \A i \in 1 .. 1 + Len(p) : r[i] = IF i <= 1 THEN <<x>>[i] ELSE p[i - 1]
  BY <1>3, ConcatProperties, LenProperties
<1> HIDE DEF r
<1>5. r # << >> /\ Head(r) = x
  BY <1>3, <1>4
<1>6. /\ Tail(r) \in Seq(Steps) /\ Len(Tail(r)) = Len(p)
      /\ \A i \in 1 .. Len(p) : Tail(r)[i] = p[i]
  <2>1. /\ Tail(r) \in Seq(Steps) /\ Len(Tail(r)) = Len(r) - 1
        /\ \A i \in 1 .. Len(Tail(r)) : Tail(r)[i] = r[i + 1]
    BY <1>4, <1>5, HeadTailProperties
  <2> QED BY <1>4, <2>1
<1>7. Tail(r) = p
  BY <1>6, SeqEqual
<1> QED BY <1>2, <1>3, <1>4, <1>5, <1>7 DEF r, x

LEMMA StepFolds ==
  ASSUME NEW b, NEW c, NEW q \in Seq(Nat), NEW k \in BOOLEAN, NEW d \in 0 .. 2,
         NEW hs \in Seq(Frames), NEW p \in Seq(Steps),
         NEW what \in Kinds, NEW op \in Int, NEW arg \in Int,
         StepFits(b, c, Good(b, c), q, k, d, hs, [do |-> what, op |-> op, arg |-> arg], p,
                  Step(what, op, arg) \o p)
  PROVE  <<q, k, d, hs, Step(what, op, arg) \o p>> \in Good(b, c)
<1> DEFINE r == Step(what, op, arg) \o p
<1>1. /\ r \in Seq(Steps) /\ r # << >> /\ Tail(r) = p
      /\ Head(r) = [do |-> what, op |-> op, arg |-> arg]
  BY FirstStep
<1> HIDE DEF r
<1>2. <<q, k, d, hs, r>> \in Configs
  BY <1>1 DEF Configs
<1>3. StepFits(b, c, Good(b, c), q, k, d, hs, Head(r), Tail(r), r)
  BY <1>1 DEF r
<1>4. Fits(b, c, Good(b, c), q, k, d, hs, r)
  BY <1>1, <1>3, Zenon DEF Fits
<1>5. <<q, k, d, hs, r>> \in Good(b, c)
  BY <1>2, <1>4, GoodFolds
<1> QED BY <1>5 DEF r

LEMMA RepliesRegroup == \A s, t, u \in Seq(Nat) : (s \o t) \o u = s \o (t \o u)
BY Regroup, SMTT(30)

LEMMA StepsRegroup == \A s, t, u \in Seq(Steps) : (s \o t) \o u = s \o (t \o u)
BY Regroup

LEMMA Nothing ==
  ASSUME NEW b, NEW c, NEW D, NEW q, NEW k
  PROVE  Leads(b, c, D, << >>, q, k, q, k)
BY ConcatEmptySeq, EmptySeq DEF Leads

LEMMA InTurn ==
  ASSUME NEW b, NEW c, NEW D, NEW s, NEW t,
         NEW q, NEW k, NEW q2, NEW k2, NEW q3, NEW k3,
         Leads(b, c, D, s, q, k, q2, k2), Leads(b, c, D, t, q2, k2, q3, k3)
  PROVE  Leads(b, c, D, s \o t, q, k, q3, k3)
<1>1. s \in Seq(Steps) /\ t \in Seq(Steps)
  BY DEF Leads
<1>2. s \o t \in Seq(Steps)
  BY <1>1, ConcatProperties
<1>3. ASSUME NEW d \in 0 .. D, NEW hs \in Seq(Frames), NEW p \in Seq(Steps),
             <<q3, k3, d, hs, p>> \in Good(b, c), Failed(hs) \in Good(b, c)
      PROVE  <<q, k, d, hs, (s \o t) \o p>> \in Good(b, c)
  <2>1. <<q2, k2, d, hs, t \o p>> \in Good(b, c)
    BY <1>3 DEF Leads
  <2>2. t \o p \in Seq(Steps)
    BY <1>1, ConcatProperties
  <2>3. <<q, k, d, hs, s \o (t \o p)>> \in Good(b, c)
    BY <1>3, <2>1, <2>2 DEF Leads
  <2>4. (s \o t) \o p = s \o (t \o p)
    <3>1. s \in Seq(Steps) /\ t \in Seq(Steps) /\ p \in Seq(Steps)
      BY <1>1
    <3> QED BY <3>1, StepsRegroup, Zenon
  <2> QED BY <2>3, <2>4
<1> QED BY <1>2, <1>3 DEF Leads

LEMMA Weakened ==
  ASSUME NEW b, NEW c, NEW D, NEW s, NEW q, NEW k \in BOOLEAN, NEW q2, NEW k2 \in BOOLEAN
  PROVE  /\ Leads(b, c, D, s, q, FALSE, q2, k2) => Leads(b, c, D, s, q, k, q2, k2)
         /\ Leads(b, c, D, s, q, k, q2, TRUE) => Leads(b, c, D, s, q, k, q2, FALSE)
<1>1. ASSUME Leads(b, c, D, s, q, FALSE, q2, k2) PROVE Leads(b, c, D, s, q, k, q2, k2)
  BY <1>1, KnownForgotten DEF Leads
<1>2. ASSUME Leads(b, c, D, s, q, k, q2, TRUE) PROVE Leads(b, c, D, s, q, k, q2, FALSE)
  <2>1. TRUE \in BOOLEAN
    OBVIOUS
  <2> QED BY <1>2, <2>1, KnownForgotten DEF Leads
<1> QED BY <1>1, <1>2

LEMMA Repeats ==
  ASSUME NEW b, NEW c, NEW D, NEW s, NEW q, NEW k, Leads(b, c, D, s, q, k, q, k)
  PROVE  \A n \in Nat : Leads(b, c, D, Times(n, s), q, k, q, k)
<1>1. s \in Seq(Steps)
  BY DEF Leads
<1> DEFINE T == {n \in Nat : Leads(b, c, D, Times(n, s), q, k, q, k)}
<1>2. \A n \in Nat : Times(n + 1, s) = Times(n, s) \o s /\ Times(0, s) = << >>
  BY <1>1, RepeatedLast, Zenon DEF Times, Repeated
<1>3. 0 \in T
  BY <1>2, Nothing
<1>4. ASSUME NEW n \in Nat, n \in T PROVE n + 1 \in T
  <2>1. Leads(b, c, D, Times(n, s) \o s, q, k, q, k)
    <3>1. Leads(b, c, D, Times(n, s), q, k, q, k)
      BY <1>4
    <3> QED BY <3>1, InTurn
  <2>2. Times(n + 1, s) = Times(n, s) \o s
    BY <1>2
  <2>3. Leads(b, c, D, Times(n + 1, s), q, k, q, k)
    BY <2>1, <2>2, Zenon
  <2>4. n + 1 \in Nat
    OBVIOUS
  <2> QED BY <2>3, <2>4, Zenon
<1> HIDE DEF T
<1>5. \A n \in Nat : n \in T
  BY <1>3, <1>4, InductiveSet
<1> QED BY <1>5 DEF T

LEMMA StepLeads ==
  ASSUME NEW b, NEW c, NEW q \in Seq(Nat), NEW k \in BOOLEAN, NEW q2, NEW k2,
         NEW what \in Kinds, NEW op \in Int, NEW arg \in Int,
         \A d \in 0 .. 2, hs \in Seq(Frames), p \in Seq(Steps) :
           <<q2, k2, d, hs, p>> \in Good(b, c) /\ Failed(hs) \in Good(b, c)
             => StepFits(b, c, Good(b, c), q, k, d, hs, [do |-> what, op |-> op, arg |-> arg], p,
                         Step(what, op, arg) \o p)
  PROVE  Leads(b, c, 2, Step(what, op, arg), q, k, q2, k2)
<1>1. Step(what, op, arg) \in Seq(Steps)
  BY FirstStep, EmptySeq
<1> SUFFICES ASSUME NEW d \in 0 .. 2, NEW hs \in Seq(Frames), NEW p \in Seq(Steps),
                    <<q2, k2, d, hs, p>> \in Good(b, c), Failed(hs) \in Good(b, c)
             PROVE  <<q, k, d, hs, Step(what, op, arg) \o p>> \in Good(b, c)
  BY <1>1, Zenon DEF Leads
<1>2. StepFits(b, c, Good(b, c), q, k, d, hs, [do |-> what, op |-> op, arg |-> arg], p,
               Step(what, op, arg) \o p)
  OBVIOUS
<1> QED BY <1>2, StepFolds, Zenon

LEMMA OwesType ==
  ASSUME NEW b \in BOOLEAN, NEW op \in Nat
  PROVE  Owes(b, op) \in Seq(Nat)
BY DEF Owes, Streamed

LEMMA WriteLeads ==
  ASSUME NEW b \in BOOLEAN, NEW c, NEW op \in Ops(b), NEW arg \in {0, 1},
         NEW q \in Seq(Nat), NEW k \in BOOLEAN
  PROVE  Leads(b, c, 2, Step("write", op, arg), q, k, q \o Owes(b, op), k)
<1>1. op \in Int /\ arg \in Int
  BY DEF Ops
<1>2. ASSUME NEW d \in 0 .. 2, NEW hs \in Seq(Frames), NEW p \in Seq(Steps),
             <<q \o Owes(b, op), k, d, hs, p>> \in Good(b, c)
      PROVE  StepFits(b, c, Good(b, c), q, k, d, hs, [do |-> "write", op |-> op, arg |-> arg], p,
                      Step("write", op, arg) \o p)
  BY <1>2 DEF StepFits, WriteFits
<1>3. "write" \in Kinds
  BY DEF Kinds
<1> HIDE DEF Ops
<1> QED BY <1>1, <1>2, <1>3, StepLeads, Zenon

LEMMA ReadLeads ==
  ASSUME NEW b \in BOOLEAN, NEW c, NEW op \in Ops(b), ~(b /\ op \in SetOps),
         NEW q \in Seq(Nat), NEW k \in BOOLEAN,
         c \notin Pipelined => <<op>> \o q = Owes(b, op)
  PROVE  Leads(b, c, 2, Read(op, ReplyLength(b, op)), <<op>> \o q, k, q, k)
<1>1. op \in Int /\ ReplyLength(b, op) \in Int /\ <<op>> \in Seq(Nat)
  <2>1. op \in 0 .. 126
    BY DEF Ops
  <2>2. ReplyLength(b, op) \in Int
    BY DEF ReplyLength
  <2> QED BY <2>1, <2>2
<1>2. ASSUME NEW d \in 0 .. 2, NEW hs \in Seq(Frames), NEW p \in Seq(Steps),
             <<q, k, d, hs, p>> \in Good(b, c), Failed(hs) \in Good(b, c)
      PROVE  StepFits(b, c, Good(b, c), <<op>> \o q, k, d, hs,
                      [do |-> "read", op |-> op, arg |-> ReplyLength(b, op)], p,
                      Step("read", op, ReplyLength(b, op)) \o p)
  BY <1>2 DEF StepFits, ReadFits
<1>3. <<op>> \o q \in Seq(Nat)
  BY <1>1, ConcatProperties
<1>4. "read" \in Kinds
  BY DEF Kinds
<1>5. Leads(b, c, 2, Step("read", op, ReplyLength(b, op)), <<op>> \o q, k, q, k)
  BY <1>1, <1>2, <1>3, <1>4, StepLeads, Zenon
<1> QED BY <1>5 DEF Read

LEMMA PopTraceLeads ==
  ASSUME NEW b \in BOOLEAN, NEW c, NEW k \in BOOLEAN
  PROVE  Leads(b, c, 2, pop_trace_receive(b), <<Streamed>>, k, << >>, k)
<1> DEFINE op == IF b THEN POPTRACE ELSE POP_TRACE
<1>1. op \in Int /\ <<Streamed>> \in Seq(Nat)
  BY DEF POPTRACE, POP_TRACE, Streamed
<1>2. ASSUME NEW d \in 0 .. 2, NEW hs \in Seq(Frames), NEW p \in Seq(Steps),
             << <<>>, k, d, hs, p >> \in Good(b, c), Failed(hs) \in Good(b, c)
      PROVE  StepFits(b, c, Good(b, c), <<Streamed>>, k, d, hs,
                      [do |-> "popTrace", op |-> op, arg |-> 32], p, Step("popTrace", op, 32) \o p)
  BY <1>2 DEF StepFits, PopTraceFits
<1> HIDE DEF op
<1>3. Leads(b, c, 2, Step("popTrace", op, 32), <<Streamed>>, k, << >>, k)
  <2>1. "popTrace" \in Kinds /\ 32 \in Int
    BY DEF Kinds
  <2> QED BY <1>1, <1>2, <2>1, StepLeads, Zenon
<1> QED BY <1>3 DEF pop_trace_receive, op

LEMMA WaitLeads ==
  ASSUME NEW b \in BOOLEAN, NEW c, NEW k \in BOOLEAN
  PROVE  Leads(b, c, 2, breakpoint_wait(b), << >>, k, << >>, k)
<1> DEFINE n == IF b THEN 9 ELSE 8
<1>1. n \in Int /\ 0 \in Int /\ << >> \in Seq(Nat)
  BY EmptySeq
<1>2. ASSUME NEW d \in 0 .. 2, NEW hs \in Seq(Frames), NEW p \in Seq(Steps),
             << <<>>, k, d, hs, p >> \in Good(b, c), Failed(hs) \in Good(b, c)
      PROVE  StepFits(b, c, Good(b, c), << >>, k, d, hs,
                      [do |-> "wait", op |-> 0, arg |-> n], p, Step("wait", 0, n) \o p)
  BY <1>2 DEF StepFits, WaitFits
<1> HIDE DEF n
<1>3. Leads(b, c, 2, Step("wait", 0, n), << >>, k, << >>, k)
  <2>1. "wait" \in Kinds
    BY DEF Kinds
  <2> QED BY <1>1, <1>2, <2>1, StepLeads, Zenon
<1> QED BY <1>3 DEF breakpoint_wait, n

(* The ops other than those that change the state of a BERI2.              *)
Calm == Nat \ (SetOps \cup {RESUMESTREAMING, Streamed})

LEMMA NeedPausedLeads ==
  ASSUME NEW c, NEW q \in Seq(Calm), NEW k \in BOOLEAN, k \/ q = << >>
  PROVE  Leads(TRUE, c, 2, NeedPaused, q, k, q, TRUE)
<1>1. q \in Seq(Nat) /\ \A i \in 1 .. Len(q) : q[i] \notin SetOps \cup {RESUMESTREAMING, Streamed}
  <2>1. \A i \in 1 .. Len(q) : q[i] \in Calm
    BY ElementOfSeq
  <2>2. Calm \subseteq Nat
    BY DEF Calm
  <2> QED BY <2>1, <2>2, SeqMonotonic DEF Calm
<1>2. ASSUME NEW d \in 0 .. 2, NEW hs \in Seq(Frames), NEW p \in Seq(Steps),
             <<q, TRUE, d, hs, p>> \in Good(TRUE, c), Failed(hs) \in Good(TRUE, c)
      PROVE  StepFits(TRUE, c, Good(TRUE, c), q, k, d, hs,
                      [do |-> "needPaused", op |-> 0, arg |-> 0], p, Step("needPaused", 0, 0) \o p)
  BY <1>1, <1>2 DEF StepFits, NeedPausedFits
<1>3. 0 \in Int /\ "needPaused" \in Kinds
  BY DEF Kinds
<1>4. Leads(TRUE, c, 2, Step("needPaused", 0, 0), q, k, q, TRUE)
  BY <1>1, <1>2, <1>3, StepLeads, Zenon
<1> QED BY <1>4 DEF NeedPaused

LEMMA UsageLeads ==
  ASSUME NEW b \in BOOLEAN, NEW c, NEW k \in BOOLEAN, NEW q2, NEW k2
  PROVE  Leads(b, c, 2, Usage, << >>, k, q2, k2)
<1>1. ASSUME NEW d \in 0 .. 2, NEW hs \in Seq(Frames), NEW p \in Seq(Steps),
             Failed(hs) \in Good(b, c)
      PROVE  StepFits(b, c, Good(b, c), << >>, k, d, hs,
                      [do |-> "usage", op |-> 0, arg |-> 0], p, Step("usage", 0, 0) \o p)
  BY <1>1 DEF StepFits, UsageFits
<1>2. 0 \in Int /\ << >> \in Seq(Nat) /\ "usage" \in Kinds
  BY EmptySeq DEF Kinds
<1>3. Leads(b, c, 2, Step("usage", 0, 0), << >>, k, q2, k2)
  BY <1>1, <1>2, StepLeads, Zenon
<1> QED BY <1>3 DEF Usage

LEMMA SetStateLeads ==
  ASSUME NEW b \in BOOLEAN, NEW c, NEW st \in {PAUSED, RUNPIPELINED, RUNUNPIPELINED}
  PROVE  Plain(b, c, 2, set_pipeline_state(st))
<1>1. st \in Int /\ 0 \in Int /\ << >> \in Seq(Nat) /\ 2 * st \in Int /\ 1 \in Int
      /\ "set" \in Kinds /\ "readSet" \in Kinds
  BY EmptySeq DEF Kinds, PAUSED, RUNPIPELINED, RUNUNPIPELINED
<1>2. ASSUME NEW d \in 0 .. 2, NEW hs \in Seq(Frames), NEW p \in Seq(Steps),
             << <<>>, FALSE, d, hs, p >> \in Good(b, c), Failed(hs) \in Good(b, c)
      PROVE  StepFits(b, c, Good(b, c), << >>, FALSE, d, hs,
                      [do |-> "set", op |-> st, arg |-> 0], p, Step("set", st, 0) \o p)
  <2>1. << <<>>, FALSE \/ (b /\ st = PAUSED), d, hs, p >> \in Good(b, c)
    <3>1. (FALSE \/ (b /\ st = PAUSED)) \in BOOLEAN
      OBVIOUS
    <3> QED BY <1>2, <3>1, KnownForgotten
  <2>2. b => << <<>>, FALSE, d, hs, ToState("readSet", st) \o p >> \in Good(b, c)
    <3> SUFFICES ASSUME b PROVE << <<>>, FALSE, d, hs, ToState("readSet", st) \o p >> \in Good(b, c)
      OBVIOUS
    <3>1. 2 * st \in Ops(b) /\ 2 * st \in SetOps /\ Owes(b, 2 * st) = <<2 * st>>
      <4>1. 2 * st \in {0, 2, 4}
        BY DEF PAUSED, RUNPIPELINED, RUNUNPIPELINED
      <4> QED BY <4>1 DEF Ops, SetOps, Owes, PAUSEPIPELINE, RESUMEPIPELINE, RESUMEUNPIPELINED,
                          RESET, RESUMESTREAMING, STREAM_TRACE_START
    <3>2. StepFits(b, c, Good(b, c), <<2 * st>>, FALSE, d, hs,
                   [do |-> "readSet", op |-> 2 * st, arg |-> 1], p, Step("readSet", 2 * st, 1) \o p)
      <4>1. << <<>>, 2 * st = PAUSEPIPELINE, d, hs, p >> \in Good(b, c)
        <5>1. (2 * st = PAUSEPIPELINE) \in BOOLEAN
          OBVIOUS
        <5> QED BY <1>2, <5>1, KnownForgotten
      <4> QED BY <1>2, <3>1, <4>1 DEF StepFits, ReadSetFits
    <3>3. <<2 * st>> \in Seq(Nat) /\ 2 * st \in Int /\ 1 \in Int
      BY DEF PAUSED, RUNPIPELINED, RUNUNPIPELINED
    <3>4. << <<2 * st>>, FALSE, d, hs, Step("readSet", 2 * st, 1) \o p >> \in Good(b, c)
      BY <1>1, <3>2, <3>3, StepFolds, Zenon
    <3>5. Leads(b, c, 2, Write(2 * st), << >>, FALSE, <<2 * st>>, FALSE)
      <4>1. << >> \o Owes(b, 2 * st) = <<2 * st>>
        BY <3>1, <3>3, ConcatEmptySeq
      <4>2. Leads(b, c, 2, Step("write", 2 * st, 0), << >>, FALSE, << >> \o Owes(b, 2 * st), FALSE)
        BY <1>1, <3>1, WriteLeads
      <4> QED BY <4>1, <4>2 DEF Write
    <3>6. Step("readSet", 2 * st, 1) \o p \in Seq(Steps) /\ Step("readSet", 2 * st, 1) \in Seq(Steps)
          /\ Write(2 * st) \in Seq(Steps)
      BY <1>1, <3>3, <3>5, FirstStep, Zenon DEF Leads
    <3>7. << <<>>, FALSE, d, hs, Write(2 * st) \o (Step("readSet", 2 * st, 1) \o p) >> \in Good(b, c)
      BY <1>2, <3>4, <3>5, <3>6 DEF Leads
    <3>8. (Write(2 * st) \o Step("readSet", 2 * st, 1)) \o p
            = Write(2 * st) \o (Step("readSet", 2 * st, 1) \o p)
      BY <3>6, StepsRegroup, Zenon
    <3> QED BY <3>7, <3>8 DEF ToState
  <2> QED BY <2>1, <2>2 DEF StepFits, SetFits
<1>3. Leads(b, c, 2, Step("set", st, 0), << >>, FALSE, << >>, FALSE)
  <2>1. FALSE \in BOOLEAN
    OBVIOUS
  <2> QED BY <1>1, <1>2, <2>1, StepLeads, Zenon
<1> QED BY <1>3 DEF Plain, set_pipeline_state

(* Steps after which the command goes on whatever becomes of them.         *)
LEMMA AttemptLeads ==
  ASSUME NEW b \in BOOLEAN, NEW c, NEW D \in 0 .. 2, NEW s, NEW q \in Seq(Nat), NEW k \in BOOLEAN,
         Leads(b, c, D, s, q, k, << >>, FALSE), NEW e \in {Caught, Excepted, Ignored}
  PROVE  Leads(b, c, D, Attempt(s, e), q, k, << >>, FALSE)
<1>1. PICK what \in {"caught", "excepted", "ignored"} : e = Step(what, 0, 0)
  BY DEF Caught, Excepted, Ignored
<1>2. what \in Kinds /\ "try" \in Kinds /\ 0 \in Int
  BY DEF Kinds
<1>3. s \in Seq(Steps) /\ Len(s) \in Nat
  BY LenProperties DEF Leads
<1> DEFINE t == Step("try", Len(s), 0)
<1>4. e \in Seq(Steps) /\ t \in Seq(Steps) /\ Len(t) = 1 /\ Len(s) \in Int
  BY <1>1, <1>2, <1>3, FirstStep, EmptySeq
<1>5. Attempt(s, e) = (t \o s) \o e
  BY DEF Attempt
<1> HIDE DEF t
<1>6. t \o s \in Seq(Steps) /\ Len(t \o s) = Len(s) + 1 /\ (t \o s) \o e \in Seq(Steps)
  <2>1. t \o s \in Seq(Steps) /\ Len(t \o s) = Len(t) + Len(s)
    BY <1>3, <1>4, ConcatProperties
  <2>2. Len(t \o s) = Len(s) + 1
    BY <1>3, <1>4, <2>1
  <2>3. (t \o s) \o e \in Seq(Steps)
    BY <1>4, <2>1, ConcatProperties
  <2> QED BY <2>1, <2>2, <2>3
<1>7. ASSUME NEW d \in 0 .. D, NEW hs \in Seq(Frames), NEW p \in Seq(Steps),
             << <<>>, FALSE, d, hs, p >> \in Good(b, c), Failed(hs) \in Good(b, c)
      PROVE  <<q, k, d, hs, ((t \o s) \o e) \o p>> \in Good(b, c)
  <2> DEFINE P == t \o (s \o (e \o p))
  <2>1. /\ e \o p \in Seq(Steps) /\ s \o (e \o p) \in Seq(Steps)
        /\ P = (t \o s) \o (e \o p) /\ P = ((t \o s) \o e) \o p
    <3>1. e \o p \in Seq(Steps) /\ s \o (e \o p) \in Seq(Steps)
      BY <1>3, <1>4, ConcatProperties
    <3>2. P = (t \o s) \o (e \o p)
      BY <1>3, <1>4, <3>1, StepsRegroup, ZenonT(60)
    <3>3. ((t \o s) \o e) \o p = (t \o s) \o (e \o p)
      BY <1>4, <1>6, StepsRegroup, ZenonT(60)
    <3> QED BY <3>1, <3>2, <3>3
  <2>2. SubSeq(P, Len(s) + 2, Len(P)) = e \o p
    <3>1. SubSeq(P, Len(t \o s) + 1, Len(P)) = e \o p
      BY <1>6, <2>1, Dropped
    <3>2. Len(t \o s) + 1 = Len(s) + 2
      BY <1>3, <1>6
    <3> QED BY <3>1, <3>2
  <2> HIDE DEF P
  <2>3. ASSUME NEW h \in Frames, h.rest = e \o p, Len(h.saved) = d
        PROVE  <<q, k, d, <<h>> \o hs, s \o (e \o p)>> \in Good(b, c)
    <3> DEFINE hs2 == <<h>> \o hs
    <3>1. hs2 \in Seq(Frames) /\ hs2 # << >> /\ hs2[1] = h /\ Tail(hs2) = hs
      <4>1. <<h>> \in Seq(Frames) /\ Len(<<h>>) = 1 /\ <<h>>[1] = h
        OBVIOUS
      <4>2. /\ hs2 \in Seq(Frames) /\ Len(hs2) = 1 + Len(hs) /\ Len(hs) \in Nat
            /\ \A i \in 1 .. 1 + Len(hs) : hs2[i] = IF i <= 1 THEN <<h>>[i] ELSE hs[i - 1]
        BY <4>1, ConcatProperties, LenProperties
      <4> HIDE DEF hs2
      <4>3. hs2 # << >> /\ hs2[1] = h
        BY <4>1, <4>2
      <4>4. /\ Tail(hs2) \in Seq(Frames) /\ Len(Tail(hs2)) = Len(hs)
            /\ \A i \in 1 .. Len(hs) : Tail(hs2)[i] = hs[i]
        <5>1. /\ Tail(hs2) \in Seq(Frames) /\ Len(Tail(hs2)) = Len(hs2) - 1
              /\ \A i \in 1 .. Len(Tail(hs2)) : Tail(hs2)[i] = hs2[i + 1]
          BY <4>2, <4>3, HeadTailProperties
        <5> QED BY <4>2, <5>1
      <4>5. Tail(hs2) = hs
        BY <4>4, SeqEqual
      <4> QED BY <4>2, <4>3, <4>5
    <3> HIDE DEF hs2
    <3>2. d \in 0 .. 2
      OBVIOUS
    <3>3. << <<>>, FALSE, d, hs2, e \o p >> \in Good(b, c)
      <4>1. StepFits(b, c, Good(b, c), << >>, FALSE, d, hs2, [do |-> what, op |-> 0, arg |-> 0], p,
                     Step(what, 0, 0) \o p)
        BY <1>7, <3>1 DEF StepFits, ForgetFits
      <4>2. << >> \in Seq(Nat) /\ FALSE \in BOOLEAN
        BY EmptySeq
      <4>3. << <<>>, FALSE, d, hs2, Step(what, 0, 0) \o p >> \in Good(b, c)
        BY <1>2, <3>1, <3>2, <4>1, <4>2, StepFolds, Zenon
      <4> QED BY <1>1, <4>3
    <3>4. Failed(hs2) = << <<>>, FALSE, d, hs2, e \o p >>
      BY <2>3, <3>1 DEF Failed
    <3>5. <<q, k, d, hs2, s \o (e \o p)>> \in Good(b, c)
      BY <2>1, <3>1, <3>3, <3>4 DEF Leads
    <3> QED BY <3>5 DEF hs2
  <2>4. StepFits(b, c, Good(b, c), q, k, d, hs, [do |-> "try", op |-> Len(s), arg |-> 0],
                 s \o (e \o p), P)
    BY <2>1, <2>2, <2>3 DEF StepFits, TryFits
  <2>5. d \in 0 .. 2
    OBVIOUS
  <2>6. P = Step("try", Len(s), 0) \o (s \o (e \o p))
    BY DEF P, t
  <2>7. <<q, k, d, hs, P>> \in Good(b, c)
    <3>1. StepFits(b, c, Good(b, c), q, k, d, hs, [do |-> "try", op |-> Len(s), arg |-> 0],
                   s \o (e \o p), Step("try", Len(s), 0) \o (s \o (e \o p)))
      BY <2>4, <2>6, Zenon
    <3>2. <<q, k, d, hs, Step("try", Len(s), 0) \o (s \o (e \o p))>> \in Good(b, c)
      BY <1>2, <1>4, <2>1, <2>5, <3>1, StepFolds, Zenon
    <3> QED BY <2>6, <3>2
  <2> QED BY <2>1, <2>7
<1> QED BY <1>5, <1>6, <1>7 DEF Leads

LEMMA ToStateSteps ==
  ASSUME NEW b \in BOOLEAN, NEW c, NEW what \in Kinds, NEW d \in 0 .. 2, NEW hs \in Seq(Frames),
         NEW p \in Seq(Steps), Failed(hs) \in Good(b, c), b,
         << << 0 >>, FALSE, d, hs, Step(what, 0, 1) \o p >> \in Good(b, c)
  PROVE  << <<>>, FALSE, d, hs, ToState(what, PAUSED) \o p >> \in Good(b, c)
<1>1. 0 \in Ops(b) /\ Owes(b, 0) = << 0 >> /\ << >> \o << 0 >> = << 0 >> /\ 2 * PAUSED = 0
  BY DEF Ops, Owes, RESET, RESUMESTREAMING, STREAM_TRACE_START, PAUSED
<1>2. Leads(b, c, 2, Write(0), << >>, FALSE, << 0 >>, FALSE)
  <2>1. << >> \in Seq(Nat) /\ FALSE \in BOOLEAN /\ 0 \in {0, 1}
    BY EmptySeq
  <2>2. Leads(b, c, 2, Step("write", 0, 0), << >>, FALSE, << >> \o Owes(b, 0), FALSE)
    BY <1>1, <2>1, WriteLeads
  <2> QED BY <1>1, <2>2 DEF Write
<1>3. 0 \in Int /\ 1 \in Int
  OBVIOUS
<1>4. Step(what, 0, 1) \in Seq(Steps) /\ Step(what, 0, 1) \o p \in Seq(Steps)
  BY <1>3, FirstStep, Zenon
<1>5. Write(0) \in Seq(Steps)
  BY <1>2 DEF Leads
<1>6. << <<>>, FALSE, d, hs, Write(0) \o (Step(what, 0, 1) \o p) >> \in Good(b, c)
  BY <1>2, <1>4 DEF Leads
<1>7. (Write(0) \o Step(what, 0, 1)) \o p = Write(0) \o (Step(what, 0, 1) \o p)
  BY <1>4, <1>5, StepsRegroup, Zenon
<1> QED BY <1>1, <1>6, <1>7 DEF ToState

LEMMA PauseGood ==
  ASSUME NEW b \in BOOLEAN, NEW c, NEW d \in 0 .. 1, NEW hs \in Seq(Frames), NEW p \in Seq(Steps),
         Failed(hs) \in Good(b, c),
         b => << <<>>, TRUE, d + 1, hs, p >> \in Good(b, c),
         ~b => << <<>>, FALSE, d, hs, p >> \in Good(b, c)
  PROVE  << <<>>, FALSE, d, hs, BERI2_PAUSE \o p >> \in Good(b, c)
<1>1. << >> \in Seq(Nat) /\ << 0 >> \in Seq(Nat) /\ FALSE \in BOOLEAN /\ PAUSED = 0 /\ d \in 0 .. 2
      /\ 0 \in Int /\ 1 \in Int /\ "pause" \in Kinds /\ "readPause" \in Kinds
  BY EmptySeq DEF PAUSED, Kinds
<1>2. b => << <<>>, FALSE, d, hs, ToState("readPause", PAUSED) \o p >> \in Good(b, c)
  <2> SUFFICES ASSUME b
               PROVE  << <<>>, FALSE, d, hs, ToState("readPause", PAUSED) \o p >> \in Good(b, c)
    OBVIOUS
  <2>1. StepFits(b, c, Good(b, c), << 0 >>, FALSE, d, hs,
                 [do |-> "readPause", op |-> 0, arg |-> 1], p, Step("readPause", 0, 1) \o p)
    BY DEF StepFits, ReadPauseFits, PAUSEPIPELINE
  <2>2. << << 0 >>, FALSE, d, hs, Step("readPause", 0, 1) \o p >> \in Good(b, c)
    BY <1>1, <2>1, StepFolds, Zenon
  <2> QED BY <1>1, <2>2, ToStateSteps, Zenon
<1>3. StepFits(b, c, Good(b, c), << >>, FALSE, d, hs, [do |-> "pause", op |-> 0, arg |-> 0], p,
               Step("pause", 0, 0) \o p)
  BY <1>2 DEF StepFits, PauseFits
<1>4. << <<>>, FALSE, d, hs, Step("pause", 0, 0) \o p >> \in Good(b, c)
  BY <1>1, <1>3, StepFolds, Zenon
<1> QED BY <1>1, <1>4 DEF BERI2_PAUSE

LEMMA RestoreGood ==
  ASSUME NEW b \in BOOLEAN, NEW c, NEW d \in 0 .. 1, NEW hs \in Seq(Frames), NEW p \in Seq(Steps),
         Failed(hs) \in Good(b, c), << <<>>, FALSE, d, hs, p >> \in Good(b, c)
  PROVE  << <<>>, FALSE, IF b THEN d + 1 ELSE d, hs, BERI2_RESUME \o p >> \in Good(b, c)
<1>1. << >> \in Seq(Nat) /\ FALSE \in BOOLEAN /\ d \in 0 .. 2 /\ 0 \in Int
      /\ "restore" \in Kinds
  BY EmptySeq DEF Kinds
<1> DEFINE e == IF b THEN d + 1 ELSE d
<1>2. e \in 0 .. 2 /\ (b => e > 0 /\ e - 1 = d) /\ (~b => e = d)
  OBVIOUS
<1> HIDE DEF e
<1>3. ASSUME NEW st PROVE << <<>>, FALSE, d, hs, SetAgain(st) \o p >> \in Good(b, c)
  <2>1. CASE st \in {RUNPIPELINED, RUNUNPIPELINED}
    <3>1. Leads(b, c, 2, set_pipeline_state(st), << >>, FALSE, << >>, FALSE)
      BY <2>1, SetStateLeads DEF Plain
    <3>2. 2 \in 0 .. 2 /\ Ignored \in {Caught, Excepted, Ignored}
      OBVIOUS
    <3>3. Leads(b, c, 2, Attempt(set_pipeline_state(st), Ignored), << >>, FALSE, << >>, FALSE)
      BY <1>1, <3>1, <3>2, AttemptLeads, Zenon
    <3>4. << <<>>, FALSE, d, hs, Attempt(set_pipeline_state(st), Ignored) \o p >> \in Good(b, c)
      BY <1>1, <3>3, Zenon DEF Leads
    <3> QED BY <2>1, <3>4 DEF SetAgain
  <2>2. CASE st \notin {RUNPIPELINED, RUNUNPIPELINED}
    BY <2>2, ConcatEmptySeq DEF SetAgain
  <2> QED BY <2>1, <2>2
<1>4. StepFits(b, c, Good(b, c), << >>, FALSE, e, hs, [do |-> "restore", op |-> 0, arg |-> 0], p,
               Step("restore", 0, 0) \o p)
  BY <1>2, <1>3 DEF StepFits, RestoreFits
<1>5. << <<>>, FALSE, e, hs, Step("restore", 0, 0) \o p >> \in Good(b, c)
  BY <1>1, <1>2, <1>4, StepFolds, Zenon
<1> QED BY <1>5 DEF BERI2_RESUME, e

LEMMA PausedLeads ==
  ASSUME NEW b \in BOOLEAN, NEW c, NEW D \in 0 .. 1, NEW s, Plain(b, c, D + 1, s)
  PROVE  Plain(b, c, D, Paused(s))
<1>1. s \in Seq(Steps)
  BY DEF Plain, Leads
<1>2. BERI2_PAUSE \in Seq(Steps) /\ BERI2_RESUME \in Seq(Steps)
  <2>1. "pause" \in Kinds /\ "restore" \in Kinds /\ 0 \in Int /\ PAUSED \in Int
    BY DEF Kinds, PAUSED
  <2>2. << >> \in Seq(Steps)
    BY EmptySeq
  <2> QED BY <2>1, <2>2, FirstStep, Zenon DEF BERI2_PAUSE, BERI2_RESUME
<1>3. BERI2_PAUSE \o s \in Seq(Steps) /\ (BERI2_PAUSE \o s) \o BERI2_RESUME \in Seq(Steps)
  <2>1. BERI2_PAUSE \o s \in Seq(Steps)
    BY <1>1, <1>2, ConcatProperties
  <2> QED BY <1>2, <2>1, ConcatProperties
<1>4. ASSUME NEW d \in 0 .. D, NEW hs \in Seq(Frames), NEW p \in Seq(Steps),
             << <<>>, FALSE, d, hs, p >> \in Good(b, c), Failed(hs) \in Good(b, c)
      PROVE  << <<>>, FALSE, d, hs, ((BERI2_PAUSE \o s) \o BERI2_RESUME) \o p >> \in Good(b, c)
  <2> DEFINE e == IF b THEN d + 1 ELSE d
  <2>1. d \in 0 .. 1 /\ e \in 0 .. D + 1 /\ (b => e = d + 1) /\ (~b => e = d)
    OBVIOUS
  <2>2. BERI2_RESUME \o p \in Seq(Steps) /\ s \o (BERI2_RESUME \o p) \in Seq(Steps)
    <3>1. BERI2_RESUME \o p \in Seq(Steps)
      BY <1>2, ConcatProperties
    <3> QED BY <1>1, <3>1, ConcatProperties
  <2>3. << <<>>, FALSE, e, hs, BERI2_RESUME \o p >> \in Good(b, c)
    BY <1>4, <2>1, RestoreGood, Zenon
  <2> HIDE DEF e
  <2>4. << <<>>, FALSE, e, hs, s \o (BERI2_RESUME \o p) >> \in Good(b, c)
    BY <1>4, <2>1, <2>2, <2>3, Zenon DEF Plain, Leads
  <2>5. TRUE \in BOOLEAN
    OBVIOUS
  <2>6. << <<>>, TRUE, e, hs, s \o (BERI2_RESUME \o p) >> \in Good(b, c)
    BY <2>4, <2>5, KnownForgotten, Zenon
  <2>7. << <<>>, FALSE, d, hs, BERI2_PAUSE \o (s \o (BERI2_RESUME \o p)) >> \in Good(b, c)
    <3>1. /\ b => << <<>>, TRUE, d + 1, hs, s \o (BERI2_RESUME \o p) >> \in Good(b, c)
          /\ ~b => << <<>>, FALSE, d, hs, s \o (BERI2_RESUME \o p) >> \in Good(b, c)
      BY <2>1, <2>4, <2>6
    <3> QED BY <1>4, <2>1, <2>2, <3>1, PauseGood, Zenon
  <2>8. ((BERI2_PAUSE \o s) \o BERI2_RESUME) \o p = BERI2_PAUSE \o (s \o (BERI2_RESUME \o p))
    <3>1. ((BERI2_PAUSE \o s) \o BERI2_RESUME) \o p = (BERI2_PAUSE \o s) \o (BERI2_RESUME \o p)
      BY <1>2, <1>3, StepsRegroup, ZenonT(60)
    <3>2. (BERI2_PAUSE \o s) \o (BERI2_RESUME \o p) = BERI2_PAUSE \o (s \o (BERI2_RESUME \o p))
      <4> DEFINE r == BERI2_RESUME \o p
      <4>1. r \in Seq(Steps) /\ s \in Seq(Steps) /\ BERI2_PAUSE \in Seq(Steps)
        BY <1>1, <1>2, <2>2
      <4> HIDE DEF r
      <4>2. (BERI2_PAUSE \o s) \o r = BERI2_PAUSE \o (s \o r)
        BY <4>1, StepsRegroup, Zenon
      <4> QED BY <4>2 DEF r
    <3> QED BY <3>1, <3>2
  <2> QED BY <2>7, <2>8
<1> QED BY <1>3, <1>4 DEF Plain, Leads, Paused

LEMMA PlainFewer ==
  ASSUME NEW b, NEW c, NEW D \in 0 .. 2, NEW E \in 0 .. D, NEW s, Plain(b, c, D, s)
  PROVE  Plain(b, c, E, s)
<1>1. 0 .. E \subseteq 0 .. D
  OBVIOUS
<1> QED BY <1>1, Zenon DEF Plain, Leads

LEMMA PlainJoined ==
  ASSUME NEW b, NEW c, NEW D, NEW s, NEW t, Plain(b, c, D, s), Plain(b, c, D, t)
  PROVE  Plain(b, c, D, s \o t)
BY InTurn, Zenon DEF Plain

LEMMA PlainAttempt ==
  ASSUME NEW b \in BOOLEAN, NEW c, NEW D \in 0 .. 2, NEW s, Plain(b, c, D, s),
         NEW e \in {Caught, Excepted, Ignored}
  PROVE  Plain(b, c, D, Attempt(s, e))
<1>1. << >> \in Seq(Nat) /\ FALSE \in BOOLEAN
  BY EmptySeq
<1> QED BY <1>1, AttemptLeads, Zenon DEF Plain

LEMMA PlainGuarded ==
  ASSUME NEW b \in BOOLEAN, NEW c, NEW D \in 0 .. 1, NEW s, Plain(b, c, D + 1, s)
  PROVE  Plain(b, c, D, Guarded(s))
<1>1. D + 1 \in 0 .. 2 /\ Excepted \in {Caught, Excepted, Ignored}
  OBVIOUS
<1>2. Plain(b, c, D + 1, Attempt(s, Excepted))
  BY <1>1, PlainAttempt, Zenon
<1>3. Plain(b, c, D, Paused(Attempt(s, Excepted)))
  BY <1>2, PausedLeads, Zenon
<1> QED BY <1>3 DEF Guarded, Paused

-----------------------------------------------------------------------------
(* The operations of the library, each of which leaves nothing owed.       *)
LEMMA AskPlain ==
  ASSUME NEW b \in BOOLEAN, NEW c, NEW op \in Ops(b), ~(b /\ op \in SetOps), Owes(b, op) = <<op>>
  PROVE  Plain(b, c, 2, Ask(op, ReplyLength(b, op)))
<1>1. << >> \in Seq(Nat) /\ FALSE \in BOOLEAN /\ 0 \in {0, 1}
  BY EmptySeq
<1>2. <<op>> \in Seq(Nat) /\ << >> \o <<op>> = <<op>> /\ <<op>> \o << >> = <<op>>
  <2>1. op \in Nat
    BY DEF Ops
  <2>2. <<op>> \in Seq(Nat)
    BY <2>1
  <2> QED BY <2>2, ConcatEmptySeq
<1>3. Leads(b, c, 2, Step("write", op, 0), << >>, FALSE, << >> \o Owes(b, op), FALSE)
  BY <1>1, WriteLeads, Zenon
<1>4. Leads(b, c, 2, Read(op, ReplyLength(b, op)), <<op>> \o << >>, FALSE, << >>, FALSE)
  <2>1. c \notin Pipelined => <<op>> \o << >> = Owes(b, op)
    BY <1>2
  <2> QED BY <1>1, <2>1, ReadLeads, Zenon
<1>5. /\ Leads(b, c, 2, Write(op), << >>, FALSE, <<op>>, FALSE)
      /\ Leads(b, c, 2, Read(op, ReplyLength(b, op)), <<op>>, FALSE, << >>, FALSE)
  BY <1>2, <1>3, <1>4 DEF Write
<1> QED BY <1>5, InTurn, Zenon DEF Plain, Ask

LEMMA AsksOfBeri ==
  ASSUME NEW c, NEW op \in 0 .. 126 \ {45, 46, 69, RESET, STREAM_TRACE_START}
  PROVE  /\ op \notin {REPORT_DESTINATION, PAUSE_EXECUTION, UNPIPELINE_EXECUTION}
              => Plain(FALSE, c, 2, Ask(op, 0))
         /\ op = REPORT_DESTINATION => Plain(FALSE, c, 2, Ask(op, 8))
         /\ op \in {PAUSE_EXECUTION, UNPIPELINE_EXECUTION} => Plain(FALSE, c, 2, Ask(op, 1))
<1>1. FALSE \in BOOLEAN /\ op \in Ops(FALSE) /\ ~(FALSE /\ op \in SetOps)
  BY DEF Ops
<1>2. Owes(FALSE, op) = <<op>>
  BY DEF Owes
<1>3. Plain(FALSE, c, 2, Ask(op, ReplyLength(FALSE, op)))
  BY <1>1, <1>2, AskPlain, Zenon
<1>4. ReplyLength(FALSE, op) = IF op = REPORT_DESTINATION THEN 8
                               ELSE IF op \in {PAUSE_EXECUTION, UNPIPELINE_EXECUTION} THEN 1 ELSE 0
  BY DEF ReplyLength, REPORT_DESTINATION, PAUSE_EXECUTION, UNPIPELINE_EXECUTION
<1>5. REPORT_DESTINATION \notin {PAUSE_EXECUTION, UNPIPELINE_EXECUTION}
  BY DEF REPORT_DESTINATION, PAUSE_EXECUTION, UNPIPELINE_EXECUTION
<1> QED BY <1>3, <1>4, <1>5

LEMMA AsksOfBeri2 ==
  ASSUME NEW c,
         NEW op \in 0 .. 126 \ (SetOps \cup {45, 46, 69, RESET, RESUMESTREAMING})
  PROVE  Plain(TRUE, c, 2, Ask(op, ReplyLength(TRUE, op)))
<1>1. TRUE \in BOOLEAN /\ op \in Ops(TRUE) /\ ~(TRUE /\ op \in SetOps)
  BY DEF Ops
<1>2. Owes(TRUE, op) = <<op>>
  BY DEF Owes
<1> QED BY <1>1, <1>2, AskPlain, Zenon

LEMMA BeriAsks ==
  ASSUME NEW c
  PROVE  /\ Plain(FALSE, c, 2, Ask(LOAD_INSTRUCTION, 0))
         /\ Plain(FALSE, c, 2, Ask(LOAD_OPERAND_A, 0))
         /\ Plain(FALSE, c, 2, Ask(LOAD_OPERAND_B, 0))
         /\ Plain(FALSE, c, 2, Ask(EXECUTE_INSTRUCTION, 0))
         /\ Plain(FALSE, c, 2, Ask(MOVE_PC_TO_DESTINATION, 0))
         /\ Plain(FALSE, c, 2, Ask(REPORT_DESTINATION, 8))
         /\ Plain(FALSE, c, 2, Ask(PAUSE_EXECUTION, 1))
         /\ Plain(FALSE, c, 2, Ask(UNPIPELINE_EXECUTION, 1))
         /\ Plain(FALSE, c, 2, Ask(RESUME_EXECUTION, 0))
         /\ Plain(FALSE, c, 2, Ask(STEP_EXECUTION, 0))
         /\ Plain(FALSE, c, 2, Ask(LOAD_TRACE_FILTER, 0))
         /\ Plain(FALSE, c, 2, Ask(LOAD_TRACE_FILTER_MASK, 0))
         /\ Plain(FALSE, c, 2, Ask(BREAK_ON_TRACE_FILTER, 0))
<1> DEFINE Others == {LOAD_INSTRUCTION, LOAD_OPERAND_A, LOAD_OPERAND_B, EXECUTE_INSTRUCTION,
                      MOVE_PC_TO_DESTINATION, RESUME_EXECUTION, STEP_EXECUTION,
                      LOAD_TRACE_FILTER, LOAD_TRACE_FILTER_MASK, BREAK_ON_TRACE_FILTER}
<1> USE DEF LOAD_INSTRUCTION, LOAD_OPERAND_A, LOAD_OPERAND_B, EXECUTE_INSTRUCTION,
            MOVE_PC_TO_DESTINATION, RESUME_EXECUTION, STEP_EXECUTION, LOAD_TRACE_FILTER,
            LOAD_TRACE_FILTER_MASK, BREAK_ON_TRACE_FILTER, REPORT_DESTINATION, PAUSE_EXECUTION,
            UNPIPELINE_EXECUTION, RESET, STREAM_TRACE_START
<1>1. \A op \in Others : /\ op \in 0 .. 126 \ {45, 46, 69, RESET, STREAM_TRACE_START}
                         /\ op \notin {REPORT_DESTINATION, PAUSE_EXECUTION, UNPIPELINE_EXECUTION}
  OBVIOUS
<1>2. {REPORT_DESTINATION, PAUSE_EXECUTION, UNPIPELINE_EXECUTION}
        \subseteq 0 .. 126 \ {45, 46, 69, RESET, STREAM_TRACE_START}
  OBVIOUS
<1>3. \A op \in Others : op \in Others
  OBVIOUS
<1> HIDE DEF LOAD_INSTRUCTION, LOAD_OPERAND_A, LOAD_OPERAND_B, EXECUTE_INSTRUCTION,
            MOVE_PC_TO_DESTINATION, RESUME_EXECUTION, STEP_EXECUTION, LOAD_TRACE_FILTER,
            LOAD_TRACE_FILTER_MASK, BREAK_ON_TRACE_FILTER, REPORT_DESTINATION, PAUSE_EXECUTION,
            UNPIPELINE_EXECUTION, RESET, STREAM_TRACE_START
<1>4. /\ Plain(FALSE, c, 2, Ask(REPORT_DESTINATION, 8))
      /\ Plain(FALSE, c, 2, Ask(PAUSE_EXECUTION, 1))
      /\ Plain(FALSE, c, 2, Ask(UNPIPELINE_EXECUTION, 1))
  BY <1>2, AsksOfBeri
<1>5. \A op \in Others : Plain(FALSE, c, 2, Ask(op, 0))
  <2> HIDE DEF Others
  <2> TAKE op \in Others
  <2>1. op \in 0 .. 126 \ {45, 46, 69, RESET, STREAM_TRACE_START}
    BY <1>1
  <2>2. op \notin {REPORT_DESTINATION, PAUSE_EXECUTION, UNPIPELINE_EXECUTION}
              => Plain(FALSE, c, 2, Ask(op, 0))
    BY <2>1, AsksOfBeri, Zenon
  <2> QED BY <1>1, <2>2
<1> QED BY <1>4, <1>5

LEMMA Beri2Asks ==
  ASSUME NEW c
  PROVE  /\ \A op \in {EXECUTESINGLEINST, SETTHREAD, SETTRACEFILTER, SETTRACEMASK, SETPC,
                       SETREGISTER, SETBYTE, SETHALFWORD, SETWORD, SETDOUBLEWORD} :
              Plain(TRUE, c, 2, Ask(op, 0))
         /\ \A op \in {GETDOUBLEWORD, GETPC, GETREGISTER} : Plain(TRUE, c, 2, Ask(op, 8))
         /\ Plain(TRUE, c, 2, Ask(GETBYTE, 1)) /\ Plain(TRUE, c, 2, Ask(GETHALFWORD, 2))
         /\ Plain(TRUE, c, 2, Ask(GETWORD, 4)) /\ Plain(TRUE, c, 2, Ask(GETC2REGISTER, 32))
<1> USE DEF EXECUTESINGLEINST, SETTHREAD, SETTRACEFILTER, SETTRACEMASK, SETPC, SETREGISTER,
            SETBYTE, SETHALFWORD, SETWORD, SETDOUBLEWORD, GETDOUBLEWORD, GETPC, GETREGISTER,
            GETBYTE, GETHALFWORD, GETWORD, GETC2REGISTER
<1> DEFINE Silent == {EXECUTESINGLEINST, SETTHREAD, SETTRACEFILTER, SETTRACEMASK, SETPC,
                      SETREGISTER, SETBYTE, SETHALFWORD, SETWORD, SETDOUBLEWORD}
<1>1. /\ \A op \in Silent :
           /\ op \in 0 .. 126 \ (SetOps \cup {45, 46, 69, RESET, RESUMESTREAMING})
           /\ ReplyLength(TRUE, op) = 0
  BY DEF SetOps, PAUSEPIPELINE, RESUMEPIPELINE, RESUMEUNPIPELINED, RESET, RESUMESTREAMING,
         ReplyLength
<1>2. /\ \A op \in {GETDOUBLEWORD, GETPC, GETREGISTER} :
           /\ op \in 0 .. 126 \ (SetOps \cup {45, 46, 69, RESET, RESUMESTREAMING})
           /\ ReplyLength(TRUE, op) = 8
  BY DEF SetOps, PAUSEPIPELINE, RESUMEPIPELINE, RESUMEUNPIPELINED, RESET, RESUMESTREAMING,
         ReplyLength
<1>3. /\ {GETBYTE, GETHALFWORD, GETWORD, GETC2REGISTER}
           \subseteq 0 .. 126 \ (SetOps \cup {45, 46, 69, RESET, RESUMESTREAMING})
      /\ ReplyLength(TRUE, GETBYTE) = 1 /\ ReplyLength(TRUE, GETHALFWORD) = 2
      /\ ReplyLength(TRUE, GETWORD) = 4 /\ ReplyLength(TRUE, GETC2REGISTER) = 32
  BY DEF SetOps, PAUSEPIPELINE, RESUMEPIPELINE, RESUMEUNPIPELINED, RESET, RESUMESTREAMING,
         ReplyLength
<1> HIDE DEF EXECUTESINGLEINST, SETTHREAD, SETTRACEFILTER, SETTRACEMASK, SETPC, SETREGISTER,
            SETBYTE, SETHALFWORD, SETWORD, SETDOUBLEWORD, GETDOUBLEWORD, GETPC, GETREGISTER,
            GETBYTE, GETHALFWORD, GETWORD, GETC2REGISTER
<1>4. \A op \in 0 .. 126 \ (SetOps \cup {45, 46, 69, RESET, RESUMESTREAMING}) :
        Plain(TRUE, c, 2, Ask(op, ReplyLength(TRUE, op)))
  BY AsksOfBeri2, Zenon
<1>5. \A op \in Silent : Plain(TRUE, c, 2, Ask(op, 0))
  <2> HIDE DEF Silent
  <2> QED BY <1>1, <1>4
<1>6. \A op \in {GETDOUBLEWORD, GETPC, GETREGISTER} : Plain(TRUE, c, 2, Ask(op, 8))
  BY <1>2, <1>4, Zenon
<1>7. /\ Plain(TRUE, c, 2, Ask(GETBYTE, ReplyLength(TRUE, GETBYTE)))
      /\ Plain(TRUE, c, 2, Ask(GETHALFWORD, ReplyLength(TRUE, GETHALFWORD)))
      /\ Plain(TRUE, c, 2, Ask(GETWORD, ReplyLength(TRUE, GETWORD)))
      /\ Plain(TRUE, c, 2, Ask(GETC2REGISTER, ReplyLength(TRUE, GETC2REGISTER)))
  BY <1>3, <1>4, ZenonT(60)
<1> QED BY <1>3, <1>5, <1>6, <1>7

LEMMA PlainNothing ==
  ASSUME NEW b, NEW c, NEW D
  PROVE  Plain(b, c, D, << >>)
BY Nothing, Zenon DEF Plain

LEMMA PlainUsage ==
  ASSUME NEW b \in BOOLEAN, NEW c
  PROVE  Plain(b, c, 2, Usage)
<1>1. FALSE \in BOOLEAN
  OBVIOUS
<1> QED BY <1>1, UsageLeads, Zenon DEF Plain

LEMMA PlainNeedPaused ==
  ASSUME NEW c
  PROVE  Plain(TRUE, c, 2, NeedPaused)
<1>1. << >> \in Seq(Calm) /\ FALSE \in BOOLEAN /\ TRUE \in BOOLEAN /\ (FALSE \/ << >> = << >>)
  BY EmptySeq
<1>2. Leads(TRUE, c, 2, NeedPaused, << >>, FALSE, << >>, TRUE)
  BY <1>1, NeedPausedLeads
<1> QED BY <1>1, <1>2, Weakened DEF Plain

LEMMA PlainTimes ==
  ASSUME NEW b, NEW c, NEW D, NEW s, Plain(b, c, D, s), NEW n \in Nat
  PROVE  Plain(b, c, D, Times(n, s))
BY Repeats, Zenon DEF Plain

LEMMA PlainBreakpoint ==
  ASSUME NEW b \in BOOLEAN, NEW c, NEW enabled \in {0, 1}
  PROVE  Plain(b, c, 2, breakpoint_to(b, enabled))
<1> DEFINE op == IF b THEN SETBREAKPOINT ELSE LOAD_BREAKPOINT_0
<1>1. /\ op \in Ops(b) /\ op \notin SetOps /\ Owes(b, op) = <<op>>
      /\ ReplyLength(b, op) = 0 /\ op \in Nat
  <2>1. CASE b = TRUE
    BY <2>1 DEF Ops, SetOps, Owes, ReplyLength, SETBREAKPOINT, RESET, RESUMESTREAMING,
               PAUSEPIPELINE, RESUMEPIPELINE, RESUMEUNPIPELINED, GETDOUBLEWORD, GETPC,
               GETREGISTER, GETBYTE, GETHALFWORD, GETWORD, GETC2REGISTER
  <2>2. CASE b = FALSE
    BY <2>2 DEF Ops, SetOps, Owes, ReplyLength, LOAD_BREAKPOINT_0, RESET, STREAM_TRACE_START,
               PAUSEPIPELINE, RESUMEPIPELINE, RESUMEUNPIPELINED, REPORT_DESTINATION,
               PAUSE_EXECUTION, UNPIPELINE_EXECUTION
  <2> QED BY <2>1, <2>2
<1> HIDE DEF op
<1>2. /\ << >> \in Seq(Nat) /\ FALSE \in BOOLEAN
      /\ << >> \o <<op>> = <<op>> /\ <<op>> \o << >> = <<op>>
  <2>1. <<op>> \in Seq(Nat)
    BY <1>1
  <2> QED BY <2>1, EmptySeq, ConcatEmptySeq
<1>3. Leads(b, c, 2, Step("write", op, enabled), << >>, FALSE, << >> \o Owes(b, op), FALSE)
  BY <1>1, <1>2, WriteLeads, Zenon
<1>4. Leads(b, c, 2, Read(op, ReplyLength(b, op)), <<op>> \o << >>, FALSE, << >>, FALSE)
  <2>1. ~(b /\ op \in SetOps) /\ (c \notin Pipelined => <<op>> \o << >> = Owes(b, op))
    BY <1>1, <1>2
  <2> QED BY <1>1, <1>2, <2>1, ReadLeads, Zenon
<1>5. /\ Leads(b, c, 2, Step("write", op, enabled), << >>, FALSE, <<op>>, FALSE)
      /\ Leads(b, c, 2, Read(op, 0), <<op>>, FALSE, << >>, FALSE)
  BY <1>1, <1>2, <1>3, <1>4
<1>6. Plain(b, c, 2, Step("write", op, enabled) \o Read(op, 0))
  BY <1>5, InTurn, Zenon DEF Plain
<1> QED BY <1>6 DEF breakpoint_to, op

LEMMA PlainReset ==
  ASSUME NEW b \in BOOLEAN, NEW c
  PROVE  Plain(b, c, 2, reset(b))
<1>1. CASE b = TRUE
  BY <1>1, PlainUsage DEF reset, OnlyBeri
<1>2. CASE b = FALSE
  <2>1. RESET \in Ops(b) /\ Owes(b, RESET) = << >>
    BY <1>2 DEF Ops, Owes, RESET, STREAM_TRACE_START, RESUMESTREAMING
  <2>2. << >> \in Seq(Nat) /\ FALSE \in BOOLEAN /\ 0 \in {0, 1} /\ << >> \o << >> = << >>
    BY EmptySeq
  <2>3. Leads(b, c, 2, Step("write", RESET, 0), << >>, FALSE, << >> \o Owes(b, RESET), FALSE)
    BY <2>1, <2>2, WriteLeads, Zenon
  <2> QED BY <1>2, <2>1, <2>2, <2>3 DEF Plain, reset, OnlyBeri, Write
<1> QED BY <1>1, <1>2

(* The entries of a trace are read until one cannot be, or is the last.    *)
LEMMA PlainStream ==
  ASSUME NEW b \in BOOLEAN, NEW c
  PROVE  Plain(b, c, 2, stream_trace_start(b) \o Attempt(pop_trace_receive(b), Ignored))
<1>1. << >> \in Seq(Nat) /\ <<Streamed>> \in Seq(Nat) /\ FALSE \in BOOLEAN /\ 0 \in {0, 1}
      /\ 2 \in 0 .. 2 /\ Ignored \in {Caught, Excepted, Ignored}
      /\ << >> \o <<Streamed>> = <<Streamed>>
  BY EmptySeq DEF Streamed
<1>2. Leads(b, c, 2, Attempt(pop_trace_receive(b), Ignored), <<Streamed>>, FALSE, << >>, FALSE)
  <2>1. Leads(b, c, 2, pop_trace_receive(b), <<Streamed>>, FALSE, << >>, FALSE)
    BY <1>1, PopTraceLeads
  <2> QED BY <1>1, <2>1, AttemptLeads, Zenon
<1>3. Leads(b, c, 2, stream_trace_start(b), << >>, FALSE, <<Streamed>>, FALSE)
  <2>1. CASE b = TRUE
    <3> DEFINE op == RESUMESTREAMING
    <3>1. /\ op \in Ops(b) /\ ~(b /\ op \in SetOps) /\ Owes(b, op) = <<op, Streamed>>
          /\ ReplyLength(b, op) = 1 /\ op \in Nat
      BY <2>1 DEF Ops, SetOps, Owes, ReplyLength, RESUMESTREAMING, RESET, PAUSEPIPELINE,
                 RESUMEPIPELINE, RESUMEUNPIPELINED, STREAM_TRACE_START, GETPC, GETDOUBLEWORD,
                 GETREGISTER, GETWORD, GETHALFWORD, GETBYTE, GETC2REGISTER
    <3> HIDE DEF op
    <3>2. /\ <<op>> \o <<Streamed>> = <<op, Streamed>>
          /\ << >> \o <<op, Streamed>> = <<op, Streamed>>
      <4>1. <<op, Streamed>> \in Seq(Nat)
        BY <3>1 DEF Streamed
      <4> QED BY <4>1, Pair, ConcatEmptySeq
    <3>3. Leads(b, c, 2, Step("write", op, 0), << >>, FALSE, << >> \o Owes(b, op), FALSE)
      BY <1>1, <3>1, WriteLeads, Zenon
    <3>4. Leads(b, c, 2, Read(op, ReplyLength(b, op)), <<op>> \o <<Streamed>>, FALSE, <<Streamed>>, FALSE)
      <4>1. c \notin Pipelined => <<op>> \o <<Streamed>> = Owes(b, op)
        BY <3>1, <3>2
      <4> QED BY <1>1, <3>1, <4>1, ReadLeads, Zenon
    <3>5. /\ Leads(b, c, 2, Write(op), << >>, FALSE, <<op, Streamed>>, FALSE)
          /\ Leads(b, c, 2, Read(op, 1), <<op, Streamed>>, FALSE, <<Streamed>>, FALSE)
      BY <3>1, <3>2, <3>3, <3>4 DEF Write
    <3>6. Leads(b, c, 2, Ask(op, 1), << >>, FALSE, <<Streamed>>, FALSE)
      BY <3>5, InTurn, Zenon DEF Ask
    <3> QED BY <2>1, <3>6 DEF stream_trace_start, op
  <2>2. CASE b = FALSE
    <3>1. STREAM_TRACE_START \in Ops(b) /\ Owes(b, STREAM_TRACE_START) = <<Streamed>>
      BY <2>2 DEF Ops, Owes, STREAM_TRACE_START, RESET
    <3>2. Leads(b, c, 2, Step("write", STREAM_TRACE_START, 0), << >>, FALSE,
                << >> \o Owes(b, STREAM_TRACE_START), FALSE)
      BY <1>1, <3>1, WriteLeads, Zenon
    <3> QED BY <1>1, <2>2, <3>1, <3>2 DEF stream_trace_start, Write
  <2> QED BY <2>1, <2>2
<1> QED BY <1>2, <1>3, InTurn, Zenon DEF Plain

LEMMA OperationsOfBeri ==
  ASSUME NEW c
  PROVE  /\ Plain(FALSE, c, 2, operands(FALSE)) /\ Plain(FALSE, c, 2, instruct(FALSE))
         /\ Plain(FALSE, c, 2, report_destination(FALSE))
         /\ \A op \in Int : Plain(FALSE, c, 2, load(FALSE, op)) /\ Plain(FALSE, c, 2, store(FALSE, op))
         /\ Plain(FALSE, c, 2, get_pc(FALSE)) /\ Plain(FALSE, c, 2, set_pc(FALSE))
         /\ Plain(FALSE, c, 2, set_reg(FALSE)) /\ Plain(FALSE, c, 2, get_c0reg(FALSE))
         /\ Plain(FALSE, c, 2, get_reg(FALSE)) /\ Plain(FALSE, c, 2, pcc_to_cr26(FALSE))
         /\ Plain(FALSE, c, 2, step_execution(FALSE)) /\ Plain(FALSE, c, 2, set_thread(FALSE))
         /\ Plain(FALSE, c, 2, pause_execution(FALSE)) /\ Plain(FALSE, c, 2, resume_execution(FALSE))
         /\ Plain(FALSE, c, 2, unpipeline_execution(FALSE))
         /\ Plain(FALSE, c, 2, trace_filter_set(FALSE)) /\ Plain(FALSE, c, 2, trace_filter_mask_set(FALSE))
         /\ Plain(FALSE, c, 2, break_on_trace_filter(FALSE))
<1> DEFINE P(s) == Plain(FALSE, c, 2, s)
<1>1. \A s, t : P(s) /\ P(t) => P(s \o t)
  BY PlainJoined, Zenon
<1>2. P(Usage)
  BY PlainUsage
<1> HIDE DEF P
<1>3. /\ P(load_operand_a(FALSE)) /\ P(load_operand_b(FALSE)) /\ P(load_instruction(FALSE))
      /\ P(execute_instruction(FALSE)) /\ P(move_pc_to_destination(FALSE))
      /\ P(report_destination(FALSE)) /\ P(step_execution(FALSE)) /\ P(set_thread(FALSE))
      /\ P(pause_execution(FALSE)) /\ P(resume_execution(FALSE)) /\ P(unpipeline_execution(FALSE))
      /\ P(trace_filter_set(FALSE)) /\ P(trace_filter_mask_set(FALSE))
      /\ P(break_on_trace_filter(FALSE))
  BY BeriAsks, <1>2, Zenon
     DEF P, load_operand_a, load_operand_b, load_instruction, execute_instruction, OnlyBeri,
         move_pc_to_destination, report_destination, step_execution, Both, set_thread,
         pause_execution, resume_execution, unpipeline_execution, trace_filter_set,
         trace_filter_mask_set, break_on_trace_filter
<1>4. P(operands(FALSE)) /\ P(instruct(FALSE))
  BY <1>1, <1>3, Zenon DEF operands, instruct
<1>5. P(operands(FALSE) \o instruct(FALSE)) /\ P(instruct(FALSE) \o report_destination(FALSE))
  BY <1>1, <1>3, <1>4, Zenon
<1>6. P((operands(FALSE) \o instruct(FALSE)) \o report_destination(FALSE))
  BY <1>1, <1>3, <1>5, Zenon
<1>7. \A op \in Int : P(load(FALSE, op)) /\ P(store(FALSE, op))
  BY <1>5, <1>6, Zenon DEF load, store
<1>8. P(set_reg(FALSE)) /\ P(get_c0reg(FALSE)) /\ P(get_reg(FALSE))
  BY <1>5, Zenon DEF set_reg, get_c0reg, get_reg, OnlyBeri
<1>9. P(get_pc(FALSE))
  BY <1>1, <1>3, Zenon DEF get_pc
<1>10. P(set_pc(FALSE))
  <2>1. P(load_instruction(FALSE) \o operands(FALSE))
    BY <1>1, <1>3, <1>4, Zenon
  <2> QED BY <1>1, <1>3, <2>1, Zenon DEF set_pc
<1>11. P(pcc_to_cr26(FALSE))
  <2>1. P(Times(2, instruct(FALSE)))
    <3>1. 2 \in Nat
      OBVIOUS
    <3> QED BY <1>4, <3>1, PlainTimes, Zenon DEF P
  <2>2. P(pause_execution(FALSE) \o operands(FALSE))
    BY <1>1, <1>3, <1>4, Zenon
  <2> QED BY <1>1, <2>1, <2>2, Zenon DEF pcc_to_cr26
<1> QED BY <1>3, <1>4, <1>7, <1>8, <1>9, <1>10, <1>11, Zenon DEF P

(* A reply that is read while the pipeline is known to be paused.          *)
LEMMA GetRegisterLeads ==
  ASSUME NEW c
  PROVE  /\ Leads(TRUE, c, 2, get_reg_pipelined_send(TRUE), << >>, FALSE, <<GETREGISTER>>, TRUE)
         /\ Leads(TRUE, c, 2, get_reg_pipelined_response(TRUE), <<GETREGISTER>>, TRUE, << >>, TRUE)
<1> DEFINE op == GETREGISTER
<1>1. /\ op \in Ops(TRUE) /\ ~(TRUE /\ op \in SetOps) /\ Owes(TRUE, op) = <<op>>
      /\ ReplyLength(TRUE, op) = 8 /\ op \in Calm
  BY DEF Ops, SetOps, Owes, ReplyLength, RESUMESTREAMING, RESET, PAUSEPIPELINE, RESUMEPIPELINE,
         RESUMEUNPIPELINED, STREAM_TRACE_START, GETPC, GETDOUBLEWORD, GETREGISTER, GETWORD,
         GETHALFWORD, GETBYTE, GETC2REGISTER, Calm, Streamed
<1>2. /\ << >> \in Seq(Nat) /\ << >> \in Seq(Calm) /\ <<op>> \in Seq(Calm)
      /\ TRUE \in BOOLEAN /\ FALSE \in BOOLEAN /\ 0 \in {0, 1}
  BY <1>1, EmptySeq
<1>3. << >> \o <<op>> = <<op>> /\ <<op>> \o << >> = <<op>>
  BY <1>2, ConcatEmptySeq
<1> HIDE DEF op
<1>4. /\ Leads(TRUE, c, 2, NeedPaused, << >>, FALSE, << >>, TRUE)
      /\ Leads(TRUE, c, 2, NeedPaused, <<op>>, TRUE, <<op>>, TRUE)
  BY <1>2, NeedPausedLeads
<1>5. Leads(TRUE, c, 2, Write(op), << >>, TRUE, <<op>>, TRUE)
  <2>1. Leads(TRUE, c, 2, Step("write", op, 0), << >>, TRUE, << >> \o Owes(TRUE, op), TRUE)
    BY <1>1, <1>2, WriteLeads, Zenon
  <2> QED BY <1>1, <1>3, <2>1 DEF Write
<1>6. Leads(TRUE, c, 2, Read(op, 8), <<op>>, TRUE, << >>, TRUE)
  <2>1. c \notin Pipelined => <<op>> \o << >> = Owes(TRUE, op)
    BY <1>1, <1>3
  <2>2. Leads(TRUE, c, 2, Read(op, ReplyLength(TRUE, op)), <<op>> \o << >>, TRUE, << >>, TRUE)
    BY <1>1, <1>2, <2>1, ReadLeads, Zenon
  <2> QED BY <1>1, <1>3, <2>2
<1>7. Leads(TRUE, c, 2, NeedPaused \o Write(op), << >>, FALSE, <<op>>, TRUE)
  BY <1>4, <1>5, InTurn, Zenon
<1>8. Leads(TRUE, c, 2, NeedPaused \o Read(op, 8), <<op>>, TRUE, << >>, TRUE)
  BY <1>4, <1>6, InTurn, Zenon
<1> QED BY <1>7, <1>8 DEF get_reg_pipelined_send, get_reg_pipelined_response, op

LEMMA OperationsOfBeri2 ==
  ASSUME NEW c
  PROVE  /\ Plain(TRUE, c, 2, operands(TRUE))
         /\ Plain(TRUE, c, 2, get_pc(TRUE)) /\ Plain(TRUE, c, 2, set_pc(TRUE))
         /\ Plain(TRUE, c, 2, set_reg(TRUE)) /\ Plain(TRUE, c, 2, get_c0reg(TRUE))
         /\ Plain(TRUE, c, 2, get_reg(TRUE)) /\ Plain(TRUE, c, 2, pcc_to_cr26(TRUE))
         /\ Plain(TRUE, c, 2, lbu(TRUE)) /\ Plain(TRUE, c, 2, lhu(TRUE))
         /\ Plain(TRUE, c, 2, lwu(TRUE)) /\ Plain(TRUE, c, 2, ld(TRUE))
         /\ Plain(TRUE, c, 2, sb(TRUE)) /\ Plain(TRUE, c, 2, sh(TRUE))
         /\ Plain(TRUE, c, 2, sw(TRUE)) /\ Plain(TRUE, c, 2, sd(TRUE))
         /\ Plain(TRUE, c, 2, step_execution(TRUE)) /\ Plain(TRUE, c, 2, set_thread(TRUE))
         /\ Plain(TRUE, c, 2, pause_execution(TRUE)) /\ Plain(TRUE, c, 2, resume_execution(TRUE))
         /\ Plain(TRUE, c, 2, unpipeline_execution(TRUE))
         /\ Plain(TRUE, c, 2, trace_filter_set(TRUE)) /\ Plain(TRUE, c, 2, trace_filter_mask_set(TRUE))
         /\ Plain(TRUE, c, 2, break_on_trace_filter(TRUE))
         /\ Plain(TRUE, c, 2, get_c2reg(TRUE))
<1> DEFINE P(s) == Plain(TRUE, c, 2, s)
<1>1. \A s, t : P(s) /\ P(t) => P(s \o t)
  BY PlainJoined, Zenon
<1>2. P(Usage) /\ P(<< >>) /\ P(NeedPaused)
  BY PlainUsage, PlainNothing, PlainNeedPaused
<1>3. \A st \in {PAUSED, RUNPIPELINED, RUNUNPIPELINED} : P(set_pipeline_state(st))
  BY SetStateLeads
<1>4. /\ P(Ask(EXECUTESINGLEINST, 0)) /\ P(Ask(SETTHREAD, 0)) /\ P(Ask(SETTRACEFILTER, 0))
      /\ P(Ask(SETTRACEMASK, 0)) /\ P(Ask(SETPC, 0)) /\ P(Ask(SETREGISTER, 0))
      /\ P(Ask(SETBYTE, 0)) /\ P(Ask(SETHALFWORD, 0)) /\ P(Ask(SETWORD, 0))
      /\ P(Ask(SETDOUBLEWORD, 0)) /\ P(Ask(GETDOUBLEWORD, 8)) /\ P(Ask(GETPC, 8))
      /\ P(Ask(GETBYTE, 1)) /\ P(Ask(GETHALFWORD, 2)) /\ P(Ask(GETWORD, 4))
      /\ P(Ask(GETC2REGISTER, 32))
  BY Beri2Asks
<1>5. P(get_reg(TRUE))
  <2>1. Leads(TRUE, c, 2, get_reg(TRUE), << >>, FALSE, << >>, TRUE)
    BY GetRegisterLeads, InTurn, Zenon DEF get_reg
  <2>2. TRUE \in BOOLEAN /\ FALSE \in BOOLEAN
    OBVIOUS
  <2> QED BY <2>1, <2>2, Weakened DEF Plain
<1> HIDE DEF P
<1>6. /\ P(NeedPaused \o Ask(GETPC, 8)) /\ P(NeedPaused \o Ask(SETPC, 0))
      /\ P(NeedPaused \o Ask(SETREGISTER, 0)) /\ P(NeedPaused \o Ask(GETBYTE, 1))
      /\ P(NeedPaused \o Ask(GETHALFWORD, 2)) /\ P(NeedPaused \o Ask(GETWORD, 4))
      /\ P(NeedPaused \o Ask(GETDOUBLEWORD, 8)) /\ P(NeedPaused \o Ask(SETBYTE, 0))
      /\ P(NeedPaused \o Ask(SETHALFWORD, 0)) /\ P(NeedPaused \o Ask(SETWORD, 0))
      /\ P(NeedPaused \o Ask(SETDOUBLEWORD, 0)) /\ P(NeedPaused \o Ask(EXECUTESINGLEINST, 0))
      /\ P(NeedPaused \o Ask(GETC2REGISTER, 32))
  BY <1>1, <1>2, <1>4, Zenon
<1>7. /\ P(get_pc(TRUE)) /\ P(set_pc(TRUE)) /\ P(set_reg(TRUE)) /\ P(get_c0reg(TRUE))
      /\ P(pcc_to_cr26(TRUE)) /\ P(lbu(TRUE)) /\ P(lhu(TRUE)) /\ P(lwu(TRUE)) /\ P(ld(TRUE))
      /\ P(sb(TRUE)) /\ P(sh(TRUE)) /\ P(sw(TRUE)) /\ P(sd(TRUE)) /\ P(get_c2reg(TRUE))
      /\ P(step_execution(TRUE))
  BY <1>2, <1>6, Zenon DEF get_pc, set_pc, set_reg, get_c0reg, OnlyBeri, pcc_to_cr26, lbu, lhu,
     lwu, ld, sb, sh, sw, sd, load, store, get_c2reg, step_execution, Both
<1>8. /\ P(set_thread(TRUE)) /\ P(trace_filter_set(TRUE)) /\ P(trace_filter_mask_set(TRUE))
      /\ P(break_on_trace_filter(TRUE))
  BY <1>2, <1>4, Zenon DEF set_thread, trace_filter_set, trace_filter_mask_set,
     break_on_trace_filter
<1>9. P(pause_execution(TRUE)) /\ P(resume_execution(TRUE)) /\ P(unpipeline_execution(TRUE))
  BY <1>3, Zenon DEF pause_execution, resume_execution, unpipeline_execution
<1>10. P(operands(TRUE))
  BY <1>1, <1>2, Zenon DEF operands, load_operand_a, load_operand_b
<1> QED BY <1>5, <1>7, <1>8, <1>9, <1>10, Zenon DEF P

LEMMA OperationsPlain ==
  ASSUME NEW b \in BOOLEAN, NEW c
  PROVE  /\ Plain(b, c, 2, operands(b)) /\ Plain(b, c, 2, get_pc(b)) /\ Plain(b, c, 2, set_pc(b))
         /\ Plain(b, c, 2, set_reg(b)) /\ Plain(b, c, 2, get_c0reg(b)) /\ Plain(b, c, 2, get_reg(b))
         /\ Plain(b, c, 2, pcc_to_cr26(b))
         /\ Plain(b, c, 2, lbu(b)) /\ Plain(b, c, 2, lhu(b))
         /\ Plain(b, c, 2, lwu(b)) /\ Plain(b, c, 2, ld(b))
         /\ Plain(b, c, 2, sb(b)) /\ Plain(b, c, 2, sh(b))
         /\ Plain(b, c, 2, sw(b)) /\ Plain(b, c, 2, sd(b))
         /\ Plain(b, c, 2, step_execution(b)) /\ Plain(b, c, 2, set_thread(b))
         /\ Plain(b, c, 2, pause_execution(b)) /\ Plain(b, c, 2, resume_execution(b))
         /\ Plain(b, c, 2, unpipeline_execution(b))
         /\ Plain(b, c, 2, trace_filter_set(b)) /\ Plain(b, c, 2, trace_filter_mask_set(b))
         /\ Plain(b, c, 2, break_on_trace_filter(b))
<1>1. CASE b = TRUE
  BY <1>1, OperationsOfBeri2, Zenon
<1>2. CASE b = FALSE
  <2>1. {GETBYTE, GETHALFWORD, GETWORD, GETDOUBLEWORD, SETBYTE, SETHALFWORD, SETWORD, SETDOUBLEWORD}
          \subseteq Int
    BY DEF GETBYTE, GETHALFWORD, GETWORD, GETDOUBLEWORD, SETBYTE, SETHALFWORD, SETWORD, SETDOUBLEWORD
  <2>2. /\ lbu(FALSE) = load(FALSE, GETBYTE) /\ lhu(FALSE) = load(FALSE, GETHALFWORD)
        /\ lwu(FALSE) = load(FALSE, GETWORD) /\ ld(FALSE) = load(FALSE, GETDOUBLEWORD)
        /\ sb(FALSE) = store(FALSE, SETBYTE) /\ sh(FALSE) = store(FALSE, SETHALFWORD)
        /\ sw(FALSE) = store(FALSE, SETWORD) /\ sd(FALSE) = store(FALSE, SETDOUBLEWORD)
    BY Zenon DEF lbu, lhu, lwu, ld, sb, sh, sw, sd
  <2>3. /\ Plain(FALSE, c, 2, lbu(FALSE)) /\ Plain(FALSE, c, 2, lhu(FALSE))
        /\ Plain(FALSE, c, 2, lwu(FALSE)) /\ Plain(FALSE, c, 2, ld(FALSE))
        /\ Plain(FALSE, c, 2, sb(FALSE)) /\ Plain(FALSE, c, 2, sh(FALSE))
        /\ Plain(FALSE, c, 2, sw(FALSE)) /\ Plain(FALSE, c, 2, sd(FALSE))
    BY <2>1, <2>2, OperationsOfBeri
  <2> QED BY <1>2, <2>3, OperationsOfBeri, Zenon
<1> QED BY <1>1, <1>2

-----------------------------------------------------------------------------
(* Several requests before the first reply is read.  Sends: they add u to  *)
(* what is owed; Reads: their replies are read when it begins with u.      *)
Sends(b, c, k, w, u) ==
  u \in Seq(Calm) /\ \A q \in Seq(Calm) : Leads(b, c, 2, w, q, k, q \o u, k)

Reads(b, c, k, r, u) ==
  u \in Seq(Calm) /\ \A q \in Seq(Calm) : Leads(b, c, 2, r, u \o q, k, q, k)

Pipes(b, c, k, w, r, u) ==
  Sends(b, c, k, w, u) /\ Reads(b, c, k, r, u) /\ Leads(b, c, 2, w, << >>, FALSE, u, k)

LEMMA CalmSequences ==
  /\ \A q \in Seq(Calm) : q \in Seq(Nat) /\ << >> \o q = q /\ q \o << >> = q
  /\ \A q, u \in Seq(Calm) : q \o u \in Seq(Calm)
  /\ \A q, u, v \in Seq(Calm) : (q \o u) \o v = q \o (u \o v)
  /\ << >> \in Seq(Calm)
<1>1. Calm \subseteq Nat
  BY DEF Calm
<1>2. \A q \in Seq(Calm) : q \in Seq(Nat) /\ << >> \o q = q /\ q \o << >> = q
  BY <1>1, SeqMonotonic, ConcatEmptySeq
<1>3. \A q, u \in Seq(Calm) : q \o u \in Seq(Calm)
  BY ConcatProperties
<1>4. \A q, u, v \in Seq(Calm) : (q \o u) \o v = q \o (u \o v)
  BY Regroup
<1> QED BY <1>2, <1>3, <1>4, EmptySeq

LEMMA SendsOne ==
  ASSUME NEW b \in BOOLEAN, NEW c, NEW k \in BOOLEAN, NEW op \in Ops(b) \cap Calm,
         Owes(b, op) = <<op>>
  PROVE  Sends(b, c, k, Write(op), <<op>>)
<1>1. <<op>> \in Seq(Calm) /\ 0 \in {0, 1}
  OBVIOUS
<1>2. ASSUME NEW q \in Seq(Calm) PROVE Leads(b, c, 2, Write(op), q, k, q \o <<op>>, k)
  <2>1. q \in Seq(Nat) /\ op \in Ops(b)
    BY CalmSequences
  <2>2. Leads(b, c, 2, Step("write", op, 0), q, k, q \o Owes(b, op), k)
    BY <1>1, <2>1, WriteLeads, Zenon
  <2> QED BY <2>2 DEF Write
<1> QED BY <1>1, <1>2, Zenon DEF Sends

LEMMA ReadsOne ==
  ASSUME NEW b \in BOOLEAN, NEW c \in Pipelined, NEW k \in BOOLEAN, NEW op \in Ops(b) \cap Calm
  PROVE  Reads(b, c, k, Read(op, ReplyLength(b, op)), <<op>>)
<1>1. <<op>> \in Seq(Calm) /\ op \in Ops(b) /\ ~(b /\ op \in SetOps)
  BY DEF Calm
<1>2. ASSUME NEW q \in Seq(Calm)
      PROVE  Leads(b, c, 2, Read(op, ReplyLength(b, op)), <<op>> \o q, k, q, k)
  <2>1. q \in Seq(Nat)
    BY CalmSequences
  <2> QED BY <1>1, <2>1, ReadLeads, Zenon
<1> QED BY <1>1, <1>2, Zenon DEF Reads

LEMMA SendsJoined ==
  ASSUME NEW b, NEW c, NEW k, NEW w, NEW u, NEW w2, NEW u2,
         Sends(b, c, k, w, u), Sends(b, c, k, w2, u2)
  PROVE  Sends(b, c, k, w \o w2, u \o u2)
<1>1. u \in Seq(Calm) /\ u2 \in Seq(Calm) /\ u \o u2 \in Seq(Calm)
  BY CalmSequences, Zenon DEF Sends
<1>2. ASSUME NEW q \in Seq(Calm) PROVE Leads(b, c, 2, w \o w2, q, k, q \o (u \o u2), k)
  <2>1. q \o u \in Seq(Calm) /\ (q \o u) \o u2 = q \o (u \o u2)
    BY <1>1, CalmSequences, Zenon
  <2>2. Leads(b, c, 2, w, q, k, q \o u, k)
    BY Zenon DEF Sends
  <2>3. Leads(b, c, 2, w2, q \o u, k, (q \o u) \o u2, k)
    BY <2>1, Zenon DEF Sends
  <2>4. Leads(b, c, 2, w \o w2, q, k, (q \o u) \o u2, k)
    BY <2>2, <2>3, InTurn, Zenon
  <2> QED BY <2>1, <2>4
<1> QED BY <1>1, <1>2, Zenon DEF Sends

LEMMA ReadsJoined ==
  ASSUME NEW b, NEW c, NEW k, NEW r, NEW u, NEW r2, NEW u2,
         Reads(b, c, k, r, u), Reads(b, c, k, r2, u2)
  PROVE  Reads(b, c, k, r \o r2, u \o u2)
<1>1. u \in Seq(Calm) /\ u2 \in Seq(Calm) /\ u \o u2 \in Seq(Calm)
  BY CalmSequences, Zenon DEF Reads
<1>2. ASSUME NEW q \in Seq(Calm) PROVE Leads(b, c, 2, r \o r2, (u \o u2) \o q, k, q, k)
  <2>1. u2 \o q \in Seq(Calm) /\ (u \o u2) \o q = u \o (u2 \o q)
    BY <1>1, CalmSequences, Zenon
  <2>2. Leads(b, c, 2, r, u \o (u2 \o q), k, u2 \o q, k)
    BY <2>1, Zenon DEF Reads
  <2>3. Leads(b, c, 2, r2, u2 \o q, k, q, k)
    BY Zenon DEF Reads
  <2>4. Leads(b, c, 2, r \o r2, u \o (u2 \o q), k, q, k)
    BY <2>2, <2>3, InTurn, Zenon
  <2> QED BY <2>1, <2>4
<1> QED BY <1>1, <1>2, Zenon DEF Reads

LEMMA RepeatedCalm ==
  ASSUME NEW u \in Seq(Calm), NEW n \in Nat
  PROVE  /\ Repeated(n, u) \in Seq(Calm)
         /\ Repeated(0, u) = << >>
         /\ Repeated(n + 1, u) = Repeated(n, u) \o u
         /\ Repeated(n + 1, u) = u \o Repeated(n, u)
BY RepeatedLast, RepeatedFirst

LEMMA TimesSteps ==
  ASSUME NEW s \in Seq(Steps), NEW n \in Nat
  PROVE  /\ Times(0, s) = << >>
         /\ Times(n + 1, s) = Times(n, s) \o s
         /\ Times(n + 1, s) = s \o Times(n, s)
BY RepeatedLast, RepeatedFirst, Zenon DEF Times, Repeated

(* A loop of requests, and one of replies.                                 *)
LEMMA SendLoop ==
  ASSUME NEW b, NEW c, NEW k, NEW w, NEW u, Sends(b, c, k, w, u),
         Leads(b, c, 2, w, << >>, FALSE, u, k)
  PROVE  \A n \in Nat : Leads(b, c, 2, Times(n + 1, w), << >>, FALSE, Repeated(n + 1, u), k)
<1>1. w \in Seq(Steps) /\ u \in Seq(Calm)
  BY DEF Leads, Sends
<1> DEFINE T == {n \in Nat : Leads(b, c, 2, Times(n + 1, w), << >>, FALSE, Repeated(n + 1, u), k)}
<1>2. 0 \in T
  <2>1. Times(0, w) = << >> /\ Times(0 + 1, w) = w \o Times(0, w) /\ w \o << >> = w
    <3>1. 0 \in Nat
      OBVIOUS
    <3> QED BY <1>1, <3>1, TimesSteps, ConcatEmptySeq
  <2>2. Repeated(0, u) = << >> /\ Repeated(0 + 1, u) = u \o Repeated(0, u) /\ u \o << >> = u
    <3>1. 0 \in Nat
      OBVIOUS
    <3> QED BY <1>1, <3>1, RepeatedCalm, CalmSequences
  <2>3. Leads(b, c, 2, Times(0 + 1, w), << >>, FALSE, Repeated(0 + 1, u), k)
    BY <2>1, <2>2
  <2>4. 0 \in Nat
    OBVIOUS
  <2> QED BY <2>3, <2>4, Zenon
<1>3. ASSUME NEW n \in Nat, n \in T PROVE n + 1 \in T
  <2>1. n + 1 \in Nat
    OBVIOUS
  <2>2. Leads(b, c, 2, Times(n + 1, w), << >>, FALSE, Repeated(n + 1, u), k)
    BY <1>3
  <2>3. /\ Times((n + 1) + 1, w) = Times(n + 1, w) \o w
        /\ Repeated((n + 1) + 1, u) = Repeated(n + 1, u) \o u
        /\ Repeated(n + 1, u) \in Seq(Calm)
    BY <1>1, <2>1, TimesSteps, RepeatedCalm, Zenon
  <2>4. Leads(b, c, 2, w, Repeated(n + 1, u), k, Repeated(n + 1, u) \o u, k)
    BY <2>3, Zenon DEF Sends
  <2>5. Leads(b, c, 2, Times(n + 1, w) \o w, << >>, FALSE, Repeated(n + 1, u) \o u, k)
    BY <2>2, <2>4, InTurn, Zenon
  <2>6. Leads(b, c, 2, Times((n + 1) + 1, w), << >>, FALSE, Repeated((n + 1) + 1, u), k)
    BY <2>3, <2>5, Zenon
  <2> QED BY <2>1, <2>6, Zenon
<1> HIDE DEF T
<1>4. \A n \in Nat : n \in T
  BY <1>2, <1>3, InductiveSet
<1> QED BY <1>4 DEF T

LEMMA ReadLoop ==
  ASSUME NEW b, NEW c, NEW k, NEW r, NEW u, Reads(b, c, k, r, u)
  PROVE  \A n \in Nat : Leads(b, c, 2, Times(n, r), Repeated(n, u), k, << >>, k)
<1>1. r \in Seq(Steps) /\ u \in Seq(Calm)
  <2>1. << >> \in Seq(Calm)
    BY EmptySeq
  <2> QED BY <2>1 DEF Leads, Reads
<1> DEFINE T == {n \in Nat : Leads(b, c, 2, Times(n, r), Repeated(n, u), k, << >>, k)}
<1>2. 0 \in T
  <2>1. Times(0, r) = << >> /\ Repeated(0, u) = << >> /\ 0 \in Nat
    <3>1. 0 \in Nat
      OBVIOUS
    <3> QED BY <1>1, <3>1, TimesSteps, RepeatedCalm
  <2> QED BY <2>1, Nothing
<1>3. ASSUME NEW n \in Nat, n \in T PROVE n + 1 \in T
  <2>1. n + 1 \in Nat
    OBVIOUS
  <2>2. Leads(b, c, 2, Times(n, r), Repeated(n, u), k, << >>, k)
    BY <1>3
  <2>3. /\ Times(n + 1, r) = r \o Times(n, r)
        /\ Repeated(n + 1, u) = u \o Repeated(n, u)
        /\ Repeated(n, u) \in Seq(Calm)
    BY <1>1, <2>1, TimesSteps, RepeatedCalm, Zenon
  <2>4. Leads(b, c, 2, r, u \o Repeated(n, u), k, Repeated(n, u), k)
    BY <2>3, Zenon DEF Reads
  <2>5. Leads(b, c, 2, r \o Times(n, r), u \o Repeated(n, u), k, << >>, k)
    BY <2>2, <2>4, InTurn, Zenon
  <2>6. Leads(b, c, 2, Times(n + 1, r), Repeated(n + 1, u), k, << >>, k)
    BY <2>3, <2>5, Zenon
  <2> QED BY <2>1, <2>6, Zenon
<1> HIDE DEF T
<1>4. \A n \in Nat : n \in T
  BY <1>2, <1>3, InductiveSet
<1> QED BY <1>4 DEF T

(* Every request is sent, then every reply is read; and as many requests   *)
(* are kept ahead as there are in a window.                                *)
LEMMA PipesLead ==
  ASSUME NEW b, NEW c, NEW k \in BOOLEAN, NEW w, NEW r, NEW u, Pipes(b, c, k, w, r, u),
         NEW n \in Nat, NEW m \in Nat, n = 0 => m = 0
  PROVE  \E q, k2 : /\ Leads(b, c, 2, Times(n, w), << >>, FALSE, q, k2)
                    /\ Leads(b, c, 2, Times(m, r \o w), q, k2, q, k2)
                    /\ Leads(b, c, 2, Times(n, r), q, k2, << >>, FALSE)
<1>1. /\ Sends(b, c, k, w, u) /\ Reads(b, c, k, r, u)
      /\ Leads(b, c, 2, w, << >>, FALSE, u, k)
  BY Zenon DEF Pipes
<1>2. /\ w \in Seq(Steps) /\ r \in Seq(Steps) /\ u \in Seq(Calm) /\ r \o w \in Seq(Steps)
  <2>1. << >> \in Seq(Calm)
    BY EmptySeq
  <2>2. w \in Seq(Steps) /\ r \in Seq(Steps) /\ u \in Seq(Calm)
    BY <1>1, <2>1, Zenon DEF Sends, Reads, Leads
  <2> QED BY <2>2, ConcatProperties
<1>3. CASE n = 0
  <2>1. 0 \in Nat
    OBVIOUS
  <2>2. Times(n, w) = << >> /\ Times(n, r) = << >> /\ Times(m, r \o w) = << >>
    BY <1>2, <1>3, <2>1, TimesSteps, Zenon
  <2>3. /\ Leads(b, c, 2, Times(n, w), << >>, FALSE, << >>, FALSE)
        /\ Leads(b, c, 2, Times(m, r \o w), << >>, FALSE, << >>, FALSE)
        /\ Leads(b, c, 2, Times(n, r), << >>, FALSE, << >>, FALSE)
    BY <2>2, Nothing
  <2> QED BY <2>3, Zenon
<1>4. CASE n # 0
  <2>1. PICK i \in Nat : n = i + 1
    <3>1. n - 1 \in Nat /\ n = (n - 1) + 1
      BY <1>4
    <3> QED BY <3>1
  <2> DEFINE q == Repeated(n, u)
  <2>2. Leads(b, c, 2, Times(n, w), << >>, FALSE, q, k)
    BY <1>1, <2>1, SendLoop, Zenon
  <2>3. Leads(b, c, 2, Times(n, r), q, k, << >>, FALSE)
    <3>1. Leads(b, c, 2, Times(n, r), q, k, << >>, k)
      BY <1>1, ReadLoop, Zenon
    <3>2. FALSE \in BOOLEAN /\ TRUE \in BOOLEAN
      OBVIOUS
    <3>3. k = TRUE => Leads(b, c, 2, Times(n, r), q, k, << >>, FALSE)
      BY <3>1, <3>2, Weakened
    <3>4. k = FALSE => Leads(b, c, 2, Times(n, r), q, k, << >>, FALSE)
      BY <3>1
    <3> QED BY <3>3, <3>4
  <2>4. Leads(b, c, 2, r \o w, q, k, q, k)
    <3>1. /\ q = u \o Repeated(i, u) /\ q = Repeated(i, u) \o u /\ Repeated(i, u) \in Seq(Calm)
      BY <1>2, <2>1, RepeatedCalm, Zenon
    <3>2. Leads(b, c, 2, r, u \o Repeated(i, u), k, Repeated(i, u), k)
      BY <1>1, <3>1, Zenon DEF Reads
    <3>3. Leads(b, c, 2, w, Repeated(i, u), k, Repeated(i, u) \o u, k)
      BY <1>1, <3>1, Zenon DEF Sends
    <3>4. Leads(b, c, 2, r \o w, u \o Repeated(i, u), k, Repeated(i, u) \o u, k)
      BY <3>2, <3>3, InTurn, Zenon
    <3> QED BY <3>1, <3>4, Zenon
  <2> HIDE DEF q
  <2>5. Leads(b, c, 2, Times(m, r \o w), q, k, q, k)
    BY <2>4, Repeats, Zenon
  <2> QED BY <2>2, <2>3, <2>5, Zenon
<1> QED BY <1>3, <1>4

LEMMA PipesOne ==
  ASSUME NEW b \in BOOLEAN, NEW c \in Pipelined, NEW k \in BOOLEAN, NEW op \in Ops(b) \cap Calm,
         Owes(b, op) = <<op>>
  PROVE  Sends(b, c, k, Write(op), <<op>>) /\ Reads(b, c, k, Read(op, ReplyLength(b, op)), <<op>>)
BY SendsOne, ReadsOne, Zenon

LEMMA BeriPipes ==
  ASSUME NEW c \in Pipelined
  PROVE  /\ \A op \in {LOAD_OPERAND_A, LOAD_OPERAND_B, LOAD_INSTRUCTION, EXECUTE_INSTRUCTION} :
              Sends(FALSE, c, FALSE, Write(op), <<op>>) /\ Reads(FALSE, c, FALSE, Read(op, 0), <<op>>)
         /\ Sends(FALSE, c, FALSE, Write(REPORT_DESTINATION), <<REPORT_DESTINATION>>)
         /\ Reads(FALSE, c, FALSE, Read(REPORT_DESTINATION, 8), <<REPORT_DESTINATION>>)
<1> DEFINE O == {LOAD_OPERAND_A, LOAD_OPERAND_B, LOAD_INSTRUCTION, EXECUTE_INSTRUCTION}
<1>1. /\ \A op \in O \cup {REPORT_DESTINATION} :
           op \in Ops(FALSE) \cap Calm /\ Owes(FALSE, op) = <<op>>
      /\ \A op \in O : ReplyLength(FALSE, op) = 0
      /\ ReplyLength(FALSE, REPORT_DESTINATION) = 8
  BY DEF LOAD_OPERAND_A, LOAD_OPERAND_B, LOAD_INSTRUCTION, EXECUTE_INSTRUCTION, REPORT_DESTINATION,
         Ops, Calm, Owes, SetOps, PAUSEPIPELINE, RESUMEPIPELINE, RESUMEUNPIPELINED,
         RESUMESTREAMING, Streamed, RESET, STREAM_TRACE_START, ReplyLength, PAUSE_EXECUTION,
         UNPIPELINE_EXECUTION
<1> HIDE DEF O
<1>2. \A op \in O \cup {REPORT_DESTINATION} :
        /\ Sends(FALSE, c, FALSE, Write(op), <<op>>)
        /\ Reads(FALSE, c, FALSE, Read(op, ReplyLength(FALSE, op)), <<op>>)
  <2>1. FALSE \in BOOLEAN
    OBVIOUS
  <2> QED BY <1>1, <2>1, PipesOne, Zenon
<1>3. \A op \in O : Sends(FALSE, c, FALSE, Write(op), <<op>>) /\ Reads(FALSE, c, FALSE, Read(op, 0), <<op>>)
  BY <1>1, <1>2
<1>4. /\ Sends(FALSE, c, FALSE, Write(REPORT_DESTINATION), <<REPORT_DESTINATION>>)
      /\ Reads(FALSE, c, FALSE, Read(REPORT_DESTINATION, 8), <<REPORT_DESTINATION>>)
  BY <1>1, <1>2
<1> QED BY <1>3, <1>4 DEF O

LEMMA SendsFirst ==
  ASSUME NEW b, NEW c, NEW k, NEW w, NEW u, Sends(b, c, k, w, u)
  PROVE  Leads(b, c, 2, w, << >>, k, u, k)
<1>1. << >> \in Seq(Calm) /\ << >> \o u = u
  BY CalmSequences, Zenon DEF Sends
<1>2. Leads(b, c, 2, w, << >>, k, << >> \o u, k)
  BY <1>1, Zenon DEF Sends
<1> QED BY <1>1, <1>2

LEMMA BeriPipelined ==
  ASSUME NEW c \in Pipelined
  PROVE  /\ \E u : Pipes(FALSE, c, FALSE, get_reg_pipelined_send(FALSE), get_reg_pipelined_response(FALSE), u)
         /\ \E u : Pipes(FALSE, c, FALSE, sd_pipelined_send(FALSE), sd_pipelined_response(FALSE), u)
         /\ \E u : Pipes(FALSE, c, FALSE, Write(LOAD_INSTRUCTION) \o Write(EXECUTE_INSTRUCTION),
                         Read(LOAD_INSTRUCTION, 0) \o Read(EXECUTE_INSTRUCTION, 0), u)
<1> DEFINE S(w, u) == Sends(FALSE, c, FALSE, w, u)
           R(r, u) == Reads(FALSE, c, FALSE, r, u)
<1>1. /\ \A w, u, w2, u2 : S(w, u) /\ S(w2, u2) => S(w \o w2, u \o u2)
      /\ \A r, u, r2, u2 : R(r, u) /\ R(r2, u2) => R(r \o r2, u \o u2)
  BY SendsJoined, ReadsJoined, Zenon
<1>2. /\ S(Write(LOAD_OPERAND_A), <<LOAD_OPERAND_A>>) /\ R(Read(LOAD_OPERAND_A, 0), <<LOAD_OPERAND_A>>)
      /\ S(Write(LOAD_OPERAND_B), <<LOAD_OPERAND_B>>) /\ R(Read(LOAD_OPERAND_B, 0), <<LOAD_OPERAND_B>>)
      /\ S(Write(LOAD_INSTRUCTION), <<LOAD_INSTRUCTION>>)
      /\ R(Read(LOAD_INSTRUCTION, 0), <<LOAD_INSTRUCTION>>)
      /\ S(Write(EXECUTE_INSTRUCTION), <<EXECUTE_INSTRUCTION>>)
      /\ R(Read(EXECUTE_INSTRUCTION, 0), <<EXECUTE_INSTRUCTION>>)
      /\ S(Write(REPORT_DESTINATION), <<REPORT_DESTINATION>>)
      /\ R(Read(REPORT_DESTINATION, 8), <<REPORT_DESTINATION>>)
  BY BeriPipes
<1>3. \A w, r, u : S(w, u) /\ R(r, u) => Pipes(FALSE, c, FALSE, w, r, u)
  BY SendsFirst, Zenon DEF Pipes
<1> HIDE DEF S, R
<1> DEFINE a == <<LOAD_OPERAND_A>>
           o == <<LOAD_OPERAND_B>>
           i == <<LOAD_INSTRUCTION>>
           e == <<EXECUTE_INSTRUCTION>>
           d == <<REPORT_DESTINATION>>
<1> HIDE DEF a, o, i, e, d
<1>4. /\ S(Write(LOAD_INSTRUCTION) \o Write(EXECUTE_INSTRUCTION), i \o e)
      /\ R(Read(LOAD_INSTRUCTION, 0) \o Read(EXECUTE_INSTRUCTION, 0), i \o e)
  BY <1>1, <1>2, Zenon DEF i, e
<1>5. S(get_reg_pipelined_send(FALSE), (i \o e) \o d) /\ R(get_reg_pipelined_response(FALSE), (i \o e) \o d)
  BY <1>1, <1>2, <1>4, Zenon DEF d, get_reg_pipelined_send, get_reg_pipelined_response
<1>6. /\ S(Write(LOAD_OPERAND_A) \o Write(LOAD_OPERAND_B), a \o o)
      /\ R(Read(LOAD_OPERAND_A, 0) \o Read(LOAD_OPERAND_B, 0), a \o o)
  BY <1>1, <1>2, Zenon DEF a, o
<1>7. /\ S((Write(LOAD_OPERAND_A) \o Write(LOAD_OPERAND_B)) \o Write(LOAD_INSTRUCTION), (a \o o) \o i)
      /\ R((Read(LOAD_OPERAND_A, 0) \o Read(LOAD_OPERAND_B, 0)) \o Read(LOAD_INSTRUCTION, 0), (a \o o) \o i)
  BY <1>1, <1>2, <1>6, Zenon DEF i
<1>8. S(sd_pipelined_send(FALSE), ((a \o o) \o i) \o e) /\ R(sd_pipelined_response(FALSE), ((a \o o) \o i) \o e)
  BY <1>1, <1>2, <1>7, Zenon DEF e, sd_pipelined_send, sd_pipelined_response
<1> QED BY <1>3, <1>4, <1>5, <1>8, Zenon

LEMMA Beri2Pipelined ==
  ASSUME NEW c \in Pipelined
  PROVE  /\ Pipes(TRUE, c, TRUE, get_reg_pipelined_send(TRUE), get_reg_pipelined_response(TRUE),
                  <<GETREGISTER>>)
         /\ Pipes(TRUE, c, TRUE, sd_pipelined_send(TRUE), sd_pipelined_response(TRUE),
                  <<SETDOUBLEWORD>>)
<1>1. /\ \A op \in {GETREGISTER, SETDOUBLEWORD} :
           op \in Ops(TRUE) \cap Calm /\ Owes(TRUE, op) = <<op>>
      /\ ReplyLength(TRUE, GETREGISTER) = 8 /\ ReplyLength(TRUE, SETDOUBLEWORD) = 0
  BY DEF GETREGISTER, SETDOUBLEWORD, Ops, Calm, Owes, SetOps, PAUSEPIPELINE, RESUMEPIPELINE,
         RESUMEUNPIPELINED, RESUMESTREAMING, Streamed, RESET, STREAM_TRACE_START, ReplyLength,
         GETPC, GETDOUBLEWORD, GETWORD, GETHALFWORD, GETBYTE, GETC2REGISTER
<1>2. TRUE \in BOOLEAN /\ FALSE \in BOOLEAN
  OBVIOUS
<1>3. /\ \A op \in {GETREGISTER, SETDOUBLEWORD} :
           /\ Sends(TRUE, c, TRUE, Write(op), <<op>>)
           /\ Reads(TRUE, c, TRUE, Read(op, ReplyLength(TRUE, op)), <<op>>)
  BY <1>1, <1>2, PipesOne, Zenon
<1>4. /\ Sends(TRUE, c, TRUE, NeedPaused, << >>) /\ Reads(TRUE, c, TRUE, NeedPaused, << >>)
      /\ Leads(TRUE, c, 2, NeedPaused, << >>, FALSE, << >>, TRUE)
  <2>1. << >> \in Seq(Calm) /\ \A q \in Seq(Calm) : q \o << >> = q /\ << >> \o q = q
    BY CalmSequences, Zenon
  <2>2. Leads(TRUE, c, 2, NeedPaused, << >>, FALSE, << >>, TRUE)
    BY <1>2, <2>1, NeedPausedLeads
  <2>3. \A q \in Seq(Calm) : Leads(TRUE, c, 2, NeedPaused, q, TRUE, q, TRUE)
    BY <1>2, NeedPausedLeads
  <2>4. /\ \A q \in Seq(Calm) : Leads(TRUE, c, 2, NeedPaused, q, TRUE, q \o << >>, TRUE)
        /\ \A q \in Seq(Calm) : Leads(TRUE, c, 2, NeedPaused, << >> \o q, TRUE, q, TRUE)
    BY <2>1, <2>3
  <2> QED BY <2>1, <2>2, <2>4, Zenon DEF Sends, Reads
<1>5. \A op \in {GETREGISTER, SETDOUBLEWORD} :
        /\ Sends(TRUE, c, TRUE, NeedPaused \o Write(op), <<op>>)
        /\ Reads(TRUE, c, TRUE, NeedPaused \o Read(op, ReplyLength(TRUE, op)), <<op>>)
        /\ Leads(TRUE, c, 2, NeedPaused \o Write(op), << >>, FALSE, <<op>>, TRUE)
  <2> TAKE op \in {GETREGISTER, SETDOUBLEWORD}
  <2> HIDE DEF Calm
  <2>1. << >> \o <<op>> = <<op>>
    <3>1. <<op>> \in Seq(Calm)
      BY <1>1
    <3> QED BY <3>1, CalmSequences, Zenon
  <2>2. /\ Sends(TRUE, c, TRUE, NeedPaused \o Write(op), << >> \o <<op>>)
        /\ Reads(TRUE, c, TRUE, NeedPaused \o Read(op, ReplyLength(TRUE, op)), << >> \o <<op>>)
    BY <1>3, <1>4, SendsJoined, ReadsJoined, Zenon
  <2>3. Leads(TRUE, c, 2, Write(op), << >>, TRUE, <<op>>, TRUE)
    BY <1>3, SendsFirst, Zenon
  <2>4. Leads(TRUE, c, 2, NeedPaused \o Write(op), << >>, FALSE, <<op>>, TRUE)
    BY <1>4, <2>3, InTurn, Zenon
  <2> QED BY <2>1, <2>2, <2>4
<1>6. /\ Sends(TRUE, c, TRUE, get_reg_pipelined_send(TRUE), <<GETREGISTER>>)
      /\ Reads(TRUE, c, TRUE, get_reg_pipelined_response(TRUE), <<GETREGISTER>>)
      /\ Leads(TRUE, c, 2, get_reg_pipelined_send(TRUE), << >>, FALSE, <<GETREGISTER>>, TRUE)
  BY <1>1, <1>5 DEF get_reg_pipelined_send, get_reg_pipelined_response
<1>7. /\ Sends(TRUE, c, TRUE, sd_pipelined_send(TRUE), <<SETDOUBLEWORD>>)
      /\ Reads(TRUE, c, TRUE, sd_pipelined_response(TRUE), <<SETDOUBLEWORD>>)
      /\ Leads(TRUE, c, 2, sd_pipelined_send(TRUE), << >>, FALSE, <<SETDOUBLEWORD>>, TRUE)
  BY <1>1, <1>3, <1>5 DEF sd_pipelined_send, sd_pipelined_response
<1> QED BY <1>6, <1>7, Zenon DEF Pipes

(* For both kinds of debug unit.                                           *)
LEMMA Pipelines ==
  ASSUME NEW b \in BOOLEAN, NEW c \in Pipelined
  PROVE  /\ \E k \in BOOLEAN, u \in Seq(Calm) :
              Pipes(b, c, k, get_reg_pipelined_send(b), get_reg_pipelined_response(b), u)
         /\ \E k \in BOOLEAN, u \in Seq(Calm) :
              Pipes(b, c, k, sd_pipelined_send(b), sd_pipelined_response(b), u)
<1> USE DEF Pipes, Reads
<1>1. CASE b = TRUE
  <2>1. TRUE \in BOOLEAN
    OBVIOUS
  <2> QED BY <1>1, <2>1, Beri2Pipelined, Zenon
<1>2. CASE b = FALSE
  <2>1. FALSE \in BOOLEAN
    OBVIOUS
  <2> QED BY <1>2, <2>1, BeriPipelined, Zenon
<1> QED BY <1>1, <1>2

LEMMA PipesPlain ==
  ASSUME NEW b, NEW c, NEW k \in BOOLEAN, NEW w, NEW r, NEW u, Pipes(b, c, k, w, r, u)
  PROVE  /\ Plain(b, c, 2, w \o r)
         /\ \A n \in Nat : \A s : Plain(b, c, 2, s)
                                   => Plain(b, c, 2, s \o Times(n, w) \o Times(n, r))
<1>1. u \in Seq(Calm) /\ Sends(b, c, k, w, u) /\ Reads(b, c, k, r, u)
  BY Zenon DEF Pipes, Sends
<1>2. Plain(b, c, 2, w \o r)
  <2>1. << >> \in Seq(Calm) /\ u \o << >> = u
    BY <1>1, CalmSequences, Zenon
  <2>2. Leads(b, c, 2, r, u \o << >>, k, << >>, k)
    BY <1>1, <2>1, Zenon DEF Reads
  <2>3. Leads(b, c, 2, w \o r, << >>, FALSE, << >>, k)
    BY <2>1, <2>2, InTurn, Zenon DEF Pipes
  <2>4. FALSE \in BOOLEAN
    OBVIOUS
  <2> QED BY <2>3, <2>4, Weakened DEF Plain
<1>3. ASSUME NEW n \in Nat, NEW s, Plain(b, c, 2, s)
      PROVE  Plain(b, c, 2, s \o Times(n, w) \o Times(n, r))
  <2>1. PICK q, k2 : /\ Leads(b, c, 2, Times(n, w), << >>, FALSE, q, k2)
                     /\ Leads(b, c, 2, Times(n, r), q, k2, << >>, FALSE)
    <3>1. 0 \in Nat /\ (n = 0 => 0 = 0)
      OBVIOUS
    <3> QED BY <3>1, PipesLead, Zenon
  <2>2. Leads(b, c, 2, s \o Times(n, w), << >>, FALSE, q, k2)
    BY <1>3, <2>1, InTurn, Zenon DEF Plain
  <2> QED BY <2>1, <2>2, InTurn, Zenon DEF Plain
<1> QED BY <1>2, <1>3

-----------------------------------------------------------------------------
(* The commands.                                                           *)
LEMMA PausedPlain ==
  ASSUME NEW b \in BOOLEAN, NEW c, NEW s, Plain(b, c, 2, s)
  PROVE  /\ Plain(b, c, 1, Paused(s)) /\ Plain(b, c, 0, Paused(s))
         /\ Plain(b, c, 0, Guarded(s)) /\ Plain(b, c, 0, s) /\ Plain(b, c, 1, s)
<1>1. 2 \in 0 .. 2 /\ 1 \in 0 .. 2 /\ 1 \in 0 .. 1 /\ 0 \in 0 .. 1 /\ 0 \in 0 .. 2 /\ 1 + 1 = 2 /\ 0 + 1 = 1
  OBVIOUS
<1>2. Plain(b, c, 1, Paused(s)) /\ Plain(b, c, 1, s) /\ Plain(b, c, 0, s)
  BY <1>1, PausedLeads, PlainFewer, Zenon
<1>3. Plain(b, c, 0, Paused(s)) /\ Plain(b, c, 0, Guarded(s))
  BY <1>1, <1>2, PausedLeads, PlainGuarded, Zenon
<1> QED BY <1>2, <1>3

LEMMA CommandsPlain ==
  ASSUME NEW b \in BOOLEAN, NEW c
  PROVE  /\ Plain(b, c, 1, berictl_pc(b)) /\ Plain(b, c, 0, berictl_pc(b))
         /\ Plain(b, c, 0, berictl_pause(b)) /\ Plain(b, c, 0, berictl_resume(b))
         /\ Plain(b, c, 0, berictl_step(b)) /\ Plain(b, c, 0, berictl_setpc(b))
         /\ Plain(b, c, 0, berictl_setreg(b)) /\ Plain(b, c, 0, berictl_setthread(b))
         /\ Plain(b, c, 0, berictl_lbu(b)) /\ Plain(b, c, 0, berictl_lhu(b))
         /\ Plain(b, c, 0, berictl_lwu(b)) /\ Plain(b, c, 0, berictl_ld(b))
         /\ Plain(b, c, 0, berictl_sb(b)) /\ Plain(b, c, 0, berictl_sh(b))
         /\ Plain(b, c, 0, berictl_sw(b)) /\ Plain(b, c, 0, berictl_sd(b))
         /\ Plain(b, c, 0, berictl_reset(b)) /\ Plain(b, c, 0, berictl_unpipeline(b))
         /\ Plain(b, c, 0, berictl_breakpoint(b)) /\ Plain(b, c, 0, berictl_breakpoint_w(b))
         /\ Plain(b, c, 0, berictl_stream_trace(b)) /\ Plain(b, c, 0, berictl_set_trace_filter(b))
         /\ Plain(b, c, 0, berictl_dumpatse(b)) /\ Plain(b, c, 0, berictl_dumpfifo(b))
         /\ Plain(b, c, 0, berictl_dumppic(b)) /\ Plain(b, c, 0, berictl_test_run(b))
         /\ Plain(b, c, 0, get_reg(b)) /\ Plain(b, c, 0, get_c0reg(b)) /\ Plain(b, c, 0, pcc_to_cr26(b))
         /\ Plain(b, c, 0, break_on_trace_filter(b)) /\ Plain(b, c, 0, Usage)
<1> DEFINE P(s) == Plain(b, c, 2, s)
           Q(s) == Plain(b, c, 0, s)
<1>1. /\ \A s, t : P(s) /\ P(t) => P(s \o t)
      /\ \A s, t : Q(s) /\ Q(t) => Q(s \o t)
  BY PlainJoined, Zenon
<1>2. \A s : P(s) => Q(Paused(s)) /\ Q(Guarded(s)) /\ Q(s)
  BY PausedPlain, Zenon
<1>3. /\ P(operands(b)) /\ P(get_pc(b)) /\ P(set_pc(b)) /\ P(set_reg(b)) /\ P(get_c0reg(b))
      /\ P(get_reg(b)) /\ P(pcc_to_cr26(b))
      /\ P(step_execution(b)) /\ P(set_thread(b))
  BY OperationsPlain
<1>4. /\ P(lbu(b)) /\ P(lhu(b)) /\ P(lwu(b)) /\ P(ld(b))
      /\ P(sb(b)) /\ P(sh(b)) /\ P(sw(b)) /\ P(sd(b))
  BY OperationsPlain
<1>5. /\ P(pause_execution(b)) /\ P(resume_execution(b)) /\ P(unpipeline_execution(b))
      /\ P(trace_filter_set(b)) /\ P(trace_filter_mask_set(b)) /\ P(break_on_trace_filter(b))
  BY OperationsPlain
<1>6. /\ P(breakpoint_set(b)) /\ P(breakpoint_clear(b)) /\ P(reset(b)) /\ P(breakpoint_wait(b))
      /\ P(set_pipeline_state(PAUSED)) /\ P(Usage)
  <2>1. P(breakpoint_set(b)) /\ P(breakpoint_clear(b))
    BY PlainBreakpoint DEF breakpoint_set, breakpoint_clear
  <2>2. P(reset(b)) /\ P(Usage) /\ P(set_pipeline_state(PAUSED))
    BY PlainReset, PlainUsage, SetStateLeads
  <2>3. P(breakpoint_wait(b))
    <3>1. FALSE \in BOOLEAN
      OBVIOUS
    <3> QED BY <3>1, WaitLeads, Zenon DEF Plain
  <2> QED BY <2>1, <2>2, <2>3
<1>7. P(stream_trace_start(b) \o Attempt(pop_trace_receive(b), Ignored))
  BY PlainStream
<1>8. /\ \A s : P(s) => P(Attempt(s, Caught))
      /\ \A s : Q(s) => Q(Attempt(s, Ignored))
  <2>1. 2 \in 0 .. 2 /\ 0 \in 0 .. 2 /\ Caught \in {Caught, Excepted, Ignored}
        /\ Ignored \in {Caught, Excepted, Ignored}
    OBVIOUS
  <2> QED BY <2>1, PlainAttempt, Zenon
<1>9. \A n \in Nat : \A s : P(s) => P(Times(n, s))
  BY PlainTimes, Zenon
<1>10. Plain(b, c, 1, berictl_pc(b))
  BY <1>3, PausedPlain, Zenon DEF berictl_pc
<1> HIDE DEF P, Q
<1>11. /\ P(get_pc(b) \o step_execution(b)) /\ P(set_pc(b) \o get_pc(b))
       /\ P(pause_execution(b) \o get_pc(b)) /\ P(set_pipeline_state(PAUSED) \o get_pc(b))
       /\ P(trace_filter_mask_set(b) \o trace_filter_set(b))
  BY <1>1, <1>3, <1>5, <1>6, Zenon
<1>12. /\ P((get_pc(b) \o step_execution(b)) \o get_pc(b))
       /\ P((set_pipeline_state(PAUSED) \o get_pc(b)) \o resume_execution(b))
  BY <1>1, <1>3, <1>5, <1>11, Zenon
<1>13. /\ Q(berictl_pc(b)) /\ Q(berictl_pause(b)) /\ Q(berictl_resume(b)) /\ Q(berictl_step(b))
       /\ Q(berictl_setpc(b)) /\ Q(berictl_setreg(b)) /\ Q(berictl_setthread(b))
       /\ Q(berictl_reset(b)) /\ Q(berictl_unpipeline(b)) /\ Q(berictl_breakpoint(b))
       /\ Q(berictl_set_trace_filter(b))
  BY <1>2, <1>3, <1>5, <1>6, <1>11, <1>12, Zenon
     DEF berictl_pc, berictl_pause, berictl_resume, berictl_step, berictl_setpc, berictl_setreg,
         berictl_setthread, berictl_reset, berictl_unpipeline, berictl_breakpoint,
         berictl_set_trace_filter
<1>14. /\ Q(berictl_lbu(b)) /\ Q(berictl_lhu(b)) /\ Q(berictl_lwu(b)) /\ Q(berictl_ld(b))
       /\ Q(berictl_sb(b)) /\ Q(berictl_sh(b)) /\ Q(berictl_sw(b)) /\ Q(berictl_sd(b))
  BY <1>2, <1>4, Zenon
     DEF berictl_lbu, berictl_lhu, berictl_lwu, berictl_ld, berictl_sb, berictl_sh, berictl_sw,
         berictl_sd
<1>15. Q(berictl_breakpoint_w(b))
  <2>1. Q(breakpoint_wait(b)) /\ Q(breakpoint_clear(b))
    BY <1>2, <1>6, Zenon
  <2>2. Q(berictl_breakpoint(b) \o breakpoint_wait(b))
    BY <1>1, <1>13, <2>1, Zenon
  <2> QED BY <1>1, <2>1, <2>2, Zenon DEF berictl_breakpoint_w
<1>16. Q(berictl_stream_trace(b))
  <2>1. Batches \in Nat
    BY CountAssumption
  <2> QED BY <1>2, <1>7, <1>9, <2>1, Zenon DEF berictl_stream_trace
<1>17. ASSUME NEW s, P(s) PROVE Q(Dump(b, s))
  <2>1. Q(Attempt(Times(NDeviceRegs, s), Caught))
    <3>1. NDeviceRegs \in Nat
      BY CountAssumption
    <3> QED BY <1>2, <1>8, <1>9, <1>17, <3>1, Zenon
  <2>2. Q(berictl_pause(b) \o Attempt(Times(NDeviceRegs, s), Caught))
    BY <1>1, <1>13, <2>1, Zenon
  <2> QED BY <1>1, <1>13, <2>2, Zenon DEF Dump
<1>18. Q(berictl_dumpatse(b)) /\ Q(berictl_dumpfifo(b)) /\ Q(berictl_dumppic(b))
  BY <1>4, <1>17, Zenon DEF berictl_dumpatse, berictl_dumpfifo, berictl_dumppic
<1>19. Q(berictl_test_run(b))
  <2>1. Q(Attempt(berictl_pause(b), Ignored) \o berictl_stream_trace(b))
    BY <1>1, <1>8, <1>13, <1>16, Zenon
  <2>2. Q((Attempt(berictl_pause(b), Ignored) \o berictl_stream_trace(b)) \o berictl_setpc(b))
    BY <1>1, <1>13, <2>1, Zenon
  <2>3. Q(((Attempt(berictl_pause(b), Ignored) \o berictl_stream_trace(b)) \o berictl_setpc(b))
             \o berictl_stream_trace(b))
    BY <1>1, <1>16, <2>2, Zenon
  <2> QED BY <1>1, <1>13, <2>3, Zenon DEF berictl_test_run
<1>20. Q(get_reg(b)) /\ Q(get_c0reg(b)) /\ Q(pcc_to_cr26(b)) /\ Q(break_on_trace_filter(b)) /\ Q(Usage)
  BY <1>2, <1>3, <1>5, <1>6, Zenon
<1> QED BY <1>10, <1>13, <1>14, <1>15, <1>16, <1>18, <1>19, <1>20, Zenon DEF Q

LEMMA RegistersPlain ==
  ASSUME NEW b \in BOOLEAN, NEW c \in Pipelined
  PROVE  /\ Plain(b, c, 0, berictl_regs(b)) /\ Plain(b, c, 0, berictl_c0regs(b))
         /\ Plain(b, c, 0, berictl_c2regs(b))
<1>1. /\ Plain(b, c, 2, pause_execution(b)) /\ Plain(b, c, 2, operands(b))
      /\ Plain(b, c, 1, pause_execution(b)) /\ Plain(b, c, 1, operands(b))
  BY OperationsPlain, PausedPlain, Zenon
<1>2. /\ NRegs \in Nat /\ NC0Regs \in Nat /\ NCapRegs \in Nat /\ 6 \in Nat
      /\ 2 \in 0 .. 2 /\ 1 \in 0 .. 2 /\ 0 \in 0 .. 1 /\ 0 + 1 = 1
  BY CountAssumption
<1>3. PICK k \in BOOLEAN, u \in Seq(Calm) :
        Pipes(b, c, k, get_reg_pipelined_send(b), get_reg_pipelined_response(b), u)
  BY Pipelines, Zenon
<1>4. Plain(b, c, 0, berictl_regs(b))
  <2> DEFINE s == pause_execution(b) \o berictl_pc(b) \o operands(b)
             w == Times(NRegs, get_reg_pipelined_send(b))
             r == Times(NRegs, get_reg_pipelined_response(b))
  <2>1. Plain(b, c, 1, s)
    <3>1. Plain(b, c, 1, pause_execution(b) \o berictl_pc(b))
      BY <1>1, CommandsPlain, PlainJoined, Zenon
    <3> QED BY <1>1, <3>1, PlainJoined, Zenon
  <2>2. PICK q, k2 : Leads(b, c, 2, w, << >>, FALSE, q, k2) /\ Leads(b, c, 2, r, q, k2, << >>, FALSE)
    <3>1. 0 \in Nat /\ (NRegs = 0 => 0 = 0)
      OBVIOUS
    <3> QED BY <1>2, <1>3, <3>1, PipesLead, Zenon
  <2> HIDE DEF s, w, r
  <2>3. Leads(b, c, 1, w, << >>, FALSE, q, k2) /\ Leads(b, c, 1, r, q, k2, << >>, FALSE)
    <3>1. 0 .. 1 \subseteq 0 .. 2
      OBVIOUS
    <3> QED BY <2>2, <3>1, Zenon DEF Leads
  <2>4. Leads(b, c, 1, s \o w, << >>, FALSE, q, k2)
    BY <2>1, <2>3, InTurn, Zenon DEF Plain
  <2>5. Plain(b, c, 1, (s \o w) \o r)
    BY <2>3, <2>4, InTurn, Zenon DEF Plain
  <2>6. Plain(b, c, 0, Paused((s \o w) \o r))
    BY <1>2, <2>5, PausedLeads, Zenon
  <2> QED BY <2>6 DEF berictl_regs, s, w, r
<1>5. Plain(b, c, 0, berictl_c0regs(b))
  <2> DEFINE s == pause_execution(b) \o operands(b)
             w == Times(NC0Regs, get_c0reg_pipelined_send(b))
             r == Times(NC0Regs, get_reg_pipelined_response(b))
  <2>1. Plain(b, c, 2, s)
    BY <1>1, PlainJoined, Zenon
  <2>2. PICK q, k2 : Leads(b, c, 2, w, << >>, FALSE, q, k2) /\ Leads(b, c, 2, r, q, k2, << >>, FALSE)
    <3>1. 0 \in Nat /\ (NC0Regs = 0 => 0 = 0)
      OBVIOUS
    <3>2. PICK q, k2 : /\ Leads(b, c, 2, Times(NC0Regs, get_reg_pipelined_send(b)), << >>, FALSE, q, k2)
                       /\ Leads(b, c, 2, r, q, k2, << >>, FALSE)
      BY <1>2, <1>3, <3>1, PipesLead, Zenon
    <3>3. CASE b = FALSE
      BY <3>2, <3>3, Zenon DEF get_c0reg_pipelined_send, OnlyBeri
    <3>4. CASE b = TRUE /\ NC0Regs = 0
      <4>1. Usage \in Seq(Steps) /\ get_reg_pipelined_response(b) \in Seq(Steps)
        <5>1. Plain(b, c, 2, Usage)
          BY PlainUsage
        <5>2. \E x, y, v, z : Leads(b, c, 2, get_reg_pipelined_response(b), x, y, v, z)
          BY <3>4, GetRegisterLeads, Zenon
        <5> QED BY <5>1, <5>2, Zenon DEF Plain, Leads
      <4>2. w = << >> /\ r = << >>
        BY <3>4, <4>1, <1>2, TimesSteps, Zenon DEF get_c0reg_pipelined_send, OnlyBeri
      <4> QED BY <4>2, Nothing
    <3>5. CASE b = TRUE /\ NC0Regs # 0
      <4>1. PICK n \in Nat : NC0Regs = n + 1
        <5>1. NC0Regs - 1 \in Nat /\ NC0Regs = (NC0Regs - 1) + 1
          BY <1>2, <3>5
        <5> QED BY <5>1
      <4>2. Usage \in Seq(Steps) /\ Plain(b, c, 2, Usage)
        BY PlainUsage DEF Plain, Leads
      <4>3. Times(n + 1, Usage) = Times(n, Usage) \o Usage
        BY <4>2, TimesSteps
      <4>4. Leads(b, c, 2, Times(n, Usage), << >>, FALSE, << >>, FALSE)
        BY <4>2, PlainTimes, Zenon DEF Plain
      <4>5. Leads(b, c, 2, Usage, << >>, FALSE, q, k2)
        <5>1. FALSE \in BOOLEAN
          OBVIOUS
        <5> QED BY <5>1, UsageLeads, Zenon
      <4>6. Leads(b, c, 2, Times(n + 1, Usage), << >>, FALSE, q, k2)
        BY <4>3, <4>4, <4>5, InTurn, Zenon
      <4>7. w = Times(n + 1, Usage)
        BY <3>5, <4>1 DEF get_c0reg_pipelined_send, OnlyBeri
      <4> QED BY <3>2, <4>6, <4>7, Zenon
    <3> QED BY <3>3, <3>4, <3>5
  <2> HIDE DEF s, w, r
  <2>3. Leads(b, c, 2, s \o w, << >>, FALSE, q, k2)
    BY <2>1, <2>2, InTurn, Zenon DEF Plain
  <2>4. Plain(b, c, 2, (s \o w) \o r)
    BY <2>2, <2>3, InTurn, Zenon DEF Plain
  <2>5. Plain(b, c, 0, Paused((s \o w) \o r))
    BY <2>4, PausedPlain, Zenon
  <2> QED BY <2>5 DEF berictl_c0regs, s, w, r
<1>6. Plain(b, c, 0, berictl_c2regs(b))
  <2>1. Plain(b, c, 2, get_c2reg(b))
    <3>1. CASE b = TRUE
      BY <3>1, OperationsOfBeri2, Zenon
    <3>2. CASE b = FALSE
      <4>1. Plain(b, c, 2, get_c2reg_field(b))
        BY <1>3, <3>2, PipesPlain, Zenon DEF get_c2reg_field
      <4>2. Plain(b, c, 2, Times(6, get_c2reg_field(b)))
        BY <1>2, <4>1, PlainTimes, Zenon
      <4> QED BY <3>2, <4>2 DEF get_c2reg
    <3> QED BY <3>1, <3>2
  <2>2. Plain(b, c, 2, Times(NCapRegs, get_c2reg(b)))
    BY <1>2, <2>1, PlainTimes, Zenon
  <2>3. Plain(b, c, 2, pause_execution(b) \o Times(NCapRegs, get_c2reg(b)))
    BY <1>1, <2>2, PlainJoined, Zenon
  <2> QED BY <2>3, PausedPlain, Zenon DEF berictl_c2regs
<1> QED BY <1>4, <1>5, <1>6

LEMMA LoadbinPlain ==
  ASSUME NEW b \in BOOLEAN, NEW c \in Pipelined
  PROVE  Plain(b, c, 0, berictl_loadbin(b))
<1> DEFINE w == Times(Window, sd_pipelined_send(b))
           m == Times(FileWords - Window, sd_pipelined_response(b) \o sd_pipelined_send(b))
           r == Times(Window, sd_pipelined_response(b))
           t == Times(FileTail, sb(b))
<1>1. Window \in Nat /\ FileWords - Window \in Nat /\ (Window = 0 => FileWords - Window = 0)
  BY CountAssumption DEF Window
<1>2. PICK q, k : /\ Leads(b, c, 2, w, << >>, FALSE, q, k)
                  /\ Leads(b, c, 2, m, q, k, q, k)
                  /\ Leads(b, c, 2, r, q, k, << >>, FALSE)
  <2>1. PICK k \in BOOLEAN, u \in Seq(Calm) :
          Pipes(b, c, k, sd_pipelined_send(b), sd_pipelined_response(b), u)
    BY Pipelines, Zenon
  <2> QED BY <1>1, <2>1, PipesLead, Zenon
<1>3. Plain(b, c, 2, t)
  <2>1. Plain(b, c, 2, sb(b)) /\ FileTail \in Nat
    BY OperationsPlain, CountAssumption
  <2> QED BY <2>1, PlainTimes, Zenon
<1> HIDE DEF w, m, r, t
<1>4. Leads(b, c, 2, w \o m, << >>, FALSE, q, k)
  BY <1>2, InTurn, Zenon
<1>5. Plain(b, c, 2, (w \o m) \o r)
  BY <1>2, <1>4, InTurn, Zenon DEF Plain
<1>6. Plain(b, c, 2, ((w \o m) \o r) \o t)
  BY <1>3, <1>5, PlainJoined, Zenon
<1>7. Plain(b, c, 0, Paused(((w \o m) \o r) \o t))
  BY <1>6, PausedPlain, Zenon
<1> QED BY <1>7 DEF berictl_loadbin, w, m, r, t

LEMMA PipelinedPlain ==
  ASSUME NEW b \in BOOLEAN, NEW c \in Pipelined
  PROVE  /\ Plain(b, c, 0, test(b)) /\ Plain(b, c, 0, control_test(b))
         /\ Plain(b, c, 0, invalidateicache(b))
         /\ Plain(b, c, 0, get_c2reg_pipelined_send(b) \o get_reg_pipelined_response(b))
         /\ Plain(b, c, 0, nop_pipelined_send(b) \o nop_pipelined_response(b))
<1> DEFINE Q(s) == Plain(b, c, 0, s)
<1>1. \A s, t : Q(s) /\ Q(t) => Q(s \o t)
  BY PlainJoined, Zenon
<1>2. \A s : Q(s) => Q(Whatever(s))
  <2>1. 0 \in 0 .. 2 /\ Ignored \in {Caught, Excepted, Ignored}
    OBVIOUS
  <2> QED BY <2>1, PlainAttempt, Zenon DEF Whatever
<1>3. Q(berictl_pause(b)) /\ Q(berictl_reset(b)) /\ Q(berictl_test_run(b)) /\ Q(berictl_loadbin(b))
  BY CommandsPlain, LoadbinPlain, Zenon
<1>4. Q(berictl_regs(b)) /\ Q(berictl_c2regs(b)) /\ Q(berictl_c0regs(b))
  BY RegistersPlain, Zenon
<1> HIDE DEF Q
<1>5. Q(berictl_test_report(b))
  <2>1. Q(berictl_regs(b) \o berictl_c2regs(b))
    BY <1>1, <1>4, Zenon
  <2> QED BY <1>1, <1>4, <2>1, Zenon DEF berictl_test_report
<1>6. Q(control_test(b))
  <2>1. Q(Whatever(berictl_test_run(b)))
    BY <1>2, <1>3, Zenon
  <2> QED BY <1>1, <1>5, <2>1, Zenon DEF control_test
<1>7. Q(test(b))
  <2> DEFINE p == Whatever(berictl_pause(b))
             l == Whatever(berictl_loadbin(b))
             e == Whatever(berictl_reset(b))
             t == Whatever(berictl_test_run(b))
             o == Whatever(berictl_test_report(b))
  <2>1. Q(p) /\ Q(l) /\ Q(e) /\ Q(t) /\ Q(o)
    BY <1>2, <1>3, <1>5, Zenon
  <2> HIDE DEF p, l, e, t, o
  <2>2. Q((p \o p) \o l)
    <3>1. Q(p \o p)
      BY <1>1, <2>1, Zenon
    <3> QED BY <1>1, <2>1, <3>1, Zenon
  <2>3. Q((((p \o p) \o l) \o e) \o t)
    <3>1. Q(((p \o p) \o l) \o e)
      BY <1>1, <2>1, <2>2, Zenon
    <3> QED BY <1>1, <2>1, <3>1, Zenon
  <2>4. Q((((((p \o p) \o l) \o e) \o t) \o o) \o p)
    <3>1. Q(((((p \o p) \o l) \o e) \o t) \o o)
      BY <1>1, <2>1, <2>3, Zenon
    <3> QED BY <1>1, <2>1, <3>1, Zenon
  <2>5. Q(((((((p \o p) \o l) \o e) \o t) \o o) \o p) \o l)
    BY <1>1, <2>1, <2>4, Zenon
  <2> QED BY <2>5 DEF test, p, l, e, t, o
<1>8. Q(invalidateicache(b))
  <2>1. CASE b = TRUE
    <3>1. Q(Usage)
      BY CommandsPlain, Zenon DEF Q
    <3> QED BY <2>1, <3>1 DEF invalidateicache, OnlyBeri
  <2>2. CASE b = FALSE
    <3> DEFINE w == Write(LOAD_INSTRUCTION) \o Write(EXECUTE_INSTRUCTION)
               r == Read(LOAD_INSTRUCTION, 0) \o Read(EXECUTE_INSTRUCTION, 0)
    <3>1. PICK u : Pipes(b, c, FALSE, w, r, u)
      BY <2>2, BeriPipelined, Zenon
    <3>2. NCacheLines \in Nat /\ FALSE \in BOOLEAN /\ Plain(b, c, 2, operands(b))
      BY CountAssumption, OperationsPlain
    <3>3. Plain(b, c, 2, operands(b) \o Times(NCacheLines, w) \o Times(NCacheLines, r))
      BY <3>1, <3>2, PipesPlain, Zenon
    <3>4. Q(operands(b) \o Times(NCacheLines, w) \o Times(NCacheLines, r))
      BY <3>3, PausedPlain, Zenon DEF Q
    <3> QED BY <2>2, <3>4 DEF invalidateicache, OnlyBeri
  <2> QED BY <2>1, <2>2
<1>9. Q(get_c2reg_pipelined_send(b) \o get_reg_pipelined_response(b))
  <2>1. Plain(b, c, 2, get_c2reg_pipelined_send(b) \o get_reg_pipelined_response(b))
    <3>1. CASE b = TRUE
      <4>1. FALSE \in BOOLEAN /\ TRUE \in BOOLEAN
        OBVIOUS
      <4>2. Leads(b, c, 2, Usage, << >>, FALSE, <<GETREGISTER>>, TRUE)
        BY <4>1, UsageLeads, Zenon
      <4>3. Leads(b, c, 2, Usage \o get_reg_pipelined_response(b), << >>, FALSE, << >>, TRUE)
        BY <3>1, <4>2, GetRegisterLeads, InTurn, Zenon
      <4>4. Plain(b, c, 2, Usage \o get_reg_pipelined_response(b))
        BY <4>1, <4>3, Weakened DEF Plain
      <4> QED BY <3>1, <4>4 DEF get_c2reg_pipelined_send, OnlyBeri
    <3>2. CASE b = FALSE
      <4>1. PICK k \in BOOLEAN, u \in Seq(Calm) :
              Pipes(b, c, k, get_reg_pipelined_send(b), get_reg_pipelined_response(b), u)
        BY Pipelines, Zenon
      <4>2. Plain(b, c, 2, get_reg_pipelined_send(b) \o get_reg_pipelined_response(b))
        BY <4>1, PipesPlain, Zenon
      <4> QED BY <3>2, <4>2 DEF get_c2reg_pipelined_send, OnlyBeri
    <3> QED BY <3>1, <3>2
  <2> QED BY <2>1, PausedPlain, Zenon DEF Q
<1>10. Q(nop_pipelined_send(b) \o nop_pipelined_response(b))
  <2>1. CASE b = TRUE
    <3>1. Q(Usage)
      BY CommandsPlain, Zenon DEF Q
    <3>2. Q(Usage \o Usage)
      BY <1>1, <3>1, Zenon
    <3> QED BY <2>1, <3>2 DEF nop_pipelined_send, nop_pipelined_response, OnlyBeri
  <2>2. CASE b = FALSE
    <3>1. PICK k \in BOOLEAN, u \in Seq(Calm) :
            Pipes(b, c, k, sd_pipelined_send(b), sd_pipelined_response(b), u)
      BY Pipelines, Zenon
    <3>2. Plain(b, c, 2, sd_pipelined_send(b) \o sd_pipelined_response(b))
      BY <3>1, PipesPlain, Zenon
    <3>3. Q(sd_pipelined_send(b) \o sd_pipelined_response(b))
      BY <3>2, PausedPlain, Zenon DEF Q
    <3> QED BY <2>2, <3>3 DEF nop_pipelined_send, nop_pipelined_response, OnlyBeri
  <2> QED BY <2>1, <2>2
<1> QED BY <1>6, <1>7, <1>8, <1>9, <1>10, Zenon DEF Q

(* Every command can begin.                                                *)
LEMMA CommandGood ==
  ASSUME NEW b \in BOOLEAN, NEW c \in Names
  PROVE  << <<>>, FALSE, 0, <<>>, Command(c, b) >> \in Good(b, c)
<1>1. ASSUME Plain(b, c, 0, Command(c, b))
      PROVE  << <<>>, FALSE, 0, <<>>, Command(c, b) >> \in Good(b, c)
  <2>1. << <<>>, FALSE, 0, <<>>, <<>> >> \in Good(b, c) /\ Failed(<< >>) \in Good(b, c)
    BY EndIsGood DEF Failed
  <2>2. Command(c, b) \in Seq(Steps) /\ << >> \in Seq(Steps) /\ << >> \in Seq(Frames)
    BY <1>1, EmptySeq DEF Plain, Leads
  <2>3. << <<>>, FALSE, 0, <<>>, Command(c, b) \o << >> >> \in Good(b, c)
    <3>1. 0 \in 0 .. 0
      OBVIOUS
    <3> QED BY <1>1, <2>1, <2>2, <3>1, Zenon DEF Plain, Leads
  <2> QED BY <2>2, <2>3, ConcatEmptySeq
<1> DEFINE Q(s) == Plain(b, c, 0, s)
<1>2. CASE c \in Loads \cup Stores
  <2>1. \A s \in {berictl_lbu(b), berictl_lhu(b), berictl_lwu(b), berictl_ld(b),
                  berictl_sb(b), berictl_sh(b), berictl_sw(b), berictl_sd(b)} : Q(s)
    BY CommandsPlain
  <2>2. Command(c, b) \in {berictl_lbu(b), berictl_lhu(b), berictl_lwu(b), berictl_ld(b),
                           berictl_sb(b), berictl_sh(b), berictl_sw(b), berictl_sd(b)}
    BY <1>2 DEF Command, Loads, Stores, SetAddrs, Traces, ZeroArgs, Devices, Files, run_load, run_store
  <2> QED BY <1>1, <2>1, <2>2
<1>3. CASE c \in SetAddrs \cup Devices \cup {"boot", "dumppic"}
  <2>1. \A s \in {berictl_setreg(b), berictl_breakpoint(b), berictl_breakpoint_w(b), berictl_setpc(b),
                  berictl_setthread(b), berictl_dumpatse(b), berictl_dumpfifo(b), berictl_dumppic(b)} : Q(s)
    BY CommandsPlain
  <2>2. Command(c, b) \in {berictl_setreg(b), berictl_breakpoint(b), berictl_breakpoint_w(b),
                           berictl_setpc(b), berictl_setthread(b), berictl_dumpatse(b),
                           berictl_dumpfifo(b), berictl_dumppic(b)}
    BY <1>3 DEF Command, Loads, Stores, SetAddrs, Devices, Traces, ZeroArgs, Files, run_setaddr,
                run_dumpdevice, run_boot, run_dumppic
  <2> QED BY <1>1, <2>1, <2>2
<1>4. CASE c \in (ZeroArgs \ {"c0regs", "c2regs", "regs", "drain"}) \cup {"streamtrace", "streamtrace usage"}
  <2>1. \A s \in {berictl_pause(b), berictl_pc(b), berictl_reset(b), berictl_resume(b),
                  berictl_unpipeline(b), berictl_set_trace_filter(b), break_on_trace_filter(b),
                  berictl_step(b), berictl_stream_trace(b), Usage} : Q(s)
    BY CommandsPlain
  <2>2. Command(c, b) \in {berictl_pause(b), berictl_pc(b), berictl_reset(b), berictl_resume(b),
                  berictl_unpipeline(b), berictl_set_trace_filter(b), break_on_trace_filter(b),
                  berictl_step(b), berictl_stream_trace(b), Usage}
    BY <1>4 DEF Command, Loads, Stores, SetAddrs, Traces, ZeroArgs, Devices, Files, run_zeroargs,
                run_trace
  <2> QED BY <1>1, <2>1, <2>2
<1>5. CASE c \in {"pcc_to_cr26", "get_reg", "get_c0reg", "loadbin usage"}
  <2>1. \A s \in {pcc_to_cr26(b), get_reg(b), get_c0reg(b), Usage} : Q(s)
    BY CommandsPlain
  <2>2. Command(c, b) \in {pcc_to_cr26(b), get_reg(b), get_c0reg(b), Usage}
    BY <1>5 DEF Command, Loads, Stores, SetAddrs, Traces, ZeroArgs, Devices, Files, run_loadfile
  <2> QED BY <1>1, <2>1, <2>2
<1>6. CASE c \in Pipelined
  <2>1. \A s \in {berictl_regs(b), berictl_c0regs(b), berictl_c2regs(b), berictl_loadbin(b), test(b),
                  control_test(b), invalidateicache(b),
                  get_c2reg_pipelined_send(b) \o get_reg_pipelined_response(b),
                  nop_pipelined_send(b) \o nop_pipelined_response(b)} : Q(s)
    BY <1>6, RegistersPlain, LoadbinPlain, PipelinedPlain
  <2>2. Command(c, b) \in {berictl_regs(b), berictl_c0regs(b), berictl_c2regs(b), berictl_loadbin(b),
                  test(b), control_test(b), invalidateicache(b),
                  get_c2reg_pipelined_send(b) \o get_reg_pipelined_response(b),
                  nop_pipelined_send(b) \o nop_pipelined_response(b)}
    BY <1>6 DEF Pipelined, Command, Loads, Stores, SetAddrs, Traces, ZeroArgs, Devices, Files,
                run_loadfile, run_zeroargs
  <2> QED BY <1>1, <2>1, <2>2
<1>7. << >> \in Seq(Nat) /\ << >> \in Seq(Frames) /\ << >> \in Seq(Steps) /\ FALSE \in BOOLEAN /\ 0 \in 0 .. 2
      /\ 0 \in Int
  BY EmptySeq
<1>8. CASE c = "drain"
  <2>1. Command(c, b) = Step("drain", 0, 0)
    BY <1>8 DEF Command, Loads, Stores, SetAddrs, Traces, ZeroArgs, Devices, Files, run_zeroargs,
                berictl_drain
  <2>2. StepFits(b, c, Good(b, c), << >>, FALSE, 0, << >>, [do |-> "drain", op |-> 0, arg |-> 0],
                 << >>, Step("drain", 0, 0) \o << >>)
    BY <1>8 DEF StepFits, DrainFits
  <2>3. "drain" \in Kinds
    BY DEF Kinds
  <2>4. << <<>>, FALSE, 0, <<>>, Step("drain", 0, 0) \o << >> >> \in Good(b, c)
    BY <1>7, <2>2, <2>3, StepFolds, Zenon
  <2>5. Step("drain", 0, 0) \o << >> = Step("drain", 0, 0)
    BY <1>7, <2>3, FirstStep, ConcatEmptySeq
  <2> QED BY <2>1, <2>4, <2>5
<1>9. CASE c = "memtrace"
  <2>1. Command(c, b) = Step("write", MEM_TRACE, 0)
    BY <1>9 DEF Command, Loads, Stores, SetAddrs, Traces, ZeroArgs, Devices, Files, run_trace,
                berictl_mem_trace, Write
  <2>2. MEM_TRACE \in Ops(b) /\ Owes(b, MEM_TRACE) = <<MEM_TRACE>> /\ MEM_TRACE \in Nat
    BY DEF Ops, Owes, MEM_TRACE, RESET, RESUMESTREAMING, STREAM_TRACE_START
  <2>3. << <<MEM_TRACE>>, FALSE, 0, <<>>, <<>> >> \in Good(b, c)
    <3>1. <<MEM_TRACE>> \in Seq(Nat)
      BY <2>2
    <3>2. << <<MEM_TRACE>>, FALSE, 0, <<>>, <<>> >> \in Configs
      BY <1>7, <3>1 DEF Configs
    <3>3. Fits(b, c, Good(b, c), <<MEM_TRACE>>, FALSE, 0, << >>, << >>)
      BY <1>9 DEF Fits, EndFits
    <3> QED BY <3>2, <3>3, GoodFolds
  <2>4. Leads(b, c, 2, Step("write", MEM_TRACE, 0), << >>, FALSE, << >> \o Owes(b, MEM_TRACE), FALSE)
    <3>1. 0 \in {0, 1}
      OBVIOUS
    <3> QED BY <1>7, <2>2, <3>1, WriteLeads, Zenon
  <2>5. << >> \o Owes(b, MEM_TRACE) = <<MEM_TRACE>>
    <3>1. <<MEM_TRACE>> \in Seq(Nat)
      BY <2>2
    <3> QED BY <2>2, <3>1, ConcatEmptySeq
  <2>6. Failed(<< >>) \in Good(b, c)
    BY EndIsGood DEF Failed
  <2>7. << <<>>, FALSE, 0, <<>>, Step("write", MEM_TRACE, 0) \o << >> >> \in Good(b, c)
    BY <1>7, <2>3, <2>4, <2>5, <2>6 DEF Leads
  <2>8. Step("write", MEM_TRACE, 0) \o << >> = Step("write", MEM_TRACE, 0)
    <3>1. Step("write", MEM_TRACE, 0) \in Seq(Steps)
      BY <2>4 DEF Leads
    <3> QED BY <3>1, ConcatEmptySeq
  <2> QED BY <2>1, <2>7, <2>8
<1>10. \/ c \in Loads \cup Stores \/ c \in SetAddrs \cup Devices \cup {"boot", "dumppic"}
       \/ c \in (ZeroArgs \ {"c0regs", "c2regs", "regs", "drain"}) \cup {"streamtrace", "streamtrace usage"}
       \/ c \in {"pcc_to_cr26", "get_reg", "get_c0reg", "loadbin usage"}
       \/ c \in Pipelined \/ c = "drain" \/ c = "memtrace"
  BY DEF Names, Traces, Library, Files, Pipelined, ZeroArgs
<1> QED BY <1>2, <1>3, <1>4, <1>5, <1>6, <1>8, <1>9, <1>10

-----------------------------------------------------------------------------
(* What the bytes on their way back can be.                                *)
LEMMA BytesRegroup == \A s, t, u \in Seq(Bytes) : (s \o t) \o u = s \o (t \o u)
BY Regroup

LEMMA PendingType ==
  ASSUME NEW m \in Modes
  PROVE  Pending(m) \in Seq(Nat)
BY DEF Pending, Modes, Streamed, STEP_EXECUTION

LEMMA OwedStarts ==
  ASSUME NEW b, NEW c \in Known, NEW m \in Modes
  PROVE  << <<>>, c, m, Pending(m), c >> \in Owed(b)
<1>1. << <<>>, c, m, Pending(m), c >> \in Streams
  <2>1. << >> \in Seq(Bytes) /\ Pending(m) \in Seq(Nat)
    BY EmptySeq, PendingType
  <2> QED BY <2>1, Zenon DEF Streams
<1>2. \A X \in SUBSET Streams : ClosedStreams(b, X) => << <<>>, c, m, Pending(m), c >> \in X
  BY Zenon DEF ClosedStreams
<1> QED BY <1>1, <1>2, Zenon DEF Owed

LEMMA OwedMoves ==
  ASSUME NEW b, NEW x \in Seq(Bytes), NEW p \in Seq(Bytes), NEW c \in Known, NEW u \in Known,
         NEW u2 \in Known, NEW m \in Modes, NEW m2 \in Modes, NEW t \in Seq(Nat), NEW tk \in Seq(Nat),
         <<x, c, m, t, u>> \in Owed(b), Moves(b, m, u, p, tk, m2, u2)
  PROVE  <<x \o p, c, m2, t \o tk, u2>> \in Owed(b)
<1>1. <<x \o p, c, m2, t \o tk, u2>> \in Streams
  <2>1. x \o p \in Seq(Bytes) /\ t \o tk \in Seq(Nat)
    BY ConcatProperties
  <2> QED BY <2>1, Zenon DEF Streams
<1>2. ASSUME NEW X \in SUBSET Streams, ClosedStreams(b, X)
      PROVE  <<x \o p, c, m2, t \o tk, u2>> \in X
  <2>1. <<x, c, m, t, u>> \in X
    BY <1>2, Zenon DEF Owed
  <2> QED BY <1>2, <2>1, Zenon DEF ClosedStreams
<1> QED BY <1>1, <1>2, Zenon DEF Owed

LEMMA OwedLeast ==
  ASSUME NEW b, NEW X \in SUBSET Streams, ClosedStreams(b, X)
  PROVE  Owed(b) \subseteq X
BY Zenon DEF Owed

LEMMA OwedType ==
  ASSUME NEW b, NEW x, NEW c, NEW m, NEW t, NEW u, <<x, c, m, t, u>> \in Owed(b)
  PROVE  x \in Seq(Bytes) /\ c \in Known /\ m \in Modes /\ t \in Seq(Nat) /\ u \in Known
<1>1. <<x, c, m, t, u>> \in Streams
  BY Zenon DEF Owed
<1> QED BY <1>1 DEF Streams

(* The packet at the front, and what is left after it.                     *)
FirstIs(b, p, c, c1, t, t1) ==
  \/ p = ReportOf(b) /\ t1 = t /\ c1 = c
  \/ \E op \in Ops(b) : IsReplyTo(b, op, p) /\ t = <<op>> \o t1 /\ c1 = Believed(b, op, c)
  \/ \E op \in Ops(b) : Refuses(b, op, p) /\ t = Owes(b, op) \o t1 /\ c1 = c
  \/ p = EntryOf(b, FALSE) /\ t1 = t /\ t # << >> /\ t[1] = Streamed /\ c1 = c
  \/ p = EntryOf(b, TRUE) /\ t = <<Streamed>> \o t1 /\ c1 = c

FrontIs(b, x, c, m, t, u) ==
  \/ x = << >> /\ t = Pending(m) /\ u = c
  \/ \E p \in Seq(Bytes), x1 \in Seq(Bytes), c1 \in Known, t1 \in Seq(Nat) :
       x = p \o x1 /\ FirstIs(b, p, c, c1, t, t1) /\ <<x1, c1, m, t1, u>> \in Owed(b)

LEMMA FirstStays ==
  ASSUME NEW b \in BOOLEAN, NEW p, NEW c, NEW c1, NEW t \in Seq(Nat), NEW t1 \in Seq(Nat),
         NEW tk \in Seq(Nat), FirstIs(b, p, c, c1, t, t1)
  PROVE  FirstIs(b, p, c, c1, t \o tk, t1 \o tk)
<1>1. CASE p = ReportOf(b) /\ t1 = t /\ c1 = c
  BY <1>1 DEF FirstIs
<1>2. ASSUME NEW op \in Ops(b), IsReplyTo(b, op, p), t = <<op>> \o t1, c1 = Believed(b, op, c)
      PROVE  FirstIs(b, p, c, c1, t \o tk, t1 \o tk)
  <2>1. (<<op>> \o t1) \o tk = <<op>> \o (t1 \o tk)
    <3>1. <<op>> \in Seq(Nat)
      BY DEF Ops
    <3> QED BY <3>1, RepliesRegroup
  <2> QED BY <1>2, <2>1, Zenon DEF FirstIs
<1>3. ASSUME NEW op \in Ops(b), Refuses(b, op, p), t = Owes(b, op) \o t1, c1 = c
      PROVE  FirstIs(b, p, c, c1, t \o tk, t1 \o tk)
  <2>1. (Owes(b, op) \o t1) \o tk = Owes(b, op) \o (t1 \o tk)
    <3>1. Owes(b, op) \in Seq(Nat)
      <4>1. op \in Nat
        BY DEF Ops
      <4> QED BY <4>1, OwesType
    <3> QED BY <3>1, RepliesRegroup
  <2> QED BY <1>3, <2>1, Zenon DEF FirstIs
<1>4. CASE p = EntryOf(b, FALSE) /\ t1 = t /\ t # << >> /\ t[1] = Streamed /\ c1 = c
  <2> DEFINE v == t \o tk
  <2>1. Len(v) = Len(t) + Len(tk) /\ Len(t) \in Nat /\ Len(tk) \in Nat /\ v \in Seq(Nat)
        /\ \A i \in 1 .. Len(t) + Len(tk) : v[i] = IF i <= Len(t) THEN t[i] ELSE tk[i - Len(t)]
    BY ConcatProperties, LenProperties
  <2> HIDE DEF v
  <2>2. Len(t) # 0
    BY <1>4, EmptySeq
  <2>3. Len(v) # 0 /\ v[1] = t[1]
    BY <2>1, <2>2
  <2>4. v # << >> /\ v[1] = Streamed
    BY <1>4, <2>3
  <2> QED BY <1>4, <2>4, Zenon DEF FirstIs, v
<1>5. CASE p = EntryOf(b, TRUE) /\ t = <<Streamed>> \o t1 /\ c1 = c
  <2>1. (<<Streamed>> \o t1) \o tk = <<Streamed>> \o (t1 \o tk)
    <3>1. <<Streamed>> \in Seq(Nat)
      BY DEF Streamed
    <3> QED BY <3>1, RepliesRegroup
  <2> QED BY <1>5, <2>1, Zenon DEF FirstIs
<1> QED BY <1>1, <1>2, <1>3, <1>4, <1>5, Zenon DEF FirstIs

LEMMA FirstMove ==
  ASSUME NEW b \in BOOLEAN, NEW p \in Seq(Bytes), NEW c \in Known, NEW u2 \in Known,
         NEW m \in Modes, NEW m2 \in Modes, NEW tk \in Seq(Nat),
         Moves(b, m, c, p, tk, m2, u2)
  PROVE  FrontIs(b, p, c, m2, Pending(m) \o tk, u2)
<1>1. /\ << >> \in Seq(Nat) /\ << >> \o << >> = << >> /\ << >> \o tk = tk /\ tk \o << >> = tk
      /\ << >> \in Seq(Bytes) /\ p \o << >> = p
      /\ Pending("idle") = << >> /\ Pending("streaming") = <<Streamed>>
      /\ Pending("lost") = <<STEP_EXECUTION>> /\ Pending(m) \o << >> = Pending(m)
      /\ {"idle", "streaming", "lost"} = Modes
  BY EmptySeq, ConcatEmptySeq, PendingType DEF Pending, Modes
<1>2. \A x1 \in Seq(Bytes), c1 \in Known, t1 \in Seq(Nat) :
        p = p \o x1 /\ FirstIs(b, p, c, c1, Pending(m) \o tk, t1) /\ <<x1, c1, m2, t1, u2>> \in Owed(b)
          => FrontIs(b, p, c, m2, Pending(m) \o tk, u2)
  BY Zenon DEF FrontIs
<1>3. ASSUME FirstIs(b, p, c, u2, Pending(m) \o tk, Pending(m2))
      PROVE  FrontIs(b, p, c, m2, Pending(m) \o tk, u2)
  <2>1. << <<>>, u2, m2, Pending(m2), u2 >> \in Owed(b) /\ Pending(m2) \in Seq(Nat)
    BY OwedStarts, PendingType
  <2> QED BY <1>1, <1>2, <1>3, <2>1, Zenon
<1>4. CASE m \in {"idle", "streaming"} /\ m2 = m /\ p = ReportOf(b) /\ tk = << >> /\ u2 = c
  <2>1. FirstIs(b, p, c, u2, Pending(m) \o tk, Pending(m2))
    BY <1>1, <1>4, Zenon DEF FirstIs
  <2> QED BY <1>3, <2>1
<1>5. ASSUME NEW op \in Ops(b), m = "idle", m2 = "idle", IsReplyTo(b, op, p), tk = <<op>>,
             u2 = Believed(b, op, c)
      PROVE  FrontIs(b, p, c, m2, Pending(m) \o tk, u2)
  <2>1. FirstIs(b, p, c, u2, Pending(m) \o tk, Pending(m2))
    BY <1>1, <1>5, Zenon DEF FirstIs
  <2> QED BY <1>3, <2>1
<1>6. ASSUME NEW op \in Ops(b), m = "idle", m2 = "idle", Refuses(b, op, p), tk = Owes(b, op), u2 = c
      PROVE  FrontIs(b, p, c, m2, Pending(m) \o tk, u2)
  <2>1. FirstIs(b, p, c, u2, Pending(m) \o tk, Pending(m2))
    BY <1>1, <1>6, Zenon DEF FirstIs
  <2> QED BY <1>3, <2>1
<1>7. CASE m = "idle" /\ m2 = "streaming" /\ p = << >> /\ tk = <<Streamed>> /\ u2 = c
  BY <1>1, <1>7, Zenon DEF FrontIs
<1>8. CASE m = "idle" /\ m2 = "lost" /\ p = << >> /\ tk = <<STEP_EXECUTION>> /\ u2 = c
  BY <1>1, <1>8, Zenon DEF FrontIs
<1>9. CASE m = "streaming" /\ m2 = m /\ p = EntryOf(b, FALSE) /\ tk = << >> /\ u2 = c
  <2>1. Pending(m) # << >> /\ Pending(m)[1] = Streamed
    BY <1>1, <1>9
  <2>2. FirstIs(b, p, c, u2, Pending(m) \o tk, Pending(m2))
    BY <1>1, <1>9, <2>1, Zenon DEF FirstIs
  <2> QED BY <1>3, <2>2
<1>10. CASE m = "streaming" /\ m2 = "idle" /\ p = EntryOf(b, TRUE) /\ tk = << >> /\ u2 = c
  <2>1. <<Streamed>> \o << >> = <<Streamed>>
    BY <1>1, <1>10
  <2>2. FirstIs(b, p, c, u2, Pending(m) \o tk, Pending(m2))
    BY <1>1, <1>10, <2>1, Zenon DEF FirstIs
  <2> QED BY <1>3, <2>2
<1> QED BY <1>4, <1>5, <1>6, <1>7, <1>8, <1>9, <1>10, Zenon DEF Moves

LEMMA OwedFront ==
  ASSUME NEW b \in BOOLEAN, NEW x, NEW c, NEW m, NEW t, NEW u, <<x, c, m, t, u>> \in Owed(b)
  PROVE  FrontIs(b, x, c, m, t, u)
<1> DEFINE X == {z \in Owed(b) : FrontIs(b, z[1], z[2], z[3], z[4], z[5])}
<1>1. X \in SUBSET Streams
  BY Zenon DEF Owed
<1>2. \A y, d, n, s, v : <<y, d, n, s, v>> \in X
        <=> <<y, d, n, s, v>> \in Owed(b) /\ FrontIs(b, y, d, n, s, v)
  OBVIOUS
<1> HIDE DEF X
<1>3. ASSUME NEW d \in Known, NEW n \in Modes PROVE << <<>>, d, n, Pending(n), d >> \in X
  <2>1. << <<>>, d, n, Pending(n), d >> \in Owed(b)
    BY OwedStarts
  <2>2. FrontIs(b, << >>, d, n, Pending(n), d)
    BY Zenon DEF FrontIs
  <2> QED BY <1>2, <2>1, <2>2, Zenon
<1>4. ASSUME NEW y \in Seq(Bytes), NEW p \in Seq(Bytes), NEW d \in Known, NEW v \in Known,
             NEW v2 \in Known, NEW n \in Modes, NEW n2 \in Modes, NEW s \in Seq(Nat),
             NEW tk \in Seq(Nat), <<y, d, n, s, v>> \in X, Moves(b, n, v, p, tk, n2, v2)
      PROVE  <<y \o p, d, n2, s \o tk, v2>> \in X
  <2>1. <<y, d, n, s, v>> \in Owed(b) /\ FrontIs(b, y, d, n, s, v)
    BY <1>2, <1>4, Zenon
  <2>2. <<y \o p, d, n2, s \o tk, v2>> \in Owed(b)
    BY <1>4, <2>1, OwedMoves, Zenon
  <2>3. CASE y = << >> /\ s = Pending(n) /\ v = d
    <3>1. FrontIs(b, p, d, n2, Pending(n) \o tk, v2)
      BY <1>4, <2>3, FirstMove, Zenon
    <3>2. y \o p = p
      BY <2>3, ConcatEmptySeq
    <3> QED BY <1>2, <2>2, <2>3, <3>1, <3>2, Zenon
  <2>4. ASSUME NEW f \in Seq(Bytes), NEW y1 \in Seq(Bytes), NEW d1 \in Known, NEW s1 \in Seq(Nat),
               y = f \o y1, FirstIs(b, f, d, d1, s, s1), <<y1, d1, n, s1, v>> \in Owed(b)
        PROVE  FrontIs(b, y \o p, d, n2, s \o tk, v2)
    <3>1. <<y1 \o p, d1, n2, s1 \o tk, v2>> \in Owed(b)
      BY <1>4, <2>4, OwedMoves, Zenon
    <3>2. FirstIs(b, f, d, d1, s \o tk, s1 \o tk)
      BY <2>4, FirstStays, Zenon
    <3>3. (f \o y1) \o p = f \o (y1 \o p)
      <4>1. f \in Seq(Bytes) /\ y1 \in Seq(Bytes) /\ p \in Seq(Bytes)
        BY <1>4, <2>4
      <4> QED BY <4>1, BytesRegroup, Zenon
    <3>4. y1 \o p \in Seq(Bytes) /\ s1 \o tk \in Seq(Nat)
      BY ConcatProperties, Zenon
    <3> QED BY <2>4, <3>1, <3>2, <3>3, <3>4, Zenon DEF FrontIs
  <2>5. FrontIs(b, y \o p, d, n2, s \o tk, v2)
    <3>1. CASE y = << >> /\ s = Pending(n) /\ v = d
      BY <1>2, <2>3, <3>1, Zenon
    <3> QED BY <2>1, <2>4, <3>1, Zenon DEF FrontIs
  <2> QED BY <1>2, <2>2, <2>5, Zenon
<1>5. ClosedStreams(b, X)
  <2>1. \A y, p \in Seq(Bytes), d, v, v2 \in Known, n, n2 \in Modes, s, tk \in Seq(Nat) :
          <<y, d, n, s, v>> \in X /\ Moves(b, n, v, p, tk, n2, v2)
            => <<y \o p, d, n2, s \o tk, v2>> \in X
    <3> TAKE y, p \in Seq(Bytes), d, v, v2 \in Known, n, n2 \in Modes, s, tk \in Seq(Nat)
    <3> HAVE <<y, d, n, s, v>> \in X /\ Moves(b, n, v, p, tk, n2, v2)
    <3> QED BY <1>4, Zenon
  <2> QED BY <1>3, <2>1, Zenon DEF ClosedStreams
<1>6. <<x, c, m, t, u>> \in X
  BY <1>1, <1>5, OwedLeast, Zenon
<1> QED BY <1>2, <1>6, Zenon

(* Packets are sequences of bytes.                                         *)
LEMMA PacketType ==
  ASSUME NEW op \in Bytes, NEW n \in Bytes, NEW data \in Seq(Bytes), Len(data) = n
  PROVE  /\ Packet(op, data) \in Seq(Bytes)
         /\ Len(Packet(op, data)) = n + 2
         /\ Packet(op, data)[1] = op /\ Packet(op, data)[2] = n
         /\ \A i \in 1 .. n : Packet(op, data)[i + 2] = data[i]
<1>1. n \in Nat
  BY DEF Bytes
<1> DEFINE h == <<op, n>>
<1>2. h \in Seq(Bytes) /\ Len(h) = 2 /\ h[1] = op /\ h[2] = n
  OBVIOUS
<1> HIDE DEF h
<1> DEFINE p == h \o data
<1>3. /\ p \in Seq(Bytes) /\ Len(p) = Len(h) + Len(data)
      /\ \A i \in 1 .. Len(h) + Len(data) : p[i] = IF i <= Len(h) THEN h[i] ELSE data[i - Len(h)]
  BY <1>2, ConcatProperties
<1> HIDE DEF p
<1>4. p[1] = op /\ p[2] = n
  BY <1>1, <1>2, <1>3
<1>5. ASSUME NEW i \in 1 .. n PROVE p[i + 2] = data[i]
  <2>1. i + 2 \in 1 .. Len(h) + Len(data) /\ ~(i + 2 <= Len(h)) /\ (i + 2) - Len(h) = i
    BY <1>1, <1>2
  <2> QED BY <1>3, <2>1
<1>6. Len(p) = n + 2
  BY <1>1, <1>2, <1>3
<1>7. Packet(op, data) = p
  BY DEF Packet, p, h
<1> QED BY <1>3, <1>4, <1>5, <1>6, <1>7

LEMMA ZerosType ==
  ASSUME NEW n \in Nat
  PROVE  Zeros(n) \in Seq(Bytes) /\ Len(Zeros(n)) = n
<1>1. 0 \in Bytes
  BY DEF Bytes
<1> QED BY <1>1 DEF Zeros

ReportsOnly(b, x) == \E n \in Nat : x = Repeated(n, ReportOf(b))

LEMMA ReportType ==
  ASSUME NEW b \in BOOLEAN
  PROVE  ReportOf(b) \in Seq(Bytes) /\ Len(ReportOf(b)) = (IF b THEN 11 ELSE 10)
         /\ ReportOf(b)[1] = (IF b THEN 46 ELSE 255) /\ ReportOf(b)[2] = (IF b THEN 9 ELSE 8)
<1> DEFINE o == IF b THEN 46 ELSE 255
           n == IF b THEN 9 ELSE 8
           z == Zeros(n)
<1>1. o \in Bytes /\ n \in Bytes /\ n \in Nat /\ n + 2 = (IF b THEN 11 ELSE 10)
  BY DEF Bytes
<1>2. ReportOf(b) = Packet(o, z)
  BY DEF ReportOf
<1>3. o = (IF b THEN 46 ELSE 255) /\ n = (IF b THEN 9 ELSE 8)
  OBVIOUS
<1> HIDE DEF o, n
<1>4. z \in Seq(Bytes) /\ Len(z) = n
  BY <1>1, ZerosType
<1> HIDE DEF z
<1>5. Packet(o, z) \in Seq(Bytes) /\ Len(Packet(o, z)) = n + 2 /\ Packet(o, z)[1] = o
      /\ Packet(o, z)[2] = n
  BY <1>1, <1>4, PacketType
<1> QED BY <1>1, <1>2, <1>3, <1>5

LEMMA ReportsOwed ==
  ASSUME NEW b \in BOOLEAN, NEW c \in Known, NEW x, ReportsOnly(b, x)
  PROVE  <<x, c, "idle", << >>, c>> \in Owed(b)
<1> DEFINE R == ReportOf(b)
           T == {n \in Nat : <<Repeated(n, R), c, "idle", << >>, c>> \in Owed(b)}
<1>1. R \in Seq(Bytes) /\ "idle" \in Modes /\ Pending("idle") = << >> /\ << >> \in Seq(Nat)
      /\ << >> \o << >> = << >>
  BY ReportType, EmptySeq DEF Modes, Pending
<1>2. Moves(b, "idle", c, R, << >>, "idle", c)
  BY DEF Moves
<1> HIDE DEF R
<1>3. 0 \in T
  <2>1. Repeated(0, R) = << >> /\ 0 \in Nat
    BY <1>1, RepeatedLast
  <2>2. << <<>>, c, "idle", << >>, c >> \in Owed(b)
    BY <1>1, OwedStarts
  <2> QED BY <2>1, <2>2, Zenon
<1>4. ASSUME NEW n \in Nat, n \in T PROVE n + 1 \in T
  <2>1. /\ Repeated(n, R) \in Seq(Bytes) /\ Repeated(n + 1, R) = Repeated(n, R) \o R
    BY <1>1, RepeatedLast
  <2>2. <<Repeated(n, R), c, "idle", << >>, c>> \in Owed(b)
    BY <1>4
  <2>3. <<Repeated(n, R) \o R, c, "idle", << >> \o << >>, c>> \in Owed(b)
    BY <1>1, <1>2, <2>1, <2>2, OwedMoves, Zenon
  <2>4. n + 1 \in Nat
    OBVIOUS
  <2> QED BY <1>1, <2>1, <2>3, <2>4, Zenon
<1> HIDE DEF T
<1>5. \A n \in Nat : n \in T
  BY <1>3, <1>4, InductiveSet
<1> QED BY <1>5 DEF ReportsOnly, T, R

(* What the replies say of the rest of a stream.                           *)
OwedSays(b, x, c, m, t, u) ==
  /\ m = "streaming" => \E i \in 1 .. Len(t) : t[i] = Streamed
  /\ (~b \/ \A i \in 1 .. Len(t) : t[i] \notin SetOps) => u = c
  /\ t = << >> => m = "idle" /\ ReportsOnly(b, x)

LEMMA OwesNothing ==
  ASSUME NEW b \in BOOLEAN, NEW op \in Ops(b), Owes(b, op) = << >>
  PROVE  op = RESET
BY DEF Owes, Ops, RESET, RESUMESTREAMING, STREAM_TRACE_START

LEMMA OwedFacts ==
  ASSUME NEW b \in BOOLEAN, NEW x, NEW c, NEW m, NEW t, NEW u, <<x, c, m, t, u>> \in Owed(b)
  PROVE  OwedSays(b, x, c, m, t, u)
<1> DEFINE X == {z \in Streams : OwedSays(b, z[1], z[2], z[3], z[4], z[5])}
<1>1. X \in SUBSET Streams
  OBVIOUS
<1>2. \A y, d, n, s, v : <<y, d, n, s, v>> \in X
        <=> <<y, d, n, s, v>> \in Streams /\ OwedSays(b, y, d, n, s, v)
  OBVIOUS
<1> HIDE DEF X
<1>3. ASSUME NEW d \in Known, NEW n \in Modes PROVE << <<>>, d, n, Pending(n), d >> \in X
  <2>1. << <<>>, d, n, Pending(n), d >> \in Streams
    <3>1. << >> \in Seq(Bytes) /\ Pending(n) \in Seq(Nat)
      BY EmptySeq, PendingType
    <3> QED BY <3>1, Zenon DEF Streams
  <2>2. ReportsOnly(b, << >>)
    <3>1. Repeated(0, ReportOf(b)) = << >> /\ 0 \in Nat
      BY ReportType, RepeatedLast
    <3> QED BY <3>1, Zenon DEF ReportsOnly
  <2>3. n = "streaming" => \E i \in 1 .. Len(Pending(n)) : Pending(n)[i] = Streamed
    BY DEF Pending, Modes
  <2>4. Pending(n) = << >> => n = "idle"
    BY DEF Pending, Modes
  <2>5. OwedSays(b, << >>, d, n, Pending(n), d)
    BY <2>2, <2>3, <2>4, Zenon DEF OwedSays
  <2> QED BY <1>2, <2>1, <2>5, Zenon
<1>4. ASSUME NEW y \in Seq(Bytes), NEW p \in Seq(Bytes), NEW d \in Known, NEW v \in Known,
             NEW v2 \in Known, NEW n \in Modes, NEW n2 \in Modes, NEW s \in Seq(Nat),
             NEW tk \in Seq(Nat), <<y, d, n, s, v>> \in X, Moves(b, n, v, p, tk, n2, v2)
      PROVE  <<y \o p, d, n2, s \o tk, v2>> \in X
  <2>1. OwedSays(b, y, d, n, s, v)
    BY <1>2, <1>4, Zenon
  <2> DEFINE w == s \o tk
  <2>2. <<y \o p, d, n2, w, v2>> \in Streams /\ w \in Seq(Nat)
    <3>1. y \o p \in Seq(Bytes) /\ w \in Seq(Nat)
      BY ConcatProperties
    <3> QED BY <3>1, Zenon DEF Streams
  <2>3. /\ Len(w) = Len(s) + Len(tk) /\ Len(s) \in Nat /\ Len(tk) \in Nat
        /\ \A i \in 1 .. Len(s) + Len(tk) : w[i] = IF i <= Len(s) THEN s[i] ELSE tk[i - Len(s)]
    BY ConcatProperties, LenProperties
  <2> HIDE DEF w
  <2>4. \A i \in 1 .. Len(s) : i \in 1 .. Len(w) /\ w[i] = s[i]
    BY <2>3
  <2>5. ASSUME NEW i \in 1 .. Len(tk) PROVE Len(s) + i \in 1 .. Len(w) /\ w[Len(s) + i] = tk[i]
    <3>1. /\ Len(s) + i \in 1 .. Len(s) + Len(tk) /\ ~(Len(s) + i <= Len(s))
          /\ (Len(s) + i) - Len(s) = i
      BY <2>3
    <3> QED BY <2>3, <3>1
  <2>6. w = << >> => s = << >> /\ tk = << >>
    <3> SUFFICES ASSUME w = << >> PROVE s = << >> /\ tk = << >>
      OBVIOUS
    <3>1. Len(s) = 0 /\ Len(tk) = 0
      BY <2>3
    <3> QED BY <3>1, EmptySeq
  <2>7. n2 = "streaming" => \E i \in 1 .. Len(w) : w[i] = Streamed
    <3>1. CASE n = "streaming"
      BY <2>1, <2>4, <3>1, Zenon DEF OwedSays
    <3>2. CASE n # "streaming" /\ n2 = "streaming"
      <4>1. tk = <<Streamed>>
        BY <1>4, <3>2, Zenon DEF Moves
      <4>2. 1 \in 1 .. Len(tk) /\ tk[1] = Streamed
        BY <4>1
      <4> QED BY <2>5, <4>2
    <3> QED BY <3>1, <3>2
  <2>8. (~b \/ \A i \in 1 .. Len(w) : w[i] \notin SetOps) => v2 = d
    <3> SUFFICES ASSUME ~b \/ \A i \in 1 .. Len(w) : w[i] \notin SetOps PROVE v2 = d
      OBVIOUS
    <3>1. ~b \/ \A i \in 1 .. Len(s) : s[i] \notin SetOps
      BY <2>4
    <3>2. v = d
      BY <2>1, <3>1, Zenon DEF OwedSays
    <3>3. ASSUME NEW op \in Ops(b), tk = <<op>>, v2 = Believed(b, op, v) PROVE v2 = v
      <4>1. ~b \/ op \notin SetOps
        <5>1. 1 \in 1 .. Len(tk) /\ tk[1] = op
          BY <3>3
        <5> QED BY <2>5, <5>1
      <4> QED BY <3>3, <4>1, Zenon DEF Believed
    <3>4. v2 = v
      BY <1>4, <3>3, Zenon DEF Moves
    <3> QED BY <3>2, <3>4
  <2>9. w = << >> => n2 = "idle" /\ ReportsOnly(b, y \o p)
    <3> SUFFICES ASSUME w = << >> PROVE n2 = "idle" /\ ReportsOnly(b, y \o p)
      OBVIOUS
    <3>1. n = "idle" /\ ReportsOnly(b, y) /\ tk = << >>
      BY <2>1, <2>6, Zenon DEF OwedSays
    <3>2. \A op : Refuses(b, op, p) /\ op \in Ops(b) => Owes(b, op) # << >>
      BY OwesNothing, Zenon DEF Refuses
    <3>3. \A op : <<op>> # << >>
      OBVIOUS
    <3>4. n2 = "idle" /\ p = ReportOf(b)
      BY <1>4, <3>1, <3>2, <3>3 DEF Moves
    <3>5. PICK j \in Nat : y = Repeated(j, ReportOf(b))
      BY <3>1, Zenon DEF ReportsOnly
    <3>6. Repeated(j + 1, ReportOf(b)) = y \o p /\ j + 1 \in Nat
      <4>1. ReportOf(b) \in Seq(Bytes)
        BY ReportType
      <4>2. Repeated(j + 1, ReportOf(b)) = Repeated(j, ReportOf(b)) \o ReportOf(b)
        BY <4>1, RepeatedLast
      <4> QED BY <3>4, <3>5, <4>2
    <3> QED BY <3>4, <3>6, Zenon DEF ReportsOnly
  <2>10. OwedSays(b, y \o p, d, n2, w, v2)
    BY <2>7, <2>8, <2>9, Zenon DEF OwedSays
  <2> QED BY <1>2, <2>2, <2>10, Zenon DEF w
<1>5. ClosedStreams(b, X)
  <2>1. \A y, p \in Seq(Bytes), d, v, v2 \in Known, n, n2 \in Modes, s, tk \in Seq(Nat) :
          <<y, d, n, s, v>> \in X /\ Moves(b, n, v, p, tk, n2, v2)
            => <<y \o p, d, n2, s \o tk, v2>> \in X
    <3> TAKE y, p \in Seq(Bytes), d, v, v2 \in Known, n, n2 \in Modes, s, tk \in Seq(Nat)
    <3> HAVE <<y, d, n, s, v>> \in X /\ Moves(b, n, v, p, tk, n2, v2)
    <3> QED BY <1>4, Zenon
  <2> QED BY <1>3, <2>1, Zenon DEF ClosedStreams
<1>6. <<x, c, m, t, u>> \in X
  BY <1>1, <1>5, OwedLeast, Zenon
<1> QED BY <1>2, <1>6, Zenon

-----------------------------------------------------------------------------
(* The replies that a sequence of requests is owed.                        *)
LEMMA ReqOwes ==
  ASSUME NEW b \in BOOLEAN
  PROVE  \A r \in Reqs(b) : /\ r.op \in Ops(b) /\ r.op \in Nat /\ r.arg \in {0, 1}
                            /\ Owes(b, r.op) \in Seq(Nat)
<1>1. \A r \in Reqs(b) : r.op \in Ops(b) /\ r.op \in Nat /\ r.arg \in {0, 1}
  BY DEF Reqs, Ops
<1> QED BY <1>1, OwesType

LEMMA ResetOwes ==
  ASSUME NEW b \in BOOLEAN
  PROVE  Owes(b, RESET) = << >>
BY DEF Owes, RESET, RESUMESTREAMING, STREAM_TRACE_START

LEMMA TokensLast ==
  ASSUME NEW b \in BOOLEAN
  PROVE  /\ Tokens(b, << >>) = << >>
         /\ \A s \in Seq(Reqs(b)) : Tokens(b, s) \in Seq(Nat)
         /\ \A s \in Seq(Reqs(b)), r \in Reqs(b) :
              Tokens(b, Append(s, r)) = Tokens(b, s) \o Owes(b, r.op)
<1>1. \A r \in Reqs(b) : Owes(b, r.op) \in Seq(Nat)
  BY ReqOwes
<1>2. Tokens(b, << >>) = << >>
  BY DEF Tokens, FlattenSeq
<1> DEFINE R == Reqs(b)
<1> HIDE DEF R
<1>3. ASSUME NEW s \in Seq(R), NEW r \in R
      PROVE  /\ Tokens(b, s) \in Seq(Nat)
             /\ Tokens(b, Append(s, r)) = Tokens(b, s) \o Owes(b, r.op)
  <2> DEFINE f == [i \in 1 .. Len(s) |-> Owes(b, s[i].op)]
             v == Append(s, r)
             g == [i \in 1 .. Len(v) |-> Owes(b, v[i].op)]
  <2>1. /\ Len(s) \in Nat /\ \A i \in 1 .. Len(s) : s[i] \in R
        /\ v \in Seq(R) /\ Len(v) = Len(s) + 1 /\ \A i \in 1 .. Len(s) : v[i] = s[i]
        /\ v[Len(s) + 1] = r
    BY AppendProperties, LenProperties, ElementOfSeq
  <2> HIDE DEF v
  <2>2. f \in Seq(Seq(Nat)) /\ Len(f) = Len(s) /\ \A i \in 1 .. Len(s) : f[i] = Owes(b, s[i].op)
    <3>1. \A i \in 1 .. Len(s) : Owes(b, s[i].op) \in Seq(Nat)
      BY <1>1, <2>1 DEF R
    <3> QED BY <2>1, <3>1
  <2>3. g \in Seq(Seq(Nat)) /\ Len(g) = Len(v) /\ \A i \in 1 .. Len(v) : g[i] = Owes(b, v[i].op)
    <3>1. \A i \in 1 .. Len(v) : v[i] \in R
      BY <2>1
    <3>2. \A i \in 1 .. Len(v) : Owes(b, v[i].op) \in Seq(Nat)
      BY <1>1, <3>1 DEF R
    <3> QED BY <2>1, <3>2
  <2>4. Tokens(b, s) = FlattenSeq(f) /\ Tokens(b, v) = FlattenSeq(g)
    BY DEF Tokens
  <2> HIDE DEF f, g
  <2>5. Owes(b, r.op) \in Seq(Nat)
    BY <1>1 DEF R
  <2> DEFINE o == Owes(b, r.op)
             a == Append(f, o)
  <2>6. /\ a \in Seq(Seq(Nat)) /\ Len(a) = Len(f) + 1 /\ \A i \in 1 .. Len(f) : a[i] = f[i]
        /\ a[Len(f) + 1] = o
    BY <2>2, <2>5, AppendProperties
  <2>7. FlattenSeq(f) \in Seq(Nat) /\ FlattenSeq(a) = FlattenSeq(f) \o o
    BY <2>2, <2>5, FlattenAppend
  <2> HIDE DEF a
  <2>8. g = a
    <3>1. \A i \in 1 .. Len(g) : g[i] = a[i]
      <4> TAKE i \in 1 .. Len(g)
      <4>1. CASE i \in 1 .. Len(s)
        BY <2>1, <2>2, <2>3, <2>6, <4>1
      <4>2. CASE i = Len(s) + 1
        BY <2>1, <2>2, <2>3, <2>6, <4>2
      <4> QED BY <2>1, <2>3, <4>1, <4>2
    <3>2. Len(g) = Len(a)
      BY <2>1, <2>2, <2>3, <2>6
    <3> QED BY <2>3, <2>6, <3>1, <3>2, SeqEqual
  <2> QED BY <2>4, <2>7, <2>8 DEF v
<1>4. \A s \in Seq(R) : Tokens(b, s) \in Seq(Nat)
  <2> TAKE s \in Seq(R)
  <2>1. CASE s = << >>
    BY <1>2, <2>1, EmptySeq
  <2>2. CASE s # << >>
    <3>1. Head(s) \in R
      BY <2>2, FirstAndRest
    <3> QED BY <1>3, <3>1
  <2> QED BY <2>1, <2>2
<1> QED BY <1>2, <1>3, <1>4 DEF R

LEMMA TokensConcat ==
  ASSUME NEW b \in BOOLEAN, NEW s \in Seq(Reqs(b))
  PROVE  \A v \in Seq(Reqs(b)) : Tokens(b, s \o v) = Tokens(b, s) \o Tokens(b, v)
<1> DEFINE R == Reqs(b)
           T == {v \in Seq(R) : Tokens(b, s \o v) = Tokens(b, s) \o Tokens(b, v)}
<1>1. \A v \in Seq(R) : Tokens(b, v) \in Seq(Nat)
  BY TokensLast
<1>2. \A v \in Seq(R), r \in R : Tokens(b, Append(v, r)) = Tokens(b, v) \o Owes(b, r.op)
  BY TokensLast
<1>3. \A r \in R : Owes(b, r.op) \in Seq(Nat)
  BY ReqOwes
<1>4. s \in Seq(R)
  OBVIOUS
<1> HIDE DEF R
<1>5. << >> \in T
  <2>1. s \o << >> = s /\ << >> \in Seq(R)
    BY <1>4, ConcatEmptySeq, EmptySeq
  <2>2. Tokens(b, << >>) = << >> /\ Tokens(b, s) \o << >> = Tokens(b, s)
    BY <1>1, <1>4, TokensLast, ConcatEmptySeq
  <2> QED BY <2>1, <2>2
<1>6. ASSUME NEW v \in Seq(R), NEW r \in R, v \in T PROVE Append(v, r) \in T
  <2>1. Append(v, r) \in Seq(R) /\ s \o v \in Seq(R) /\ <<r>> \in Seq(R)
    BY <1>4, AppendProperties, ConcatProperties
  <2>2. s \o Append(v, r) = Append(s \o v, r)
    <3>1. Append(v, r) = v \o <<r>> /\ Append(s \o v, r) = (s \o v) \o <<r>>
      BY <2>1, AppendIsConcat
    <3>2. (s \o v) \o <<r>> = s \o (v \o <<r>>)
      BY <1>4, <2>1, Regroup
    <3> QED BY <3>1, <3>2
  <2>3. Tokens(b, s \o Append(v, r)) = (Tokens(b, s) \o Tokens(b, v)) \o Owes(b, r.op)
    BY <1>2, <1>6, <2>1, <2>2
  <2>4. (Tokens(b, s) \o Tokens(b, v)) \o Owes(b, r.op) = Tokens(b, s) \o (Tokens(b, v) \o Owes(b, r.op))
    BY <1>1, <1>3, <1>4, RepliesRegroup
  <2> QED BY <1>2, <2>1, <2>3, <2>4
<1> HIDE DEF T
<1>7. \A v \in Seq(R) : v \in T
  BY <1>5, <1>6, InductiveSequences
<1> QED BY <1>7 DEF T, R

LEMMA TokensOfOne ==
  ASSUME NEW b \in BOOLEAN, NEW r \in Reqs(b)
  PROVE  Tokens(b, <<r>>) = Owes(b, r.op) /\ Owes(b, r.op) \in Seq(Nat)
<1>2. Owes(b, r.op) \in Seq(Nat)
  BY ReqOwes
<1> DEFINE R == Reqs(b)
<1>3. r \in R
  OBVIOUS
<1>4. \A s \in Seq(R) : Tokens(b, Append(s, r)) = Tokens(b, s) \o Owes(b, r.op)
  BY TokensLast
<1> HIDE DEF R
<1>5. Append(<< >>, r) = <<r>> /\ << >> \in Seq(R)
  OBVIOUS
<1>6. Tokens(b, << >>) = << >> /\ << >> \o Owes(b, r.op) = Owes(b, r.op)
  BY <1>2, TokensLast, ConcatEmptySeq
<1> QED BY <1>2, <1>4, <1>5, <1>6

LEMMA TokensFirst ==
  ASSUME NEW b \in BOOLEAN, NEW s \in Seq(Reqs(b)), s # << >>
  PROVE  /\ Head(s) \in Reqs(b) /\ Tail(s) \in Seq(Reqs(b)) /\ Owes(b, Head(s).op) \in Seq(Nat)
         /\ Tokens(b, s) = Owes(b, Head(s).op) \o Tokens(b, Tail(s))
<1> DEFINE R == Reqs(b)
<1>1. Head(s) \in R /\ Tail(s) \in Seq(R) /\ s = <<Head(s)>> \o Tail(s) /\ <<Head(s)>> \in Seq(R)
  BY FirstAndRest
<1>2. Tokens(b, <<Head(s)>> \o Tail(s)) = Tokens(b, <<Head(s)>>) \o Tokens(b, Tail(s))
  BY <1>1, TokensConcat
<1>3. Tokens(b, <<Head(s)>>) = Owes(b, Head(s).op) /\ Owes(b, Head(s).op) \in Seq(Nat)
  BY <1>1, TokensOfOne
<1> QED BY <1>1, <1>2, <1>3

LEMMA TokensHas ==
  ASSUME NEW b \in BOOLEAN, NEW s \in Seq(Reqs(b)), NEW i \in 1 .. Len(s)
  PROVE  /\ s[i] \in Reqs(b) /\ Owes(b, s[i].op) \in Seq(Nat)
         /\ \E v, w \in Seq(Nat) : Tokens(b, s) = v \o (Owes(b, s[i].op) \o w)
<1> DEFINE R == Reqs(b)
<1>1. s \in Seq(R) /\ s[i] \in R /\ <<s[i]>> \in Seq(R)
  BY ElementOfSeq
<1> HIDE DEF R
<1> DEFINE r == SubSeq(s, 1, i - 1)
           t == SubSeq(s, i + 1, Len(s))
<1>2. r \in Seq(R) /\ t \in Seq(R) /\ s = r \o (<<s[i]>> \o t)
  BY <1>1, Around
<1> HIDE DEF r, t
<1>3. \A u \in Seq(R) : \A v \in Seq(R) : Tokens(b, u \o v) = Tokens(b, u) \o Tokens(b, v)
  BY TokensConcat DEF R
<1>4. <<s[i]>> \o t \in Seq(R)
  BY <1>1, <1>2, ConcatProperties
<1>5. Tokens(b, <<s[i]>>) = Owes(b, s[i].op) /\ Owes(b, s[i].op) \in Seq(Nat)
  BY <1>1, TokensOfOne DEF R
<1>6. Tokens(b, r) \in Seq(Nat) /\ Tokens(b, t) \in Seq(Nat)
  BY <1>2, TokensLast DEF R
<1>7. Tokens(b, r \o (<<s[i]>> \o t)) = Tokens(b, r) \o (Owes(b, s[i].op) \o Tokens(b, t))
  <2>1. Tokens(b, r \o (<<s[i]>> \o t)) = Tokens(b, r) \o Tokens(b, <<s[i]>> \o t)
    BY <1>2, <1>3, <1>4, Zenon
  <2>2. Tokens(b, <<s[i]>> \o t) = Tokens(b, <<s[i]>>) \o Tokens(b, t)
    BY <1>1, <1>2, <1>3, Zenon
  <2> QED BY <1>5, <2>1, <2>2
<1>8. Tokens(b, s) = Tokens(b, r) \o (Owes(b, s[i].op) \o Tokens(b, t))
  BY <1>2, <1>7
<1> QED BY <1>1, <1>5, <1>6, <1>8 DEF R

LEMMA TokensNone ==
  ASSUME NEW b \in BOOLEAN
  PROVE  \A s \in Seq(Reqs(b)) : (\A i \in 1 .. Len(s) : s[i].op = RESET) => Tokens(b, s) = << >>
<1> DEFINE R == Reqs(b)
           T == {s \in Seq(R) : (\A i \in 1 .. Len(s) : s[i].op = RESET) => Tokens(b, s) = << >>}
<1>1. \A v \in Seq(R), r \in R : Tokens(b, Append(v, r)) = Tokens(b, v) \o Owes(b, r.op)
  BY TokensLast
<1>2. Owes(b, RESET) = << >> /\ << >> \o << >> = << >>
  <2>1. << >> \o << >> = << >>
    BY EmptySeq, ConcatEmptySeq
  <2>2. Owes(b, RESET) = << >>
    BY ResetOwes
  <2> QED BY <2>1, <2>2
<1> HIDE DEF R
<1>3. << >> \in T
  BY TokensLast, EmptySeq
<1>4. ASSUME NEW v \in Seq(R), NEW r \in R, v \in T PROVE Append(v, r) \in T
  <2>1. /\ Append(v, r) \in Seq(R) /\ Len(Append(v, r)) = Len(v) + 1 /\ Len(v) \in Nat
        /\ \A i \in 1 .. Len(v) : Append(v, r)[i] = v[i]
        /\ Append(v, r)[Len(v) + 1] = r
    BY AppendProperties, LenProperties
  <2> SUFFICES ASSUME \A i \in 1 .. Len(Append(v, r)) : Append(v, r)[i].op = RESET
               PROVE  Tokens(b, Append(v, r)) = << >>
    BY <2>1
  <2>2. \A i \in 1 .. Len(v) : i \in 1 .. Len(Append(v, r))
    BY <2>1
  <2>3. \A i \in 1 .. Len(v) : v[i].op = RESET
    BY <2>1, <2>2
  <2>4. Len(v) + 1 \in 1 .. Len(Append(v, r))
    BY <2>1
  <2>5. r.op = RESET
    BY <2>1, <2>4
  <2> QED BY <1>1, <1>2, <1>4, <2>3, <2>5
<1> HIDE DEF T
<1>5. \A s \in Seq(R) : s \in T
  BY <1>3, <1>4, InductiveSequences
<1> QED BY <1>5 DEF T, R

-----------------------------------------------------------------------------
(* What the packets look like to their reader.                             *)
LEMMA ReplyFacts ==
  ASSUME NEW b \in BOOLEAN, NEW op \in Ops(b), NEW p, IsReplyTo(b, op, p)
  PROVE  /\ p \in Seq(Bytes) /\ Len(p) = ReplyLength(b, op) + 2
         /\ p[1] = (IF b THEN op + 1 ELSE op + 128) /\ p[2] = ReplyLength(b, op)
         /\ p[1] \notin (IF b THEN {46, 47} ELSE {32, 197, 255})
<1> DEFINE o == IF b THEN op + 1 ELSE op + 128
           n == ReplyLength(b, op)
<1>1. op \in 0 .. 126 /\ op \notin {45, 46, 69}
  BY DEF Ops
<1>2. o \in Bytes /\ o \notin (IF b THEN {46, 47} ELSE {32, 197, 255})
  BY <1>1 DEF Bytes
<1>3. n \in Bytes
  BY DEF ReplyLength, Bytes
<1>4. PICK data \in Seq(Bytes) : Len(data) = n /\ p = Packet(o, data)
  BY DEF IsReplyTo
<1>5. o = (IF b THEN op + 1 ELSE op + 128) /\ n = ReplyLength(b, op)
  OBVIOUS
<1> HIDE DEF o, n
<1>6. p \in Seq(Bytes) /\ Len(p) = n + 2 /\ p[1] = o /\ p[2] = n
  BY <1>2, <1>3, <1>4, PacketType
<1> QED BY <1>2, <1>5, <1>6

LEMMA ShortPacket ==
  ASSUME NEW o \in Bytes
  PROVE  /\ Packet(o, Zeros(1)) \in Seq(Bytes) /\ Len(Packet(o, Zeros(1))) = 3
         /\ Packet(o, Zeros(1))[1] = o /\ Packet(o, Zeros(1))[2] = 1
         /\ Packet(o, << >>) \in Seq(Bytes) /\ Len(Packet(o, << >>)) = 2
         /\ Packet(o, << >>)[1] = o /\ Packet(o, << >>)[2] = 0
<1> DEFINE n == 1
           m == 0
           z == Zeros(1)
           e == << >>
<1>1. m \in Bytes /\ n \in Bytes /\ n \in Nat /\ m + 2 = 2 /\ n + 2 = 3
  BY DEF Bytes
<1>2. z \in Seq(Bytes) /\ Len(z) = n
  BY <1>1, ZerosType
<1>3. e \in Seq(Bytes) /\ Len(e) = m
  OBVIOUS
<1> HIDE DEF z, e, n, m
<1>4. Packet(o, z) \in Seq(Bytes) /\ Len(Packet(o, z)) = n + 2 /\ Packet(o, z)[1] = o
      /\ Packet(o, z)[2] = n
  BY <1>1, <1>2, PacketType
<1>5. Packet(o, e) \in Seq(Bytes) /\ Len(Packet(o, e)) = m + 2 /\ Packet(o, e)[1] = o
      /\ Packet(o, e)[2] = m
  BY <1>1, <1>3, PacketType
<1> QED BY <1>1, <1>4, <1>5 DEF z, e, n, m

LEMMA RefusalFacts ==
  ASSUME NEW b \in BOOLEAN, NEW op, NEW p, Refuses(b, op, p)
  PROVE  /\ p \in Seq(Bytes) /\ op # RESET
         /\ \/ op \in MayExceptOf(b) /\ Len(p) = 3 /\ p[1] = ExceptionOf(b) /\ p[2] = 1
            \/ op \in UnknownOf(b) /\ Len(p) = (IF b THEN 3 ELSE 2) /\ p[1] = InvalidOf(b)
               /\ p[2] = (IF b THEN 1 ELSE 0)
<1>1. ExceptionOf(b) \in Bytes /\ InvalidOf(b) \in Bytes
  BY DEF ExceptionOf, InvalidOf, Bytes
<1>2. CASE op \in MayExceptOf(b) /\ p = Packet(ExceptionOf(b), Zeros(1))
  BY <1>1, <1>2, ShortPacket DEF Refuses
<1>3. CASE op \in UnknownOf(b) /\ p = Packet(InvalidOf(b), IF b THEN Zeros(1) ELSE << >>)
  <2>1. CASE b = TRUE
    <3>1. p = Packet(InvalidOf(b), Zeros(1))
      BY <1>3, <2>1
    <3> QED BY <1>1, <1>3, <2>1, <3>1, ShortPacket DEF Refuses
  <2>2. CASE b = FALSE
    <3>1. p = Packet(InvalidOf(b), << >>)
      BY <1>3, <2>2
    <3> QED BY <1>1, <1>3, <2>2, <3>1, ShortPacket DEF Refuses
  <2> QED BY <2>1, <2>2
<1> QED BY <1>2, <1>3 DEF Refuses

LEMMA EntryFacts ==
  ASSUME NEW b \in BOOLEAN, NEW last \in BOOLEAN
  PROVE  /\ EntryOf(b, last) \in Seq(Bytes)
         /\ b \/ ~last => /\ Len(EntryOf(b, last)) = 34
                          /\ EntryOf(b, last)[1] = (IF b THEN 43 ELSE 244)
                          /\ EntryOf(b, last)[2] = 32
         /\ b => EntryOf(b, last)[3] = (IF last THEN 0 ELSE 1)
         /\ ~b /\ last => Len(EntryOf(b, last)) = 2 /\ EntryOf(b, last)[1] = 211
                          /\ EntryOf(b, last)[2] = 0
<1>1. 43 \in Bytes /\ 244 \in Bytes /\ 211 \in Bytes /\ 32 \in Bytes /\ 32 + 2 = 34
      /\ 0 \in Bytes /\ 1 \in Bytes
  BY DEF Bytes
<1>2. CASE b = TRUE
  <2> DEFINE v == <<IF last THEN 0 ELSE 1>>
             z == Zeros(31)
  <2>1. v \in Seq(Bytes) /\ Len(v) = 1 /\ v[1] = (IF last THEN 0 ELSE 1)
    BY <1>1
  <2>2. z \in Seq(Bytes) /\ Len(z) = 31
    <3>1. 31 \in Nat
      OBVIOUS
    <3> QED BY <3>1, ZerosType
  <2> HIDE DEF v, z
  <2> DEFINE w == v \o z
  <2>3. /\ w \in Seq(Bytes) /\ Len(w) = Len(v) + Len(z)
        /\ \A i \in 1 .. Len(v) + Len(z) : w[i] = IF i <= Len(v) THEN v[i] ELSE z[i - Len(v)]
    BY <2>1, <2>2, ConcatProperties
  <2>4. EntryOf(b, last) = Packet(43, w)
    BY <1>2 DEF EntryOf, v, z
  <2> HIDE DEF w
  <2>5. Len(w) = 32 /\ w[1] = (IF last THEN 0 ELSE 1)
    <3>1. Len(w) = 32 /\ 1 \in 1 .. Len(v) + Len(z) /\ 1 <= Len(v)
      BY <2>1, <2>2, <2>3
    <3>2. w[1] = v[1]
      BY <2>3, <3>1
    <3> QED BY <2>1, <3>1, <3>2
  <2> DEFINE o == 43
             n == 32
  <2>6. o \in Bytes /\ n \in Bytes /\ Len(w) = n
    BY <1>1, <2>5
  <2> HIDE DEF o, n
  <2>7. /\ Packet(o, w) \in Seq(Bytes) /\ Len(Packet(o, w)) = n + 2 /\ Packet(o, w)[1] = o
        /\ Packet(o, w)[2] = n /\ \A i \in 1 .. n : Packet(o, w)[i + 2] = w[i]
    BY <2>3, <2>6, PacketType
  <2>8. Packet(o, w)[3] = w[1]
    <3>1. 1 \in 1 .. n /\ 1 + 2 = 3
      BY DEF n
    <3> QED BY <2>7, <3>1
  <2> QED BY <1>1, <1>2, <2>4, <2>5, <2>7, <2>8 DEF o, n
<1>3. CASE b = FALSE /\ last = TRUE
  <2>1. EntryOf(b, last) = Packet(211, << >>)
    BY <1>3 DEF EntryOf, StreamEnd
  <2> QED BY <1>1, <1>3, <2>1, ShortPacket
<1>4. CASE b = FALSE /\ last = FALSE
  <2> DEFINE w == Zeros(32)
             o == 244
             n == 32
  <2>1. EntryOf(b, last) = Packet(o, w)
    BY <1>4 DEF EntryOf
  <2>2. w \in Seq(Bytes) /\ Len(w) = n /\ n \in Bytes /\ o \in Bytes
    BY <1>1, ZerosType
  <2> HIDE DEF w, o, n
  <2>3. Packet(o, w) \in Seq(Bytes) /\ Len(Packet(o, w)) = n + 2 /\ Packet(o, w)[1] = o
        /\ Packet(o, w)[2] = n
    BY <2>2, PacketType
  <2> QED BY <1>1, <1>4, <2>1, <2>2, <2>3 DEF o, n
<1> QED BY <1>2, <1>3, <1>4

(* What the reader sees of the packet at the front, and what it leaves.    *)
LEMMA Fronted ==
  ASSUME NEW p \in Seq(Bytes), NEW x \in Seq(Bytes)
  PROVE  /\ Len(p \o x) = Len(p) + Len(x) /\ Len(p) \in Nat /\ Len(x) \in Nat
         /\ \A i \in 1 .. Len(p) : (p \o x)[i] = p[i]
         /\ SubSeq(p \o x, Len(p) + 1, Len(p \o x)) = x
<1> DEFINE y == p \o x
<1>1. /\ Len(y) = Len(p) + Len(x) /\ Len(p) \in Nat /\ Len(x) \in Nat
      /\ \A i \in 1 .. Len(p) + Len(x) : y[i] = IF i <= Len(p) THEN p[i] ELSE x[i - Len(p)]
  BY ConcatProperties, LenProperties
<1> HIDE DEF y
<1>2. \A i \in 1 .. Len(p) : y[i] = p[i]
  BY <1>1
<1>3. SubSeq(y, Len(p) + 1, Len(y)) = x
  BY Dropped DEF y
<1> QED BY <1>1, <1>2, <1>3 DEF y

LEMMA SameFirst ==
  ASSUME NEW x \in Nat, NEW y \in Nat, NEW r \in Seq(Nat), NEW w \in Seq(Nat),
         <<x>> \o r = <<y>> \o w
  PROVE  x = y /\ r = w
<1>1. <<x>> \in Seq(Nat) /\ <<y>> \in Seq(Nat) /\ Len(<<x>>) = 1 /\ Len(<<y>>) = 1
      /\ <<x>>[1] = x /\ <<y>>[1] = y
  OBVIOUS
<1> DEFINE s == <<x>> \o r
           v == <<y>> \o w
<1>2. /\ Len(s) = 1 + Len(r) /\ Len(r) \in Nat
      /\ \A i \in 1 .. 1 + Len(r) : s[i] = IF i <= 1 THEN <<x>>[i] ELSE r[i - 1]
  BY <1>1, ConcatProperties, LenProperties
<1>3. /\ Len(v) = 1 + Len(w) /\ Len(w) \in Nat
      /\ \A i \in 1 .. 1 + Len(w) : v[i] = IF i <= 1 THEN <<y>>[i] ELSE w[i - 1]
  BY <1>1, ConcatProperties, LenProperties
<1>4. s = v
  OBVIOUS
<1> HIDE DEF s, v
<1>5. x = y
  BY <1>1, <1>2, <1>3, <1>4
<1>6. <<x>> \o r = <<x>> \o w /\ <<x>> \in Seq(Nat)
  BY <1>1, <1>5
<1>7. r = w
  <2>1. \A S : \A a, c, e \in Seq(S) : a \o c = a \o e => c = e
    BY ConcatSimplifications, Zenon
  <2> DEFINE a == <<x>>
  <2>2. a \in Seq(Nat) /\ a \o r = a \o w
    BY <1>6
  <2> HIDE DEF a
  <2> QED BY <2>1, <2>2, Zenon
<1> QED BY <1>5, <1>7

LEMMA OnlyFirst ==
  ASSUME NEW x \in Nat, NEW r \in Seq(Nat)
  PROVE  /\ <<x>> \o r # << >>
         /\ \A y \in Nat : <<x>> \o r = <<y>> => x = y /\ r = << >>
<1>1. <<x>> \in Seq(Nat) /\ Len(<<x>>) = 1
  OBVIOUS
<1>2. Len(<<x>> \o r) = 1 + Len(r) /\ Len(r) \in Nat
  BY <1>1, ConcatProperties, LenProperties
<1>3. <<x>> \o r # << >>
  <2> DEFINE s == <<x>> \o r
  <2>1. Len(s) # 0
    BY <1>2
  <2> HIDE DEF s
  <2>2. s # << >>
    BY <2>1
  <2> QED BY <2>2 DEF s
<1>4. ASSUME NEW y \in Nat, <<x>> \o r = <<y>> PROVE x = y /\ r = << >>
  <2>1. <<y>> \o << >> = <<y>> /\ << >> \in Seq(Nat) /\ <<y>> \in Seq(Nat)
    BY EmptySeq, ConcatEmptySeq
  <2>2. <<x>> \o r = <<y>> \o << >>
    BY <1>4, <2>1
  <2> QED BY <2>1, <2>2, SameFirst
<1> QED BY <1>3, <1>4

LEMMA OwesFirst ==
  ASSUME NEW b \in BOOLEAN, NEW op \in Ops(b), op # RESET
  PROVE  /\ op \in Nat /\ op < Streamed /\ Streamed \in Nat
         /\ \E h \in Nat, e \in Seq(Nat) :
              /\ Owes(b, op) = <<h>> \o e
              /\ \/ h = op
                 \/ ~b /\ op = STREAM_TRACE_START /\ h = Streamed
<1>1. op \in Nat /\ op < Streamed /\ Streamed \in Nat /\ STREAM_TRACE_START # RESET
  BY DEF Ops, Streamed, STREAM_TRACE_START, RESET
<1>2. /\ \A h \in Nat : <<h>> \o << >> = <<h>>
      /\ <<op>> \o <<Streamed>> = <<op, Streamed>>
      /\ << >> \in Seq(Nat) /\ <<Streamed>> \in Seq(Nat)
  <2>1. \A h \in Nat : <<h>> \o << >> = <<h>>
    <3> TAKE h \in Nat
    <3>1. <<h>> \in Seq(Nat)
      OBVIOUS
    <3> QED BY <3>1, ConcatEmptySeq
  <2> QED BY <1>1, <2>1, Pair
<1>3. CASE b /\ op = RESUMESTREAMING
  <2>1. Owes(b, op) = <<op, Streamed>>
    BY <1>3 DEF Owes, RESUMESTREAMING, RESET
  <2>2. Owes(b, op) = <<op>> \o <<Streamed>>
    BY <1>2, <2>1
  <2> QED BY <1>1, <1>2, <2>2, Zenon
<1>4. CASE ~b /\ op = STREAM_TRACE_START
  <2>1. Owes(b, op) = <<Streamed>>
    BY <1>4 DEF Owes, STREAM_TRACE_START, RESET
  <2> QED BY <1>1, <1>2, <1>4, <2>1
<1>5. CASE ~(b /\ op = RESUMESTREAMING) /\ ~(~b /\ op = STREAM_TRACE_START)
  <2>1. Owes(b, op) = <<op>>
    BY <1>5 DEF Owes
  <2> QED BY <1>1, <1>2, <2>1
<1> QED BY <1>3, <1>4, <1>5

(* What the steps that read ask for.                                       *)
ReadKinds == {"read", "readSet", "readPause", "popTrace", "wait"}
ReadingFits(b, c, X, q, k, d, hs, s, r) ==
  \/ s.do = "read"      /\ ReadFits(b, c, X, q, k, d, hs, s, r)
  \/ s.do = "readSet"   /\ ReadSetFits(b, X, q, k, d, hs, s, r)
  \/ s.do = "readPause" /\ ReadPauseFits(b, X, q, k, d, hs, s, r)
  \/ s.do = "popTrace"  /\ PopTraceFits(b, X, q, k, d, hs, s, r)
  \/ s.do = "wait"      /\ WaitFits(b, X, q, k, d, hs, s, r)

(* The packet at the front is for the step that reads: a report, the reply *)
(* it waits for, a refusal of what it asked for, or a trace entry.         *)
IsForStep(b, c, s, p, cc, c1, t, t1, q, q1) ==
  \/ p = ReportOf(b) /\ t1 = t /\ q1 = q /\ c1 = cc
  \/ /\ s.do \in {"read", "readSet", "readPause"} /\ s.op \in Ops(b) /\ s.arg = ReplyLength(b, s.op)
     /\ IsReplyTo(b, s.op, p) /\ q = <<s.op>> \o q1 /\ c1 = Believed(b, s.op, cc)
  \/ \E op \in Ops(b) :
       /\ Refuses(b, op, p) /\ q = Owes(b, op) \o q1 /\ c1 = cc
       /\ \/ s.do \in {"read", "readSet", "readPause"} /\ op = s.op
          \/ s.do = "popTrace" /\ ~b /\ op = STREAM_TRACE_START
       /\ c \notin Pipelined => q1 = << >>
  \/ /\ s.do = "popTrace" /\ s.arg = 32 /\ c1 = cc
     /\ \/ p = EntryOf(b, FALSE) /\ t1 = t /\ q1 = q
        \/ p = EntryOf(b, TRUE) /\ q1 = << >>

LEMMA FrontMatches ==
  ASSUME NEW b \in BOOLEAN, NEW c, NEW X, NEW q \in Seq(Nat), NEW k, NEW d, NEW hs, NEW s \in Steps,
         NEW r, NEW z \in Seq(Nat), NEW t \in Seq(Nat), NEW t1 \in Seq(Nat), q = t \o z,
         NEW p, NEW cc, NEW c1, FirstIs(b, p, cc, c1, t, t1),
         ReadingFits(b, c, X, q, k, d, hs, s, r)
  PROVE  t1 \o z \in Seq(Nat) /\ IsForStep(b, c, s, p, cc, c1, t, t1, q, t1 \o z)
<1> DEFINE q1 == t1 \o z
<1>1. q1 \in Seq(Nat)
  BY ConcatProperties
<1>2. \A a \in Seq(Nat) : t = a \o t1 => q = a \o q1
  <2>1. \A a \in Seq(Nat) : (a \o t1) \o z = a \o (t1 \o z)
    <3> TAKE a \in Seq(Nat)
    <3> QED BY RepliesRegroup, ZenonT(60)
  <2> QED BY <2>1, Zenon
<1>3. t1 = t => q1 = q
  OBVIOUS
<1> HIDE DEF q1
<1>4. \A op \in Ops(b) : op \in Nat /\ op < Streamed /\ Streamed \in Nat
  BY DEF Ops, Streamed
<1>5. Streamed \in Nat
  BY DEF Streamed
<1>6. ASSUME NEW h \in Nat, NEW w \in Seq(Nat), q = <<h>> \o w
      PROVE  \/ s.do = "read" /\ s.op = h /\ s.op \in Ops(b)
             \/ s.do \in {"readSet", "readPause"} /\ s.op = h /\ s.op \in Ops(b) /\ w = << >>
             \/ s.do = "popTrace" /\ h = Streamed /\ w = << >>
  <2>1. CASE s.do = "read" /\ ReadFits(b, c, X, q, k, d, hs, s, r)
    <3>1. s.op \in Ops(b) /\ s.op \in Nat
      BY <1>4, <2>1 DEF ReadFits
    <3>2. PICK rest \in Seq(Nat) : q = <<s.op>> \o rest
      BY <2>1, Zenon DEF ReadFits
    <3>3. s.op = h
      BY <1>6, <3>1, <3>2, SameFirst
    <3> QED BY <2>1, <3>1, <3>3
  <2>2. CASE s.do \in {"readSet", "readPause"} /\ s.op \in SetOps /\ b /\ q = <<s.op>>
    <3>1. s.op \in Nat /\ s.op \in Ops(b)
      BY <2>2 DEF SetOps, PAUSEPIPELINE, RESUMEPIPELINE, RESUMEUNPIPELINED, Ops, RESET
    <3>2. h = s.op /\ w = << >>
      BY <1>6, <2>2, <3>1, OnlyFirst
    <3> QED BY <2>2, <3>1, <3>2
  <2>3. CASE s.do = "popTrace" /\ q = <<Streamed>>
    <3>1. h = Streamed /\ w = << >>
      BY <1>5, <1>6, <2>3, OnlyFirst
    <3> QED BY <2>3, <3>1
  <2>4. CASE q = << >>
    BY <1>6, <2>4, OnlyFirst
  <2> QED BY <2>1, <2>2, <2>3, <2>4 DEF ReadingFits, ReadSetFits, ReadPauseFits, PopTraceFits, WaitFits,
                                       SetOps
<1>7. CASE p = ReportOf(b) /\ t1 = t /\ c1 = cc
  BY <1>1, <1>3, <1>7 DEF IsForStep, q1
<1>8. ASSUME NEW op \in Ops(b), IsReplyTo(b, op, p), t = <<op>> \o t1, c1 = Believed(b, op, cc)
      PROVE  IsForStep(b, c, s, p, cc, c1, t, t1, q, q1)
  <2>1. op \in Nat /\ <<op>> \in Seq(Nat) /\ op # Streamed
    BY <1>4
  <2>2. q = <<op>> \o q1
    BY <1>2, <1>8, <2>1, Zenon
  <2>3. s.do \in {"read", "readSet", "readPause"} /\ s.op = op
    BY <1>1, <1>6, <2>1, <2>2
  <2>4. s.arg = ReplyLength(b, s.op)
    <3>1. s.do = "read" => s.arg = ReplyLength(b, s.op)
      BY DEF ReadingFits, ReadFits
    <3>2. s.do \in {"readSet", "readPause"} => s.arg = 1 /\ b /\ s.op \in SetOps
      BY DEF ReadingFits, ReadSetFits, ReadPauseFits, SetOps
    <3>3. b /\ s.op \in SetOps => ReplyLength(b, s.op) = 1
      BY SMTT(30) DEF ReplyLength, SetOps, PAUSEPIPELINE, RESUMEPIPELINE, RESUMEUNPIPELINED, GETPC,
             GETDOUBLEWORD, GETREGISTER, GETWORD, GETHALFWORD, GETBYTE, GETC2REGISTER, RESUMESTREAMING
    <3> QED BY <2>3, <3>1, <3>2, <3>3
  <2> QED BY <1>8, <2>2, <2>3, <2>4, Zenon DEF IsForStep
<1>9. ASSUME NEW op \in Ops(b), Refuses(b, op, p), t = Owes(b, op) \o t1, c1 = cc
      PROVE  IsForStep(b, c, s, p, cc, c1, t, t1, q, q1)
  <2>1. op # RESET
    BY <1>9 DEF Refuses
  <2>2. op \in Nat /\ op # Streamed /\ Owes(b, op) \in Seq(Nat)
    BY <1>4, OwesType
  <2>3. q = Owes(b, op) \o q1
    BY <1>2, <1>9, <2>2, Zenon
  <2>4. PICK h \in Nat, e \in Seq(Nat) : /\ Owes(b, op) = <<h>> \o e
                                         /\ \/ h = op
                                            \/ ~b /\ op = STREAM_TRACE_START /\ h = Streamed
    BY <2>1, OwesFirst
  <2>5. q = <<h>> \o (e \o q1) /\ e \o q1 \in Seq(Nat)
    <3>1. <<h>> \in Seq(Nat)
      OBVIOUS
    <3>2. (<<h>> \o e) \o q1 = <<h>> \o (e \o q1)
      BY <1>1, <3>1, RepliesRegroup, ZenonT(60)
    <3> QED BY <1>1, <2>3, <2>4, <3>2, ConcatProperties
  <2>6. e \o q1 = << >> => q1 = << >>
    BY <1>1, ConcatEqualIffEmpty
  <2>7. \/ s.do = "read" /\ s.op = h /\ s.op \in Ops(b)
        \/ s.do \in {"readSet", "readPause"} /\ s.op = h /\ s.op \in Ops(b) /\ q1 = << >>
        \/ s.do = "popTrace" /\ h = Streamed /\ q1 = << >>
    BY <1>6, <2>5, <2>6
  <2>8. \/ s.do \in {"read", "readSet", "readPause"} /\ op = s.op
        \/ s.do = "popTrace" /\ ~b /\ op = STREAM_TRACE_START
    <3>1. s.op \in Ops(b) => s.op # Streamed
      BY <1>4
    <3> QED BY <2>2, <2>4, <2>7, <3>1
  <2>9. c \notin Pipelined => q1 = << >>
    <3> SUFFICES ASSUME c \notin Pipelined PROVE q1 = << >>
      OBVIOUS
    <3>1. CASE s.do = "read"
      <4>1. q = Owes(b, s.op) /\ op = s.op
        BY <2>8, <3>1 DEF ReadingFits, ReadFits
      <4>2. Owes(b, op) \o q1 = Owes(b, op)
        BY <2>3, <4>1
      <4> QED BY <1>1, <2>2, <4>2, ConcatEqualIffEmpty
    <3> QED BY <2>7, <3>1
  <2> QED BY <1>9, <2>3, <2>8, <2>9, Zenon DEF IsForStep
<1>10. CASE p = EntryOf(b, FALSE) /\ t1 = t /\ t # << >> /\ t[1] = Streamed /\ c1 = cc
  <2>1. Tail(t) \in Seq(Nat) /\ t = <<Streamed>> \o Tail(t)
    BY <1>10, FirstAndRest
  <2>2. <<Streamed>> \in Seq(Nat)
    BY <1>5
  <2>3. q = <<Streamed>> \o (Tail(t) \o z) /\ Tail(t) \o z \in Seq(Nat)
    <3>1. (<<Streamed>> \o Tail(t)) \o z = <<Streamed>> \o (Tail(t) \o z)
      BY <2>1, <2>2, RepliesRegroup
    <3> QED BY <2>1, <3>1, ConcatProperties
  <2>4. s.do = "popTrace"
    <3>1. s.op \in Ops(b) => s.op # Streamed
      BY <1>4
    <3> QED BY <1>5, <1>6, <2>3, <3>1
  <2>5. s.arg = 32
    BY <2>4 DEF ReadingFits, PopTraceFits
  <2> QED BY <1>3, <1>10, <2>4, <2>5, Zenon DEF IsForStep, q1
<1>11. CASE p = EntryOf(b, TRUE) /\ t = <<Streamed>> \o t1 /\ c1 = cc
  <2>1. <<Streamed>> \in Seq(Nat)
    BY <1>5
  <2>2. q = <<Streamed>> \o q1
    BY <1>2, <1>11, <2>1, Zenon
  <2>3. s.do = "popTrace" /\ q1 = << >>
    <3>1. s.op \in Ops(b) => s.op # Streamed
      BY <1>4
    <3> QED BY <1>1, <1>5, <1>6, <2>2, <3>1
  <2>4. s.arg = 32
    BY <2>3 DEF ReadingFits, PopTraceFits
  <2> QED BY <1>1, <1>11, <2>3, <2>4 DEF IsForStep, q1
<1> QED BY <1>1, <1>7, <1>8, <1>9, <1>10, <1>11, Zenon DEF FirstIs, q1

-----------------------------------------------------------------------------
(* The state, when the next step of the command is taken.                  *)

(* What the next step of the command needs.                                *)
NextFits(q, k) ==
  \/ prog = << >> /\ EndFits(cmd, q, Len(saved), handlers)
  \/ prog # << >> /\ StepFits(beri2, cmd, Good(beri2, cmd), q, k, Len(saved), handlers,
                              Head(prog), Tail(prog), prog)

LEMMA KnowsFits ==
  ASSUME NEW q, NEW k, Knows(q, k)
  PROVE  /\ q \in Seq(Nat) /\ Len(saved) \in 0 .. 2 /\ handlers \in Seq(Frames) /\ prog \in Seq(Steps)
         /\ \E k2 \in BOOLEAN : Knows(q, k2) /\ NextFits(q, k2)
<1>1. /\ q \in Seq(Nat) /\ k \in BOOLEAN /\ Len(saved) \in 0 .. 2 /\ handlers \in Seq(Frames)
      /\ prog \in Seq(Steps)
  BY GoodIs, Zenon DEF Knows
<1>2. Fits(beri2, cmd, Good(beri2, cmd), q, k, Len(saved), handlers, prog)
  BY GoodIs, Zenon DEF Knows
<1>3. CASE k /\ <<q, FALSE, Len(saved), handlers, prog>> \in Good(beri2, cmd)
  <2>1. Fits(beri2, cmd, Good(beri2, cmd), q, FALSE, Len(saved), handlers, prog)
    BY <1>3, GoodIs, Zenon
  <2>2. NextFits(q, FALSE)
    BY <2>1, Zenon DEF Fits, NextFits
  <2>3. Knows(q, FALSE) /\ FALSE \in BOOLEAN
    BY <1>3 DEF Knows
  <2> QED BY <1>1, <2>2, <2>3, Zenon
<1>4. CASE NextFits(q, k)
  BY <1>1, <1>4, Zenon
<1> QED BY <1>2, <1>3, <1>4, Zenon DEF Fits, NextFits

LEMMA AfterFailure ==
  ASSUME Types, handlers \in Seq(Frames), Failed(handlers) \in Good(beri2, cmd),
         NEW e, Fail(e), beri2' = beri2
  PROVE  Knows(<< >>, FALSE)' /\ saved' \in Seq(0 .. 255)
<1>1. handlers' = handlers /\ cmd' = cmd /\ prog' = Handler.rest /\ saved' = Handler.saved
  BY DEF Fail
<1>2. CASE handlers = << >>
  <2>1. Handler = [rest |-> << >>, saved |-> << >>]
    BY <1>2 DEF Handler
  <2>2. prog' = << >> /\ saved' = << >> /\ Len(saved') = 0
    BY <1>1, <2>1
  <2>3. << <<>>, FALSE, 0, handlers, <<>> >> \in Good(beri2, cmd)
    BY <1>2 DEF Failed
  <2>4. << >> \in Seq(0 .. 255)
    BY EmptySeq
  <2> QED BY <1>1, <2>2, <2>3, <2>4 DEF Knows
<1>3. CASE handlers # << >>
  <2>1. Handler = Head(handlers) /\ Head(handlers) = handlers[1] /\ Head(handlers) \in Frames
    BY <1>3, HeadTailProperties DEF Handler
  <2>2. << <<>>, FALSE, Len(handlers[1].saved), handlers, handlers[1].rest >> \in Good(beri2, cmd)
    BY <1>3 DEF Failed
  <2>3. Head(handlers).saved \in Seq(0 .. 255)
    BY <2>1 DEF Frames
  <2> QED BY <1>1, <2>1, <2>2, <2>3 DEF Knows
<1> QED BY <1>2, <1>3

LEMMA ReadingIs ==
  ASSUME NEW q, NEW k, Reading, NextFits(q, k)
  PROVE  /\ open /\ prog # << >> /\ Head(prog).do \in ReadKinds
         /\ ReadingFits(beri2, cmd, Good(beri2, cmd), q, k, Len(saved), handlers,
                        Head(prog), Tail(prog))
         /\ Failed(handlers) \in Good(beri2, cmd)
<1>1. open /\ prog # << >> /\ Head(prog).do \in ReadKinds
  BY DEF Reading, At, ReadKinds
<1>2. StepFits(beri2, cmd, Good(beri2, cmd), q, k, Len(saved), handlers, Head(prog), Tail(prog), prog)
  BY <1>1 DEF NextFits
<1>3. ReadingFits(beri2, cmd, Good(beri2, cmd), q, k, Len(saved), handlers, Head(prog), Tail(prog))
  BY <1>1, <1>2 DEF StepFits, ReadingFits, ReadKinds
<1>4. Failed(handlers) \in Good(beri2, cmd)
  BY <1>3, Zenon DEF ReadingFits, ReadFits, ReadSetFits, ReadPauseFits, PopTraceFits, WaitFits
<1> QED BY <1>1, <1>3, <1>4

LEMMA FlowTypes ==
  ASSUME Types
  PROVE  /\ net \o out \in Seq(Reqs(beri2)) /\ Tokens(beri2, net \o out) \in Seq(Nat)
         /\ Mode \in Modes
<1>1. beri2 \in BOOLEAN /\ net \in Seq(Reqs(beri2)) /\ out \in Seq(Reqs(beri2))
  BY DEF Types
<1> DEFINE R == Reqs(beri2)
<1>2. net \in Seq(R) /\ out \in Seq(R)
  BY <1>1
<1> HIDE DEF R
<1>3. net \o out \in Seq(R)
  BY <1>2, ConcatProperties
<1>4. net \o out \in Seq(Reqs(beri2))
  BY <1>3 DEF R
<1>5. Tokens(beri2, net \o out) \in Seq(Nat)
  BY <1>1, <1>4, TokensLast
<1>6. Mode \in Modes
  BY DEF Mode, Modes
<1> QED BY <1>4, <1>5, <1>6

LEMMA ReadFront ==
  ASSUME Types, prog \in Seq(Steps), NEW q \in Seq(Nat), NEW k, Reading, NextFits(q, k),
         NEW t \in Seq(Nat), NEW u \in Known, Flows(q, t, u), back # << >>
  PROVE  \E p \in Seq(Bytes), x1 \in Seq(Bytes), c1 \in Known, t1 \in Seq(Nat), q1 \in Seq(Nat) :
           /\ Len(back) >= Len(p) /\ \A i \in 1 .. Len(p) : back[i] = p[i]
           /\ SubSeq(back, Len(p) + 1, Len(back)) = x1
           /\ q1 = t1 \o Tokens(beri2, net \o out)
           /\ <<x1, c1, Mode, t1, u>> \in Owed(beri2)
           /\ IsForStep(beri2, cmd, Head(prog), p, cached, c1, t, t1, q, q1)
<1>1. beri2 \in BOOLEAN /\ back \in Seq(Bytes)
  BY DEF Types
<1>2. FrontIs(beri2, back, cached, Mode, t, u)
  BY <1>1, OwedFront, Zenon DEF Flows
<1>3. PICK p \in Seq(Bytes), x1 \in Seq(Bytes), c1 \in Known, t1 \in Seq(Nat) :
        /\ back = p \o x1 /\ FirstIs(beri2, p, cached, c1, t, t1)
        /\ <<x1, c1, Mode, t1, u>> \in Owed(beri2)
  BY <1>2, Zenon DEF FrontIs
<1>4. /\ Len(back) = Len(p) + Len(x1) /\ Len(p) \in Nat /\ Len(x1) \in Nat
      /\ \A i \in 1 .. Len(p) : back[i] = p[i]
      /\ SubSeq(back, Len(p) + 1, Len(back)) = x1
  BY <1>3, Fronted
<1>5. Len(back) >= Len(p)
  BY <1>4
<1> DEFINE z == Tokens(beri2, net \o out)
<1>6. z \in Seq(Nat) /\ q = t \o z
  BY FlowTypes DEF Flows
<1>7. Head(prog) \in Steps
  BY ReadingIs, HeadTailProperties
<1>8. ReadingFits(beri2, cmd, Good(beri2, cmd), q, k, Len(saved), handlers, Head(prog), Tail(prog))
  BY ReadingIs, Zenon
<1> HIDE DEF z
<1>9. t1 \o z \in Seq(Nat) /\ IsForStep(beri2, cmd, Head(prog), p, cached, c1, t, t1, q, t1 \o z)
  BY <1>1, <1>3, <1>6, <1>7, <1>8, FrontMatches, Zenon
<1> QED BY <1>3, <1>4, <1>5, <1>9, Zenon DEF z

LEMMA Agreeing ==
  ASSUME IInv
  PROVE  /\ handlers \in Seq(Frames) /\ prog \in Seq(Steps) /\ Len(saved) \in 0 .. 2
         /\ \E q \in Seq(Nat), k \in BOOLEAN :
              /\ Knows(q, k) /\ NextFits(q, k)
              /\ ~open => q = << >>
              /\ ~sloppy => \E t \in Seq(Nat), u \in Known : Flows(q, t, u)
<1>1. PICK q \in Seq(Nat), k \in BOOLEAN :
        /\ Knows(q, k)
        /\ ~open => q = << >>
        /\ ~sloppy => \E t \in Seq(Nat), u \in Known : Flows(q, t, u)
  BY Zenon DEF IInv, Agrees
<1>2. /\ Len(saved) \in 0 .. 2 /\ handlers \in Seq(Frames) /\ prog \in Seq(Steps)
      /\ \E k2 \in BOOLEAN : Knows(q, k2) /\ NextFits(q, k2)
  BY <1>1, KnowsFits, Zenon
<1> QED BY <1>1, <1>2, Zenon

LEMMA QuietFlows ==
  ASSUME NEW q, NEW t, NEW u, Flows(q, t, u), UNCHANGED <<beri2, out, net, back, cached, unit>>
  PROVE  Flows(q, t, u)'
<1>1. Mode' = Mode
  BY DEF Mode
<1>2. beri2' = beri2 /\ out' = out /\ net' = net /\ back' = back /\ cached' = cached /\ unit' = unit
  OBVIOUS
<1> QED BY <1>1, <1>2 DEF Flows

(* What the reader takes from the front is a packet of the flow.           *)
LEMMA ReadFlows ==
  ASSUME NEW q, NEW x1, NEW c1, NEW t1, NEW u, <<x1, c1, Mode, t1, u>> \in Owed(beri2),
         q = t1 \o Tokens(beri2, net \o out), beri2 /\ u = PAUSED => unit.state \in {PAUSED, RUNSTREAMING},
         UNCHANGED <<beri2, out, net, unit>>, back' = x1, cached' = c1
  PROVE  Flows(q, t1, u)'
<1>1. Mode' = Mode
  BY DEF Mode
<1>2. beri2' = beri2 /\ out' = out /\ net' = net /\ unit' = unit
  OBVIOUS
<1> QED BY <1>1, <1>2 DEF Flows

(* What its first bytes tell of it.                                        *)
LooksReport(b, p, n, cc, c1, t, t1, q, q1) ==
  /\ p[1] = (IF b THEN 46 ELSE 255) /\ p[2] = (IF b THEN 9 ELSE 8)
  /\ n = (IF b THEN 11 ELSE 10)
  /\ t1 = t /\ q1 = q /\ c1 = cc
LooksReply(b, s, p, n, cc, c1, q, q1) ==
  /\ p[1] \notin (IF b THEN {46, 47} ELSE {32, 197, 255}) /\ p[2] = s.arg /\ n = s.arg + 2
  /\ s.do \in {"read", "readSet", "readPause"} /\ q = <<s.op>> \o q1
  /\ s.op \in Ops(b) /\ c1 = Believed(b, s.op, cc)
  /\ p[1] = (IF b THEN s.op + 1 ELSE s.op + 128)
LooksException(b, c, s, p, n, cc, c1, q1) ==
  /\ p[1] = (IF b THEN 47 ELSE 197) /\ p[2] = 1 /\ n = 3
  /\ s.do \in {"read", "readSet", "readPause"} /\ s.op \in MayExceptOf(b) \cup UnknownOf(b)
  /\ b \/ s.op \in MayExceptOf(b)
  /\ c1 = cc
  /\ c \notin Pipelined => q1 = << >>
LooksInvalid(b, s, p) ==
  /\ ~b /\ p[1] = 32
  /\ \/ s.do \in {"read", "readSet", "readPause"} /\ s.op \in UnknownOf(b)
     \/ s.do = "popTrace" /\ STREAM_TRACE_START \in UnknownOf(b)
LooksEntry(b, s, p, n, cc, c1, t, t1, q, q1) ==
  /\ p[1] = (IF b THEN 43 ELSE 244) /\ p[2] = 32 /\ n = 34 /\ s.arg = 32
  /\ s.do = "popTrace" /\ c1 = cc
  /\ \/ t1 = t /\ q1 = q /\ (b => p[3] # 0)
     \/ b /\ q1 = << >> /\ p[3] = 0
LooksEnd(b, s, p, n, cc, c1, q1) ==
  /\ ~b /\ p[1] = 211 /\ p[2] = 0 /\ n = 2 /\ s.arg = 32
  /\ s.do = "popTrace" /\ c1 = cc /\ q1 = << >>

Looks(b, c, s, p, n, cc, c1, t, t1, q, q1) ==
  \/ LooksReport(b, p, n, cc, c1, t, t1, q, q1)
  \/ LooksReply(b, s, p, n, cc, c1, q, q1)
  \/ LooksException(b, c, s, p, n, cc, c1, q1)
  \/ LooksInvalid(b, s, p)
  \/ LooksEntry(b, s, p, n, cc, c1, t, t1, q, q1)
  \/ LooksEnd(b, s, p, n, cc, c1, q1)

LEMMA FirstByte ==
  ASSUME NEW b \in BOOLEAN, NEW c, NEW s, NEW p, NEW cc, NEW c1, NEW t, NEW t1, NEW q, NEW q1,
         IsForStep(b, c, s, p, cc, c1, t, t1, q, q1)
  PROVE  Len(p) \in Nat /\ Len(p) >= 2 /\ Looks(b, c, s, p, Len(p), cc, c1, t, t1, q, q1)
<1>1. CASE p = ReportOf(b) /\ t1 = t /\ q1 = q /\ c1 = cc
  BY <1>1, ReportType DEF Looks, LooksReport, LooksReply,
            LooksException, LooksInvalid, LooksEntry, LooksEnd
<1>2. CASE /\ s.do \in {"read", "readSet", "readPause"} /\ s.op \in Ops(b) /\ s.arg = ReplyLength(b, s.op)
           /\ IsReplyTo(b, s.op, p) /\ q = <<s.op>> \o q1 /\ c1 = Believed(b, s.op, cc)
  <2>1. /\ Len(p) = ReplyLength(b, s.op) + 2
        /\ p[1] = (IF b THEN s.op + 1 ELSE s.op + 128) /\ p[2] = ReplyLength(b, s.op)
        /\ p[1] \notin (IF b THEN {46, 47} ELSE {32, 197, 255})
    BY <1>2, ReplyFacts
  <2>2. ReplyLength(b, s.op) \in Nat
    BY DEF ReplyLength
  <2> QED BY <1>2, <2>1, <2>2 DEF Looks, LooksReport, LooksReply,
            LooksException, LooksInvalid, LooksEntry, LooksEnd
<1>3. ASSUME NEW op \in Ops(b), Refuses(b, op, p), q = Owes(b, op) \o q1, c1 = cc,
             \/ s.do \in {"read", "readSet", "readPause"} /\ op = s.op
             \/ s.do = "popTrace" /\ ~b /\ op = STREAM_TRACE_START,
             c \notin Pipelined => q1 = << >>
      PROVE  Len(p) \in Nat /\ Len(p) >= 2 /\ Looks(b, c, s, p, Len(p), cc, c1, t, t1, q, q1)
  <2>1. /\ \/ op \in MayExceptOf(b) /\ Len(p) = 3 /\ p[1] = ExceptionOf(b) /\ p[2] = 1
           \/ op \in UnknownOf(b) /\ Len(p) = (IF b THEN 3 ELSE 2) /\ p[1] = InvalidOf(b)
              /\ p[2] = (IF b THEN 1 ELSE 0)
    BY <1>3, RefusalFacts
  <2>2. ~b /\ op = STREAM_TRACE_START => op \notin MayExceptOf(b)
    BY DEF MayExceptOf, STREAM_TRACE_START, EXECUTE_INSTRUCTION
  <2> QED BY <1>3, <2>1, <2>2 DEF ExceptionOf, InvalidOf, Looks, LooksReport, LooksReply,
            LooksException, LooksInvalid, LooksEntry, LooksEnd
<1>4. CASE s.do = "popTrace" /\ s.arg = 32 /\ c1 = cc
           /\ \/ p = EntryOf(b, FALSE) /\ t1 = t /\ q1 = q
              \/ p = EntryOf(b, TRUE) /\ q1 = << >>
  <2>1. FALSE \in BOOLEAN /\ TRUE \in BOOLEAN
    OBVIOUS
  <2> DEFINE f == EntryOf(b, FALSE)
             l == EntryOf(b, TRUE)
  <2>4. /\ Len(f) = 34 /\ f[1] = (IF b THEN 43 ELSE 244) /\ f[2] = 32
        /\ b => f[3] = 1
    <3> DEFINE v == FALSE
    <3>1. v \in BOOLEAN /\ ~v
      OBVIOUS
    <3> HIDE DEF v
    <3>2. /\ Len(EntryOf(b, v)) = 34 /\ EntryOf(b, v)[1] = (IF b THEN 43 ELSE 244)
          /\ EntryOf(b, v)[2] = 32
          /\ b => EntryOf(b, v)[3] = 1
      BY <3>1, EntryFacts
    <3> QED BY <3>2 DEF v, f
  <2>5. /\ b => Len(l) = 34 /\ l[1] = 43 /\ l[2] = 32 /\ l[3] = 0
        /\ ~b => Len(l) = 2 /\ l[1] = 211 /\ l[2] = 0
    BY <2>1, EntryFacts, ZenonT(60)
  <2> HIDE DEF f, l
  <2>2. CASE p = f /\ t1 = t /\ q1 = q
    BY <1>4, <2>2, <2>4 DEF Looks, LooksReport, LooksReply,
            LooksException, LooksInvalid, LooksEntry, LooksEnd
  <2>3. CASE p = l /\ q1 = << >>
    BY <1>4, <2>3, <2>5 DEF Looks, LooksReport, LooksReply,
            LooksException, LooksInvalid, LooksEntry, LooksEnd
  <2> QED BY <1>4, <2>2, <2>3 DEF f, l
<1>5. CASE \E op \in Ops(b) :
             /\ Refuses(b, op, p) /\ q = Owes(b, op) \o q1 /\ c1 = cc
             /\ \/ s.do \in {"read", "readSet", "readPause"} /\ op = s.op
                \/ s.do = "popTrace" /\ ~b /\ op = STREAM_TRACE_START
             /\ c \notin Pipelined => q1 = << >>
  <2>1. PICK op \in Ops(b) :
             /\ Refuses(b, op, p) /\ q = Owes(b, op) \o q1 /\ c1 = cc
             /\ \/ s.do \in {"read", "readSet", "readPause"} /\ op = s.op
                \/ s.do = "popTrace" /\ ~b /\ op = STREAM_TRACE_START
             /\ c \notin Pipelined => q1 = << >>
    BY <1>5
  <2> QED BY <1>3, <2>1, Zenon
<1> QED BY <1>1, <1>2, <1>4, <1>5, Zenon DEF IsForStep

(* The packet at the front, of n bytes, by what its reader sees of it.     *)
StepReads == {"read", "readSet", "readPause"}
ReportSeen(n, c1, t, t1, q, q1) ==
  /\ back[1] = breakpointFiredOp /\ back[2] = (IF beri2 THEN 9 ELSE 8)
  /\ n = (IF beri2 THEN 11 ELSE 10)
  /\ t1 = t /\ q1 = q /\ c1 = cached
ReplySeen(n, c1, q, q1) ==
  LET s == Head(prog) IN
  /\ back[1] \notin {breakpointFiredOp, exceptionOp, invalidOp} /\ back[1] = ReplyOp(s.op)
  /\ back[2] = s.arg /\ n = s.arg + 2
  /\ s.do \in StepReads /\ q = <<s.op>> \o q1 /\ s.op \in Ops(beri2)
  /\ c1 = Believed(beri2, s.op, cached)
ExceptionSeen(n, c1, q1) ==
  LET s == Head(prog) IN
  /\ back[1] = exceptionOp /\ back[2] = 1 /\ n = 3
  /\ s.do \in StepReads
  /\ \/ s.op \in MayExcept
     \/ beri2 /\ s.op \in Unknown
  /\ c1 = cached
  /\ cmd \notin Pipelined => q1 = << >>
InvalidSeen ==
  LET s == Head(prog) IN
  /\ ~beri2 /\ back[1] = invalidOp
  /\ \/ s.do \in StepReads /\ s.op \in Unknown
     \/ s.do = "popTrace" /\ STREAM_TRACE_START \in Unknown
EntrySeen(n, c1, t, t1, q, q1) ==
  LET s == Head(prog) IN
  /\ back[1] = ReplyOp(s.op) /\ back[1] \notin {breakpointFiredOp, exceptionOp, invalidOp}
  /\ back[2] = 32 /\ n = 34 /\ s.arg = 32
  /\ s.do = "popTrace" /\ c1 = cached
  /\ \/ t1 = t /\ q1 = q /\ (beri2 => back[3] # 0)
     \/ beri2 /\ q1 = << >> /\ back[3] = 0
EndSeen(n, c1, q1) ==
  /\ ~beri2 /\ back[1] = StreamEnd /\ back[1] \notin {breakpointFiredOp, exceptionOp, invalidOp}
  /\ back[2] = 0 /\ n = 2 /\ Head(prog).arg = 32
  /\ Head(prog).do = "popTrace" /\ c1 = cached /\ q1 = << >>

LEMMA ReadPacket ==
  ASSUME Types, prog \in Seq(Steps), NEW q \in Seq(Nat), NEW k, Reading, NextFits(q, k),
         NEW t \in Seq(Nat), NEW u \in Known, Flows(q, t, u), back # << >>
  PROVE  \E n \in Nat, x1 \in Seq(Bytes), c1 \in Known, t1 \in Seq(Nat), q1 \in Seq(Nat) :
           /\ n >= 2 /\ Len(back) >= n /\ Forget(n) = x1
           /\ q1 = t1 \o Tokens(beri2, net \o out)
           /\ <<x1, c1, Mode, t1, u>> \in Owed(beri2)
           /\ \/ ReportSeen(n, c1, t, t1, q, q1) \/ ReplySeen(n, c1, q, q1)
              \/ ExceptionSeen(n, c1, q1) \/ InvalidSeen
              \/ EntrySeen(n, c1, t, t1, q, q1) \/ EndSeen(n, c1, q1)
<1>1. PICK p \in Seq(Bytes), x1 \in Seq(Bytes), c1 \in Known, t1 \in Seq(Nat), q1 \in Seq(Nat) :
           /\ Len(back) >= Len(p) /\ \A i \in 1 .. Len(p) : back[i] = p[i]
           /\ SubSeq(back, Len(p) + 1, Len(back)) = x1
           /\ q1 = t1 \o Tokens(beri2, net \o out)
           /\ <<x1, c1, Mode, t1, u>> \in Owed(beri2)
           /\ IsForStep(beri2, cmd, Head(prog), p, cached, c1, t, t1, q, q1)
  BY ReadFront, Zenon
<1>2. beri2 \in BOOLEAN
  BY DEF Types
<1> DEFINE n == Len(p)
           s == Head(prog)
<1>3. n \in Nat /\ n >= 2 /\ Looks(beri2, cmd, s, p, n, cached, c1, t, t1, q, q1)
  BY <1>1, <1>2, FirstByte, Zenon
<1> HIDE DEF n, s
<1>4. back[1] = p[1] /\ back[2] = p[2] /\ (n >= 3 => back[3] = p[3])
  <2>1. 1 \in 1 .. n /\ 2 \in 1 .. n /\ (n >= 3 => 3 \in 1 .. n)
    BY <1>3
  <2>2. \A i \in 1 .. n : back[i] = p[i]
    BY <1>1 DEF n
  <2> QED BY <2>1, <2>2
<1>5. n >= 2 /\ Len(back) >= n /\ Forget(n) = x1
  BY <1>1, <1>3 DEF n, Forget
<1>6. s.do = "popTrace" => s.op = (IF beri2 THEN 42 ELSE 116)
  <2>1. ReadingFits(beri2, cmd, Good(beri2, cmd), q, k, Len(saved), handlers, Head(prog), Tail(prog))
    BY ReadingIs, Zenon
  <2> QED BY <2>1 DEF ReadingFits, PopTraceFits, s, POPTRACE, POP_TRACE
<1>7. MayExcept = MayExceptOf(beri2) /\ Unknown = UnknownOf(beri2)
  BY Zenon DEF MayExcept, MayExceptOf, Unknown, UnknownOf
<1>8. breakpointFiredOp = (IF beri2 THEN 46 ELSE 255) /\ exceptionOp = (IF beri2 THEN 47 ELSE 197)
      /\ invalidOp = (IF beri2 THEN 47 ELSE 32) /\ StreamEnd = 211
      /\ \A op : ReplyOp(op) = (IF beri2 THEN op + 1 ELSE op + 128)
  BY DEF breakpointFiredOp, exceptionOp, invalidOp, StreamEnd, ReplyOp
<1>9. s = Head(prog)
  BY DEF s
<1>10. n = 34 => n >= 3
  BY <1>3
<1>11. LooksReport(beri2, p, n, cached, c1, t, t1, q, q1) => ReportSeen(n, c1, t, t1, q, q1)
  BY <1>4, <1>8 DEF LooksReport, ReportSeen
<1>12. LooksReply(beri2, s, p, n, cached, c1, q, q1) => ReplySeen(n, c1, q, q1)
  BY <1>2, <1>4, <1>8, <1>9, SMTT(30) DEF LooksReply, ReplySeen, StepReads
<1>13. LooksException(beri2, cmd, s, p, n, cached, c1, q1) => ExceptionSeen(n, c1, q1)
  BY <1>2, <1>4, <1>7, <1>8, <1>9 DEF LooksException, ExceptionSeen, StepReads
<1>14. LooksInvalid(beri2, s, p) => InvalidSeen
  BY <1>2, <1>4, <1>7, <1>8, <1>9 DEF LooksInvalid, InvalidSeen, StepReads
<1>15. LooksEntry(beri2, s, p, n, cached, c1, t, t1, q, q1) => EntrySeen(n, c1, t, t1, q, q1)
  <2> SUFFICES ASSUME LooksEntry(beri2, s, p, n, cached, c1, t, t1, q, q1)
               PROVE  EntrySeen(n, c1, t, t1, q, q1)
    OBVIOUS
  <2>1. back[3] = p[3] /\ n = 34 /\ s.do = "popTrace"
    BY <1>4, <1>10 DEF LooksEntry
  <2>2. /\ back[1] = ReplyOp(s.op)
        /\ back[1] \notin {breakpointFiredOp, exceptionOp, invalidOp}
    BY <1>2, <1>4, <1>6, <1>8, <2>1 DEF LooksEntry
  <2> QED BY <1>4, <1>9, <2>1, <2>2, Zenon DEF LooksEntry, EntrySeen
<1>16. LooksEnd(beri2, s, p, n, cached, c1, q1) => EndSeen(n, c1, q1)
  BY <1>2, <1>4, <1>8, <1>9 DEF LooksEnd, EndSeen
<1>17. \/ ReportSeen(n, c1, t, t1, q, q1) \/ ReplySeen(n, c1, q, q1)
       \/ ExceptionSeen(n, c1, q1) \/ InvalidSeen
       \/ EntrySeen(n, c1, t, t1, q, q1) \/ EndSeen(n, c1, q1)
  BY <1>3, <1>11, <1>12, <1>13, <1>14, <1>15, <1>16, Zenon DEF Looks
<1> QED BY <1>1, <1>3, <1>5, <1>17, Zenon

-----------------------------------------------------------------------------
(* The steps of the host that read.                                        *)
LEMMA FailAgrees ==
  ASSUME IInv, NEW q \in Seq(Nat), NEW k, Reading, NextFits(q, k), NEW e, Fail(e), beri2' = beri2,
         ~sloppy' => \E t \in Seq(Nat), u \in Known : Flows(<< >>, t, u)'
  PROVE  Agrees'
<1>1. Failed(handlers) \in Good(beri2, cmd)
  BY ReadingIs, Zenon
<1>2. Types /\ handlers \in Seq(Frames)
  BY Agreeing DEF IInv
<1>3. Knows(<< >>, FALSE)'
  BY <1>1, <1>2, AfterFailure
<1>4. << >> \in Seq(Nat) /\ FALSE \in BOOLEAN
  BY EmptySeq
<1> QED BY <1>3, <1>4 DEF Agrees

LEMMA ReadExceptionAgrees ==
  ASSUME IInv, ReadException
  PROVE  Agrees'
<1>1. PICK q \in Seq(Nat), k \in BOOLEAN :
        /\ Knows(q, k) /\ NextFits(q, k)
        /\ ~sloppy => \E t \in Seq(Nat), u \in Known : Flows(q, t, u)
  BY Agreeing, Zenon
<1>2. /\ Reading /\ Len(back) >= 3 /\ back[1] = exceptionOp /\ back' = Forget(3) /\ Fail("EXCEPTION")
      /\ UNCHANGED <<beri2, ring, out, net, unit, was>> /\ cached' = cached
  BY DEF ReadException, readUnchanged, Arrived, Fail
<1>3. Types /\ prog \in Seq(Steps)
  BY Agreeing DEF IInv
<1>4. ASSUME ~sloppy' PROVE \E t \in Seq(Nat), u \in Known : Flows(<< >>, t, u)'
  <2>1. ~sloppy /\ cmd \notin Pipelined
    BY <1>2, <1>4 DEF Fail, LeavesReplies
  <2>2. PICK t \in Seq(Nat), u \in Known : Flows(q, t, u)
    BY <1>1, <2>1
  <2>3. back # << >>
    BY <1>2
  <2>4. PICK n \in Nat, x1 \in Seq(Bytes), c1 \in Known, t1 \in Seq(Nat), q1 \in Seq(Nat) :
           /\ n >= 2 /\ Len(back) >= n /\ Forget(n) = x1
           /\ q1 = t1 \o Tokens(beri2, net \o out)
           /\ <<x1, c1, Mode, t1, u>> \in Owed(beri2)
           /\ \/ ReportSeen(n, c1, t, t1, q, q1) \/ ReplySeen(n, c1, q, q1)
              \/ ExceptionSeen(n, c1, q1) \/ InvalidSeen
              \/ EntrySeen(n, c1, t, t1, q, q1) \/ EndSeen(n, c1, q1)
    BY <1>1, <1>2, <1>3, <2>2, <2>3, ReadPacket, Zenon
  <2>5. n = 3 /\ c1 = cached /\ q1 = << >>
    BY <1>2, <2>1, <2>4 DEF ReportSeen, ReplySeen, ExceptionSeen, InvalidSeen, EntrySeen, EndSeen,
                            exceptionOp, breakpointFiredOp, invalidOp
  <2>6. beri2 /\ u = PAUSED => unit.state \in {PAUSED, RUNSTREAMING}
    BY <2>2 DEF Flows
  <2>7. Flows(<< >>, t1, u)'
    BY <1>2, <2>4, <2>5, <2>6, ReadFlows
  <2> QED BY <2>7
<1> QED BY <1>1, <1>2, <1>4, FailAgrees

LEMMA ReadInvalidAgrees ==
  ASSUME IInv, ReadInvalid
  PROVE  Agrees'
<1>1. PICK q \in Seq(Nat), k \in BOOLEAN : NextFits(q, k)
  BY Agreeing, Zenon
<1>2. Reading /\ Fail("UNSUPPORTED") /\ beri2' = beri2
  BY DEF ReadInvalid, readUnchanged
<1>3. sloppy'
  BY <1>2 DEF Fail, LeavesReplies
<1> QED BY <1>1, <1>2, <1>3, FailAgrees

LEMMA ReadUnexpectedAgrees ==
  ASSUME IInv, ReadUnexpected
  PROVE  Agrees'
<1>1. PICK q \in Seq(Nat), k \in BOOLEAN :
        /\ Knows(q, k) /\ NextFits(q, k)
        /\ ~sloppy => \E t \in Seq(Nat), u \in Known : Flows(q, t, u)
  BY Agreeing, Zenon
<1>2. /\ Reading /\ Len(back) >= 2 /\ back' = Forget(2) /\ Fail("DATA_UNEXPECTED")
      /\ UNCHANGED <<beri2, ring, out, net, unit, was>> /\ cached' = cached
      /\ \/ back[1] = exceptionOp /\ back[2] # 1
         \/ IsReport /\ back[2] # 8
         \/ IsReply /\ back[2] # Length
  BY DEF ReadUnexpected, readUnchanged, Arrived, Fail
<1>3. Types /\ prog \in Seq(Steps)
  BY Agreeing DEF IInv
<1>4. ASSUME ~sloppy' PROVE \E t \in Seq(Nat), u \in Known : Flows(<< >>, t, u)'
  <2>1. ~sloppy /\ ~beri2
    BY <1>2, <1>4 DEF Fail, LeavesReplies
  <2>2. PICK t \in Seq(Nat), u \in Known : Flows(q, t, u)
    BY <1>1, <2>1
  <2>3. back # << >>
    BY <1>2
  <2>4. PICK n \in Nat, x1 \in Seq(Bytes), c1 \in Known, t1 \in Seq(Nat), q1 \in Seq(Nat) :
           /\ n >= 2 /\ Len(back) >= n /\ Forget(n) = x1
           /\ q1 = t1 \o Tokens(beri2, net \o out)
           /\ <<x1, c1, Mode, t1, u>> \in Owed(beri2)
           /\ \/ ReportSeen(n, c1, t, t1, q, q1) \/ ReplySeen(n, c1, q, q1)
              \/ ExceptionSeen(n, c1, q1) \/ InvalidSeen
              \/ EntrySeen(n, c1, t, t1, q, q1) \/ EndSeen(n, c1, q1)
    BY <1>1, <1>2, <1>3, <2>2, <2>3, ReadPacket, Zenon
  <2>8. At("wait") => Head(prog).arg = 8
    <3>1. ReadingFits(beri2, cmd, Good(beri2, cmd), q, k, Len(saved), handlers, Head(prog), Tail(prog))
      BY <1>1, <1>2, ReadingIs, Zenon
    <3> QED BY <2>1, <3>1 DEF ReadingFits, WaitFits, At
  <2>9. breakpointFiredOp = 255 /\ exceptionOp = 197 /\ invalidOp = 32 /\ StreamEnd = 211
    BY <2>1 DEF breakpointFiredOp, exceptionOp, invalidOp, StreamEnd
  <2>10. ~ReportSeen(n, c1, t, t1, q, q1)
    BY <1>2, <2>1, <2>8, <2>9 DEF ReportSeen, IsReport, IsReply, Length
  <2>11. ~ReplySeen(n, c1, q, q1)
    BY <1>2, <2>9 DEF ReplySeen, IsReport, IsReply, Length
  <2>12. ~ExceptionSeen(n, c1, q1) /\ ~InvalidSeen
    BY <1>2, <2>9 DEF ExceptionSeen, InvalidSeen, IsReport, IsReply, Length
  <2>13. ~EntrySeen(n, c1, t, t1, q, q1)
    BY <1>2, <2>9, SMTT(30) DEF EntrySeen, IsReport, IsReply, Length
  <2>5. n = 2 /\ c1 = cached /\ q1 = << >>
    BY <2>4, <2>10, <2>11, <2>12, <2>13 DEF EndSeen
  <2>6. beri2 /\ u = PAUSED => unit.state \in {PAUSED, RUNSTREAMING}
    BY <2>2 DEF Flows
  <2>7. Flows(<< >>, t1, u)'
    BY <1>2, <2>4, <2>5, <2>6, ReadFlows
  <2> QED BY <2>7
<1> QED BY <1>1, <1>2, <1>4, FailAgrees

LEMMA BreakpointFiredAgrees ==
  ASSUME IInv, beri_debug_client_breakpoint_fired
  PROVE  Agrees'
<1>1. PICK q \in Seq(Nat), k \in BOOLEAN :
        /\ Knows(q, k) /\ NextFits(q, k)
        /\ ~sloppy => \E t \in Seq(Nat), u \in Known : Flows(q, t, u)
  BY Agreeing, Zenon
<1>2. /\ Reading /\ Len(back) >= 10 /\ back' = Forget(10) /\ back[1] = breakpointFiredOp /\ back[2] = 8
      /\ UNCHANGED <<beri2, ring, out, net, unit, was>>
      /\ UNCHANGED <<open, cmd, prog, handlers, cached, saved, sloppy>>
  BY DEF beri_debug_client_breakpoint_fired, readUnchanged, Arrived, IsReport
<1>3. Types /\ prog \in Seq(Steps)
  BY Agreeing DEF IInv
<1>4. ASSUME ~sloppy' PROVE \E t \in Seq(Nat), u \in Known : Flows(q, t, u)'
  <2>1. ~sloppy
    BY <1>2, <1>4
  <2>2. PICK t \in Seq(Nat), u \in Known : Flows(q, t, u)
    BY <1>1, <2>1
  <2>3. back # << >>
    BY <1>2
  <2>4. PICK n \in Nat, x1 \in Seq(Bytes), c1 \in Known, t1 \in Seq(Nat), q1 \in Seq(Nat) :
           /\ n >= 2 /\ Len(back) >= n /\ Forget(n) = x1
           /\ q1 = t1 \o Tokens(beri2, net \o out)
           /\ <<x1, c1, Mode, t1, u>> \in Owed(beri2)
           /\ \/ ReportSeen(n, c1, t, t1, q, q1) \/ ReplySeen(n, c1, q, q1)
              \/ ExceptionSeen(n, c1, q1) \/ InvalidSeen
              \/ EntrySeen(n, c1, t, t1, q, q1) \/ EndSeen(n, c1, q1)
    BY <1>1, <1>2, <1>3, <2>2, <2>3, ReadPacket, Zenon
  <2>5. n = 10 /\ c1 = cached /\ q1 = q
    BY <1>2, <2>1, <2>4 DEF ReportSeen, ReplySeen, ExceptionSeen, InvalidSeen, EntrySeen, EndSeen,
                            exceptionOp, breakpointFiredOp, invalidOp
  <2>6. beri2 /\ u = PAUSED => unit.state \in {PAUSED, RUNSTREAMING}
    BY <2>2 DEF Flows
  <2>7. Flows(q, t1, u)'
    BY <1>2, <2>4, <2>5, <2>6, ReadFlows
  <2> QED BY <2>7
<1>5. Knows(q, k)'
  BY <1>1, <1>2 DEF Knows
<1>6. open'
  BY <1>2 DEF Reading, At
<1> QED BY <1>4, <1>5, <1>6 DEF Agrees

(* What the host knows when it has read a reply.                           *)
AfterReply(q, q2) ==
  LET s == Head(prog) IN
  \/ s.do = "read" /\ q = <<s.op>> \o q2 /\ cached' = cached /\ ~(beri2 /\ s.op \in SetOps)
  \/ /\ s.do \in {"readSet", "readPause"} /\ q = <<s.op>> /\ q2 = << >>
     /\ cached' = s.op \div 2 /\ beri2 /\ s.op \in SetOps
  \/ /\ s.do = "popTrace" /\ cached' = cached
     /\ \/ q2 = q /\ (beri2 => back[3] # 0)
        \/ beri2 /\ back[3] = 0 /\ q2 = << >>
  \/ s.do = "wait" /\ q = << >> /\ q2 = << >> /\ cached' = cached

LEMMA ReadReplyKnows ==
  ASSUME Types, prog \in Seq(Steps), ReadReply, NEW q \in Seq(Nat), NEW k \in BOOLEAN,
         Knows(q, k), NextFits(q, k)
  PROVE  \E q2 \in Seq(Nat), k2 \in BOOLEAN : Knows(q2, k2)' /\ AfterReply(q, q2)
<1> DEFINE s == Head(prog)
           r == Tail(prog)
           d == Len(saved)
           X == Good(beri2, cmd)
<1>1. /\ open /\ prog # << >> /\ s.do \in ReadKinds
      /\ ReadingFits(beri2, cmd, X, q, k, d, handlers, s, r)
  BY ReadingIs, Zenon DEF ReadReply
<1>2. /\ beri2' = beri2 /\ cmd' = cmd /\ handlers' = handlers /\ back \in Seq(Bytes)
      /\ Len(back) >= 2 + s.arg
      /\ prog' = (IF s.do = "popTrace" /\ (beri2 => back[3] # 0) THEN prog ELSE r)
      /\ cached' = (IF s.do = "readSet" THEN s.op \div 2 ELSE IF s.do = "readPause" THEN PAUSED ELSE cached)
      /\ saved' = (IF s.do = "readPause" THEN <<back[3]>> \o saved ELSE saved)
  BY <1>1 DEF ReadReply, readUnchanged, Types, At, Arrived, Length
<1>3. << >> \in Seq(Nat) /\ FALSE \in BOOLEAN /\ TRUE \in BOOLEAN
  BY EmptySeq
<1>4. /\ k => cached = PAUSED
      /\ <<q, k, d, handlers, prog>> \in X
  BY DEF Knows
<1> HIDE DEF s, r, X
<1>5. CASE s.do = "read"
  <2>1. ReadFits(beri2, cmd, X, q, k, d, handlers, s, r)
    BY <1>1, <1>5 DEF ReadingFits
  <2>2. PICK rest \in Seq(Nat) : q = <<s.op>> \o rest /\ <<rest, k, d, handlers, r>> \in X
    BY <2>1, Zenon DEF ReadFits
  <2>3. prog' = r /\ cached' = cached /\ saved' = saved
    BY <1>2, <1>5
  <2>4. Knows(rest, k)'
    BY <1>2, <1>4, <2>2, <2>3 DEF Knows, X, d
  <2>5. ~(beri2 /\ s.op \in SetOps)
    BY <2>1, Zenon DEF ReadFits
  <2> QED BY <1>5, <2>2, <2>3, <2>4, <2>5, Zenon DEF AfterReply, s
<1>6. CASE s.do = "readSet"
  <2>1. ReadSetFits(beri2, X, q, k, d, handlers, s, r)
    BY <1>1, <1>6 DEF ReadingFits
  <2>2. prog' = r /\ cached' = s.op \div 2 /\ saved' = saved
    BY <1>2, <1>6
  <2>3. /\ beri2 /\ s.op \in SetOps /\ q = <<s.op>>
        /\ << <<>>, s.op = PAUSEPIPELINE, d, handlers, r >> \in X
    BY <2>1, Zenon DEF ReadSetFits
  <2>4. s.op = PAUSEPIPELINE => cached' = PAUSED
    BY <2>2 DEF PAUSEPIPELINE, PAUSED
  <2>5. CASE s.op = PAUSEPIPELINE
    <3>1. << <<>>, TRUE, d, handlers, r >> \in X
      <4>1. (s.op = PAUSEPIPELINE) = TRUE
        BY <2>5
      <4> QED BY <2>3, <4>1
    <3>2. Knows(<< >>, TRUE)'
      BY <1>2, <2>2, <2>4, <2>5, <3>1 DEF Knows, X, d
    <3> QED BY <1>3, <1>6, <2>2, <2>3, <3>2, Zenon DEF AfterReply, s
  <2>6. CASE s.op # PAUSEPIPELINE
    <3>1. << <<>>, FALSE, d, handlers, r >> \in X
      <4>1. (s.op = PAUSEPIPELINE) = FALSE
        BY <2>6
      <4> QED BY <2>3, <4>1
    <3>2. Knows(<< >>, FALSE)'
      BY <1>2, <2>2, <3>1 DEF Knows, X, d
    <3> QED BY <1>3, <1>6, <2>2, <2>3, <3>2, Zenon DEF AfterReply, s
  <2> QED BY <2>5, <2>6
<1>7. CASE s.do = "readPause"
  <2>1. ReadPauseFits(beri2, X, q, k, d, handlers, s, r)
    BY <1>1, <1>7 DEF ReadingFits
  <2>2. prog' = r /\ cached' = PAUSED /\ saved' = <<back[3]>> \o saved
    BY <1>2, <1>7
  <2>3. /\ beri2 /\ s.op = PAUSEPIPELINE /\ s.arg = 1 /\ q = <<s.op>>
        /\ << <<>>, TRUE, d + 1, handlers, r >> \in X
    BY <2>1, Zenon DEF ReadPauseFits
  <2>4. Len(saved') = d + 1
    <3>1. back[3] \in Bytes
      <4>1. 3 \in 1 .. Len(back)
        BY <1>2, <2>3
      <4> QED BY <1>2, <4>1, ElementOfSeq
    <3> DEFINE y == back[3]
    <3>2. saved \in Seq(0 .. 255) /\ <<y>> \in Seq(0 .. 255) /\ Len(<<y>>) = 1
      BY <3>1 DEF Types, Bytes
    <3>3. Len(<<y>> \o saved) = Len(<<y>>) + Len(saved) /\ Len(saved) \in Nat
      BY <3>2, ConcatProperties, LenProperties
    <3> QED BY <2>2, <3>2, <3>3
  <2>5. cached' = s.op \div 2 /\ s.op \in SetOps
    BY <2>2, <2>3 DEF PAUSED, PAUSEPIPELINE, SetOps
  <2>6. Knows(<< >>, TRUE)'
    BY <1>2, <2>2, <2>3, <2>4 DEF Knows, X, d
  <2> QED BY <1>3, <1>7, <2>3, <2>5, <2>6, Zenon DEF AfterReply, s
<1>8. CASE s.do = "popTrace"
  <2>1. PopTraceFits(beri2, X, q, k, d, handlers, s, r)
    BY <1>1, <1>8 DEF ReadingFits
  <2>2. cached' = cached /\ saved' = saved
    BY <1>2, <1>8
  <2>3. CASE beri2 => back[3] # 0
    <3>1. prog' = prog
      BY <1>2, <1>8, <2>3
    <3>2. Knows(q, k)'
      BY <1>2, <1>4, <2>2, <3>1 DEF Knows, X, d
    <3> QED BY <1>8, <2>2, <2>3, <3>2, Zenon DEF AfterReply, s
  <2>4. CASE beri2 /\ back[3] = 0
    <3>1. prog' = r
      BY <1>2, <1>8, <2>4
    <3>2. << <<>>, k, d, handlers, r >> \in X
      BY <2>1, <2>4 DEF PopTraceFits
    <3>3. Knows(<< >>, k)'
      BY <1>2, <1>4, <2>2, <3>1, <3>2 DEF Knows, X, d
    <3> QED BY <1>3, <1>8, <2>2, <2>4, <3>3, Zenon DEF AfterReply, s
  <2> QED BY <2>3, <2>4
<1>9. CASE s.do = "wait"
  <2>1. WaitFits(beri2, X, q, k, d, handlers, s, r)
    BY <1>1, <1>9 DEF ReadingFits
  <2>2. cached' = cached /\ saved' = saved /\ prog' = r
    BY <1>2, <1>9
  <2>3. q = << >> /\ << <<>>, k, d, handlers, r >> \in X
    BY <2>1 DEF WaitFits
  <2>4. Knows(<< >>, k)'
    BY <1>2, <1>4, <2>2, <2>3 DEF Knows, X, d
  <2> QED BY <1>3, <1>9, <2>2, <2>3, <2>4, Zenon DEF AfterReply, s
<1> QED BY <1>1, <1>5, <1>6, <1>7, <1>8, <1>9 DEF ReadKinds

LEMMA ReadReplyAgrees ==
  ASSUME IInv, ReadReply
  PROVE  Agrees'
<1>1. PICK q \in Seq(Nat), k \in BOOLEAN :
        /\ Knows(q, k) /\ NextFits(q, k)
        /\ ~sloppy => \E t \in Seq(Nat), u \in Known : Flows(q, t, u)
  BY Agreeing, Zenon
<1>2. /\ Reading /\ Len(back) >= 2 + Length /\ back' = Forget(2 + Length) /\ IsReply /\ back[2] = Length
      /\ UNCHANGED <<beri2, ring, out, net, unit, was>>
      /\ UNCHANGED <<open, cmd, sloppy>>
  BY DEF ReadReply, readUnchanged, Arrived
<1>3. Types /\ prog \in Seq(Steps)
  BY Agreeing DEF IInv
<1>4. PICK q2 \in Seq(Nat), k2 \in BOOLEAN : Knows(q2, k2)' /\ AfterReply(q, q2)
  BY <1>1, <1>3, ReadReplyKnows, Zenon
<1>5. ASSUME ~sloppy' PROVE \E t \in Seq(Nat), u \in Known : Flows(q2, t, u)'
  <2>1. ~sloppy
    BY <1>2, <1>5
  <2>2. PICK t \in Seq(Nat), u \in Known : Flows(q, t, u)
    BY <1>1, <2>1
  <2>a. /\ open /\ prog # << >> /\ Head(prog).do \in ReadKinds
        /\ ReadingFits(beri2, cmd, Good(beri2, cmd), q, k, Len(saved), handlers, Head(prog), Tail(prog))
    BY <1>1, <1>2, ReadingIs, Zenon
  <2>b. Head(prog).arg \in Nat
    BY <2>a DEF ReadingFits, ReadFits, ReadSetFits, ReadPauseFits, PopTraceFits, WaitFits, ReplyLength
  <2>3. back # << >>
    BY <1>2, <2>b DEF Length
  <2>4. PICK n \in Nat, x1 \in Seq(Bytes), c1 \in Known, t1 \in Seq(Nat), q1 \in Seq(Nat) :
           /\ n >= 2 /\ Len(back) >= n /\ Forget(n) = x1
           /\ q1 = t1 \o Tokens(beri2, net \o out)
           /\ <<x1, c1, Mode, t1, u>> \in Owed(beri2)
           /\ \/ ReportSeen(n, c1, t, t1, q, q1) \/ ReplySeen(n, c1, q, q1)
              \/ ExceptionSeen(n, c1, q1) \/ InvalidSeen
              \/ EntrySeen(n, c1, t, t1, q, q1) \/ EndSeen(n, c1, q1)
    BY <1>1, <1>2, <1>3, <2>2, <2>3, ReadPacket, Zenon
  <2>5. n = 2 + Length /\ c1 = cached' /\ q1 = q2
    <3>1. ~ExceptionSeen(n, c1, q1) /\ ~InvalidSeen /\ ~EndSeen(n, c1, q1)
      BY <1>2, SMTT(30) DEF ExceptionSeen, InvalidSeen, EndSeen, IsReply, Length
    <3>2. CASE ReportSeen(n, c1, t, t1, q, q1)
      <4>1. At("wait") /\ ~beri2
        BY <1>2, <3>2 DEF ReportSeen, IsReply, IsReport
      <4>2. Head(prog).do = "wait"
        BY <4>1 DEF At
      <4>3. q2 = q /\ cached' = cached
        BY <1>4, <4>2 DEF AfterReply
      <4>4. n = 10 /\ c1 = cached /\ q1 = q /\ Length = 8
        BY <1>2, <3>2, <4>1 DEF ReportSeen
      <4> QED BY <4>3, <4>4
    <3>3. CASE ReplySeen(n, c1, q, q1)
      <4> DEFINE s == Head(prog)
      <4>1. /\ n = s.arg + 2 /\ s.do \in StepReads /\ q = <<s.op>> \o q1 /\ s.op \in Ops(beri2)
            /\ c1 = Believed(beri2, s.op, cached)
        BY <3>3 DEF ReplySeen
      <4>2. s.op \in Nat
        BY <4>1 DEF Ops
      <4>3. s.arg \in Nat /\ s.arg = Length
        BY <2>b DEF Length
      <4> HIDE DEF s
      <4>4. CASE s.do = "read"
        <5>1. q = <<s.op>> \o q2 /\ cached' = cached /\ ~(beri2 /\ s.op \in SetOps)
          BY <1>4, <4>4 DEF AfterReply, s
        <5>2. q1 = q2
          BY <4>1, <4>2, <5>1, SameFirst
        <5>3. c1 = cached'
          BY <4>1, <5>1 DEF Believed
        <5> QED BY <4>1, <4>3, <5>2, <5>3
      <4>5. CASE s.do \in {"readSet", "readPause"}
        <5>1. q = <<s.op>> /\ q2 = << >> /\ cached' = s.op \div 2 /\ beri2 /\ s.op \in SetOps
          BY <1>4, <4>5 DEF AfterReply, s
        <5>2. q1 = << >>
          BY <4>1, <4>2, <5>1, OnlyFirst
        <5>3. c1 = cached'
          BY <4>1, <5>1 DEF Believed
        <5>4. n = 2 + Length
          BY <4>1, <4>3
        <5>5. q1 = q2
          BY <5>1, <5>2
        <5> QED BY <5>3, <5>4, <5>5, Zenon
      <4> QED BY <4>1, <4>4, <4>5 DEF StepReads
    <3>4. CASE EntrySeen(n, c1, t, t1, q, q1)
      <4>1. /\ n = 34 /\ Length = 32 /\ Head(prog).do = "popTrace" /\ c1 = cached
            /\ \/ q1 = q /\ (beri2 => back[3] # 0)
               \/ beri2 /\ q1 = << >> /\ back[3] = 0
        BY <3>4 DEF EntrySeen, Length
      <4>2. /\ cached' = cached
            /\ \/ q2 = q /\ (beri2 => back[3] # 0)
               \/ beri2 /\ back[3] = 0 /\ q2 = << >>
        BY <1>4, <4>1 DEF AfterReply
      <4> QED BY <4>1, <4>2
    <3> QED BY <2>4, <3>1, <3>2, <3>3, <3>4
  <2>6. beri2 /\ u = PAUSED => unit.state \in {PAUSED, RUNSTREAMING}
    BY <2>2 DEF Flows
  <2>7. Flows(q2, t1, u)'
    <3>1. back' = x1 /\ cached' = c1 /\ UNCHANGED <<beri2, out, net, unit>>
      BY <1>2, <2>4, <2>5
    <3> QED BY <2>4, <2>5, <2>6, <3>1, ReadFlows
  <2> QED BY <2>7
<1>6. open'
  BY <1>2 DEF Reading, At
<1> QED BY <1>4, <1>5, <1>6 DEF Agrees

-----------------------------------------------------------------------------
(* The other steps of the host that leave the streams alone.               *)
LEMMA QuietAgrees ==
  ASSUME NEW q \in Seq(Nat), NEW k \in BOOLEAN, Knows(q, k)', open',
         ~sloppy => \E t \in Seq(Nat), u \in Known : Flows(q, t, u), sloppy' = sloppy,
         UNCHANGED <<beri2, out, net, back, cached, unit>>
  PROVE  Agrees'
<1>1. ~sloppy' => \E t \in Seq(Nat), u \in Known : Flows(q, t, u)'
  <2> SUFFICES ASSUME ~sloppy' PROVE \E t \in Seq(Nat), u \in Known : Flows(q, t, u)'
    OBVIOUS
  <2>1. PICK t \in Seq(Nat), u \in Known : Flows(q, t, u)
    OBVIOUS
  <2>2. Flows(q, t, u)'
    BY <2>1, QuietFlows
  <2> QED BY <2>2
<1> QED BY <1>1 DEF Agrees

LEMMA StepIs ==
  ASSUME IInv, prog # << >>, open
  PROVE  /\ beri2 \in BOOLEAN /\ handlers \in Seq(Frames) /\ prog \in Seq(Steps) /\ Len(saved) \in 0 .. 2
         /\ Types /\ saved \in Seq(0 .. 255)
         /\ Head(prog) \in Steps /\ Tail(prog) \in Seq(Steps)
         /\ \E q \in Seq(Nat), k \in BOOLEAN :
              /\ Knows(q, k)
              /\ StepFits(beri2, cmd, Good(beri2, cmd), q, k, Len(saved), handlers,
                          Head(prog), Tail(prog), prog)
              /\ ~sloppy => \E t \in Seq(Nat), u \in Known : Flows(q, t, u)
<1>1. PICK q \in Seq(Nat), k \in BOOLEAN :
        /\ Knows(q, k) /\ NextFits(q, k)
        /\ ~sloppy => \E t \in Seq(Nat), u \in Known : Flows(q, t, u)
  BY Agreeing, Zenon
<1>2. StepFits(beri2, cmd, Good(beri2, cmd), q, k, Len(saved), handlers, Head(prog), Tail(prog), prog)
  BY <1>1, Zenon DEF NextFits
<1>3. handlers \in Seq(Frames) /\ prog \in Seq(Steps) /\ Len(saved) \in 0 .. 2 /\ Types
  BY Agreeing DEF IInv
<1>4. beri2 \in BOOLEAN /\ saved \in Seq(0 .. 255)
  BY <1>3 DEF Types
<1>5. Head(prog) \in Steps /\ Tail(prog) \in Seq(Steps)
  BY <1>3, HeadTailProperties
<1> QED BY <1>1, <1>2, <1>3, <1>4, <1>5, Zenon

LEMMA needPausedAgrees ==
  ASSUME IInv, needPaused
  PROVE  Agrees'
<1>1. open /\ prog # << >> /\ Head(prog).do = "needPaused"
      /\ UNCHANGED <<beri2, out, net, unit, back>>
  BY DEF needPaused, At, stepUnchanged
<1>2. PICK q \in Seq(Nat), k \in BOOLEAN :
              /\ Knows(q, k)
              /\ StepFits(beri2, cmd, Good(beri2, cmd), q, k, Len(saved), handlers,
                          Head(prog), Tail(prog), prog)
              /\ ~sloppy => \E t \in Seq(Nat), u \in Known : Flows(q, t, u)
  BY <1>1, StepIs, Zenon
<1>3. NeedPausedFits(beri2, Good(beri2, cmd), q, k, Len(saved), handlers, Head(prog), Tail(prog))
  BY <1>1, <1>2 DEF StepFits
<1>4. << >> \in Seq(Nat) /\ FALSE \in BOOLEAN /\ TRUE \in BOOLEAN
  BY EmptySeq
<1>5. CASE cached = PAUSED
  <2>1. prog' = Tail(prog) /\ UNCHANGED <<open, cmd, handlers, cached, saved, sloppy>>
    BY <1>5 DEF needPaused, Continue
  <2>2. <<q, TRUE, Len(saved), handlers, Tail(prog)>> \in Good(beri2, cmd)
    BY <1>3, Zenon DEF NeedPausedFits
  <2>3. Knows(q, TRUE)'
    BY <1>1, <1>5, <2>1, <2>2 DEF Knows
  <2> QED BY <1>1, <1>2, <1>4, <2>1, <2>3, QuietAgrees
<1>6. CASE cached # PAUSED
  <2>1. Fail("NOTPAUSED")
    BY <1>6 DEF needPaused
  <2>2. sloppy' = sloppy /\ open' = open /\ cached' = cached
    BY <2>1, StepIs, <1>1 DEF Fail, LeavesReplies, Types
  <2>3. ~k
    BY <1>2, <1>6 DEF Knows
  <2>4. q = << >> /\ Failed(handlers) \in Good(beri2, cmd)
    BY <1>3, <2>3 DEF NeedPausedFits
  <2>5. Knows(<< >>, FALSE)'
    BY <1>1, <2>1, <2>4, StepIs, AfterFailure
  <2> QED BY <1>1, <1>2, <1>4, <2>2, <2>4, <2>5, QuietAgrees
<1> QED BY <1>5, <1>6

LEMMA usageAgrees ==
  ASSUME IInv, usage
  PROVE  Agrees'
<1>1. open /\ prog # << >> /\ Head(prog).do = "usage" /\ Fail("USAGE_ERROR")
      /\ UNCHANGED <<beri2, out, net, unit, back>>
  BY DEF usage, At, stepUnchanged
<1>2. PICK q \in Seq(Nat), k \in BOOLEAN :
              /\ Knows(q, k)
              /\ StepFits(beri2, cmd, Good(beri2, cmd), q, k, Len(saved), handlers,
                          Head(prog), Tail(prog), prog)
              /\ ~sloppy => \E t \in Seq(Nat), u \in Known : Flows(q, t, u)
  BY <1>1, StepIs, Zenon
<1>3. q = << >> /\ Failed(handlers) \in Good(beri2, cmd)
  BY <1>1, <1>2 DEF StepFits, UsageFits
<1>4. sloppy' = sloppy /\ open' = open /\ cached' = cached
  BY <1>1, StepIs DEF Fail, LeavesReplies, Types
<1>5. Knows(<< >>, FALSE)'
  BY <1>1, <1>3, StepIs, AfterFailure
<1>6. << >> \in Seq(Nat) /\ FALSE \in BOOLEAN
  BY EmptySeq
<1> QED BY <1>1, <1>2, <1>3, <1>4, <1>5, <1>6, QuietAgrees

LEMMA SetPipelineStateAgrees ==
  ASSUME IInv, beri_debug_client_set_pipeline_state
  PROVE  Agrees'
<1> DEFINE s == Head(prog)
           r == Tail(prog)
           X == Good(beri2, cmd)
<1>1. open /\ prog # << >> /\ s.do = "set"
      /\ prog' = (IF beri2 /\ cached # s.op THEN ToState("readSet", s.op) ELSE << >>) \o r
      /\ UNCHANGED <<beri2, out, net, unit, back>>
      /\ UNCHANGED <<open, cmd, handlers, cached, saved, sloppy>>
  BY DEF beri_debug_client_set_pipeline_state, At, stepUnchanged
<1>2. PICK q \in Seq(Nat), k \in BOOLEAN :
              /\ Knows(q, k)
              /\ StepFits(beri2, cmd, X, q, k, Len(saved), handlers, s, r, prog)
              /\ ~sloppy => \E t \in Seq(Nat), u \in Known : Flows(q, t, u)
  BY <1>1, StepIs, Zenon
<1>3. SetFits(beri2, X, q, k, Len(saved), handlers, s, r)
  BY <1>1, <1>2 DEF StepFits
<1>4. FALSE \in BOOLEAN /\ TRUE \in BOOLEAN /\ r \in Seq(Steps) /\ << >> \o r = r
  BY <1>1, StepIs, ConcatEmptySeq
<1>5. CASE beri2 /\ cached # s.op
  <2>1. prog' = ToState("readSet", s.op) \o r
    BY <1>1, <1>5
  <2>2. <<q, FALSE, Len(saved), handlers, ToState("readSet", s.op) \o r>> \in X
    BY <1>3, <1>5 DEF SetFits
  <2>3. Knows(q, FALSE)'
    BY <1>1, <2>1, <2>2 DEF Knows
  <2> QED BY <1>1, <1>2, <1>4, <2>3, QuietAgrees
<1>6. CASE ~(beri2 /\ cached # s.op)
  <2>1. prog' = r
    BY <1>1, <1>4, <1>6
  <2>2. CASE beri2 /\ s.op = PAUSED
    <3>1. (k \/ (beri2 /\ s.op = PAUSED)) = TRUE
      BY <2>2
    <3>2. <<q, TRUE, Len(saved), handlers, r>> \in X
      BY <1>3, <3>1 DEF SetFits
    <3>3. Knows(q, TRUE)'
      BY <1>1, <1>6, <2>1, <2>2, <3>2 DEF Knows
    <3> QED BY <1>1, <1>2, <1>4, <3>3, QuietAgrees
  <2>3. CASE ~(beri2 /\ s.op = PAUSED)
    <3>1. (k \/ (beri2 /\ s.op = PAUSED)) = k
      BY <2>3
    <3>2. <<q, k, Len(saved), handlers, r>> \in X
      BY <1>3, <3>1 DEF SetFits
    <3>3. Knows(q, k)'
      BY <1>1, <1>2, <2>1, <3>2 DEF Knows
    <3> QED BY <1>1, <1>2, <3>3, QuietAgrees
  <2> QED BY <2>2, <2>3
<1> QED BY <1>5, <1>6

LEMMA Beri2PauseAgrees ==
  ASSUME IInv, Beri2Pause
  PROVE  Agrees'
<1> DEFINE s == Head(prog)
           r == Tail(prog)
           X == Good(beri2, cmd)
<1>1. open /\ prog # << >> /\ s.do = "pause"
      /\ UNCHANGED <<beri2, out, net, unit, back>>
      /\ UNCHANGED <<open, cmd, handlers, cached, sloppy>>
  BY DEF Beri2Pause, At, stepUnchanged
<1>2. PICK q \in Seq(Nat), k \in BOOLEAN :
              /\ Knows(q, k)
              /\ StepFits(beri2, cmd, X, q, k, Len(saved), handlers, s, r, prog)
              /\ ~sloppy => \E t \in Seq(Nat), u \in Known : Flows(q, t, u)
  BY <1>1, StepIs, Zenon
<1>3. PauseFits(beri2, X, q, k, Len(saved), handlers, s, r)
  BY <1>1, <1>2 DEF StepFits
<1>4. FALSE \in BOOLEAN /\ TRUE \in BOOLEAN
  OBVIOUS
<1>5. CASE ~beri2
  <2>1. prog' = r /\ saved' = saved
    BY <1>5 DEF Beri2Pause, Continue
  <2>2. <<q, k, Len(saved), handlers, r>> \in X
    BY <1>3, <1>5 DEF PauseFits
  <2>3. Knows(q, k)'
    BY <1>1, <1>2, <2>1, <2>2 DEF Knows
  <2> QED BY <1>1, <1>2, <2>3, QuietAgrees
<1>6. CASE beri2 /\ cached # PAUSED
  <2>1. prog' = ToState("readPause", PAUSED) \o r /\ saved' = saved
    BY <1>6 DEF Beri2Pause
  <2>2. <<q, FALSE, Len(saved), handlers, ToState("readPause", PAUSED) \o r>> \in X
    BY <1>3, <1>6 DEF PauseFits
  <2>3. Knows(q, FALSE)'
    BY <1>1, <2>1, <2>2 DEF Knows
  <2> QED BY <1>1, <1>2, <1>4, <2>3, QuietAgrees
<1>7. CASE beri2 /\ cached = PAUSED
  <2>1. prog' = r /\ saved' = <<PAUSED>> \o saved
    BY <1>7 DEF Beri2Pause, Continue
  <2>2. <<q, TRUE, Len(saved) + 1, handlers, r>> \in X
    BY <1>3, <1>7 DEF PauseFits
  <2>3. Len(saved') = Len(saved) + 1
    <3>1. PAUSED \in 0 .. 255 /\ saved \in Seq(0 .. 255)
      BY <1>1, StepIs DEF PAUSED
    <3>2. <<PAUSED>> \in Seq(0 .. 255) /\ Len(<<PAUSED>>) = 1
      BY <3>1
    <3>3. Len(<<PAUSED>> \o saved) = Len(<<PAUSED>>) + Len(saved) /\ Len(saved) \in Nat
      BY <3>1, <3>2, ConcatProperties, LenProperties
    <3> QED BY <2>1, <3>2, <3>3
  <2>4. Knows(q, TRUE)'
    BY <1>1, <1>7, <2>1, <2>2, <2>3 DEF Knows
  <2> QED BY <1>1, <1>2, <1>4, <2>4, QuietAgrees
<1> QED BY <1>5, <1>6, <1>7

LEMMA Beri2ResumeAgrees ==
  ASSUME IInv, Beri2Resume
  PROVE  Agrees'
<1> DEFINE s == Head(prog)
           r == Tail(prog)
           X == Good(beri2, cmd)
<1>1. open /\ prog # << >> /\ s.do = "restore"
      /\ UNCHANGED <<beri2, out, net, unit, back>>
      /\ UNCHANGED <<open, cmd, handlers, cached, sloppy>>
  BY DEF Beri2Resume, At, stepUnchanged
<1>2. PICK q \in Seq(Nat), k \in BOOLEAN :
              /\ Knows(q, k)
              /\ StepFits(beri2, cmd, X, q, k, Len(saved), handlers, s, r, prog)
              /\ ~sloppy => \E t \in Seq(Nat), u \in Known : Flows(q, t, u)
  BY <1>1, StepIs, Zenon
<1>3. RestoreFits(beri2, X, q, k, Len(saved), handlers, s, r)
  BY <1>1, <1>2 DEF StepFits
<1>4. FALSE \in BOOLEAN
  OBVIOUS
<1>5. CASE ~beri2
  <2>1. prog' = r /\ saved' = saved
    BY <1>5 DEF Beri2Resume, Continue
  <2>2. <<q, k, Len(saved), handlers, r>> \in X
    BY <1>3, <1>5 DEF RestoreFits
  <2>3. Knows(q, k)'
    BY <1>1, <1>2, <2>1, <2>2 DEF Knows
  <2> QED BY <1>1, <1>2, <2>3, QuietAgrees
<1>6. CASE beri2
  <2>1. prog' = SetAgain(Head(saved)) \o r /\ saved' = Tail(saved)
    BY <1>6 DEF Beri2Resume
  <2>2. Len(saved) > 0 /\ saved \in Seq(0 .. 255) /\ Len(saved) \in 0 .. 2
    BY <1>1, <1>3, <1>6, StepIs DEF RestoreFits
  <2>3. saved # << >>
    BY <2>2
  <2>4. Head(saved) \in 0 .. 255 /\ Len(saved') = Len(saved) - 1
    BY <2>1, <2>2, <2>3, HeadTailProperties
  <2>5. <<q, FALSE, Len(saved) - 1, handlers, SetAgain(Head(saved)) \o r>> \in X
    BY <1>3, <1>6, <2>4, Zenon DEF RestoreFits
  <2>6. Knows(q, FALSE)'
    BY <1>1, <2>1, <2>4, <2>5 DEF Knows
  <2> QED BY <1>1, <1>2, <1>4, <2>6, QuietAgrees
<1>7. beri2 \in BOOLEAN
  BY <1>1, StepIs
<1> QED BY <1>5, <1>6, <1>7

LEMMA attemptAgrees ==
  ASSUME IInv, attempt
  PROVE  Agrees'
<1> DEFINE s == Head(prog)
           r == Tail(prog)
           X == Good(beri2, cmd)
           v == SubSeq(prog, s.op + 2, Len(prog))
           h == [rest |-> v, saved |-> saved, ret |-> ret]
<1>1. open /\ prog # << >> /\ s.do = "try"
      /\ UNCHANGED <<beri2, out, net, unit, back>>
      /\ UNCHANGED <<open, cmd, cached, saved, sloppy>>
      /\ prog' = r /\ handlers' = <<h>> \o handlers
  BY DEF attempt, At, stepUnchanged, Continue
<1>2. PICK q \in Seq(Nat), k \in BOOLEAN :
              /\ Knows(q, k)
              /\ StepFits(beri2, cmd, X, q, k, Len(saved), handlers, s, r, prog)
              /\ ~sloppy => \E t \in Seq(Nat), u \in Known : Flows(q, t, u)
  BY <1>1, StepIs, Zenon
<1>3. TryFits(X, q, k, Len(saved), handlers, s, r, prog)
  BY <1>1, <1>2 DEF StepFits
<1>4. saved \in Seq(0 .. 255) /\ ret \in Outcomes
  BY <1>1, StepIs DEF Types
<1>5. v \in Seq(Steps)
  BY <1>3 DEF TryFits
<1>6. h \in Frames /\ h.rest = v /\ h.saved = saved
  BY <1>4, <1>5 DEF Frames
<1>7. <<q, k, Len(saved), <<h>> \o handlers, r>> \in X
  <2> HIDE DEF h, X, s, r
  <2> QED BY <1>3, <1>6, Zenon DEF TryFits
<1>8. Knows(q, k)'
  <2> HIDE DEF h
  <2> QED BY <1>1, <1>2, <1>7 DEF Knows
<1> QED BY <1>1, <1>2, <1>8, QuietAgrees

LEMMA forgetAgrees ==
  ASSUME IInv, forget
  PROVE  Agrees'
<1> DEFINE s == Head(prog)
           r == Tail(prog)
           X == Good(beri2, cmd)
<1>1. open /\ prog # << >> /\ s.do \in {"caught", "excepted", "ignored"}
      /\ UNCHANGED <<beri2, out, net, unit, back>>
      /\ UNCHANGED <<open, cmd, cached, saved, sloppy>>
      /\ prog' = r /\ handlers' = Tail(handlers)
  BY DEF forget, At, stepUnchanged, Continue
<1>2. PICK q \in Seq(Nat), k \in BOOLEAN :
              /\ Knows(q, k)
              /\ StepFits(beri2, cmd, X, q, k, Len(saved), handlers, s, r, prog)
              /\ ~sloppy => \E t \in Seq(Nat), u \in Known : Flows(q, t, u)
  BY <1>1, StepIs, Zenon
<1>3. ForgetFits(X, q, k, Len(saved), handlers, r)
  BY <1>1, <1>2 DEF StepFits
<1>4. Knows(q, k)'
  BY <1>1, <1>2, <1>3 DEF Knows, ForgetFits
<1> QED BY <1>1, <1>2, <1>4, QuietAgrees

LEMMA breakpoint_checkAgrees ==
  ASSUME IInv, breakpoint_check
  PROVE  Agrees'
<1> DEFINE s == Head(prog)
           r == Tail(prog)
           X == Good(beri2, cmd)
<1>1. open /\ prog # << >> /\ s.do = "wait"
      /\ UNCHANGED <<beri2, out, net, unit, back>>
      /\ UNCHANGED <<open, cmd, handlers, cached, saved, sloppy>>
      /\ prog' = r
  BY DEF breakpoint_check, At, stepUnchanged, Continue
<1>2. PICK q \in Seq(Nat), k \in BOOLEAN :
              /\ Knows(q, k)
              /\ StepFits(beri2, cmd, X, q, k, Len(saved), handlers, s, r, prog)
              /\ ~sloppy => \E t \in Seq(Nat), u \in Known : Flows(q, t, u)
  BY <1>1, StepIs, Zenon
<1>3. WaitFits(beri2, X, q, k, Len(saved), handlers, s, r)
  BY <1>1, <1>2 DEF StepFits
<1>4. Knows(q, k)'
  BY <1>1, <1>2, <1>3 DEF Knows, WaitFits
<1> QED BY <1>1, <1>2, <1>4, QuietAgrees

-----------------------------------------------------------------------------
(* Sending, and sessions.                                                  *)
LEMMA FlushAgrees ==
  ASSUME IInv, circular_buffer_flush
  PROVE  Agrees'
<1>1. open /\ net' = net \o out /\ out' = << >>
      /\ UNCHANGED <<beri2, back, unit, open, cmd, prog, handlers, cached, saved, sloppy>>
  BY DEF circular_buffer_flush, hostVars, Reading, At
<1>2. PICK q \in Seq(Nat), k \in BOOLEAN :
        /\ Knows(q, k)
        /\ ~sloppy => \E t \in Seq(Nat), u \in Known : Flows(q, t, u)
  BY Agreeing, Zenon
<1>3. Knows(q, k)'
  BY <1>1, <1>2 DEF Knows
<1>4. net' \o out' = net \o out
  <2>1. net \o out \in Seq(Reqs(beri2))
    BY FlowTypes DEF IInv
  <2> QED BY <1>1, <2>1, ConcatEmptySeq
<1>5. ASSUME ~sloppy' PROVE \E t \in Seq(Nat), u \in Known : Flows(q, t, u)'
  <2>1. PICK t \in Seq(Nat), u \in Known : Flows(q, t, u)
    BY <1>1, <1>2, <1>5
  <2>2. Mode' = Mode
    BY <1>1 DEF Mode
  <2>3. Flows(q, t, u)'
    <3>1. /\ <<back', cached', Mode', t, u>> \in Owed(beri2')
          /\ q = t \o Tokens(beri2', net' \o out')
          /\ beri2' /\ u = PAUSED => unit'.state \in {PAUSED, RUNSTREAMING}
      BY <1>1, <1>4, <2>1, <2>2 DEF Flows
    <3> QED BY <3>1 DEF Flows
  <2> QED BY <2>3
<1> QED BY <1>1, <1>3, <1>5 DEF Agrees

LEMMA Appended ==
  ASSUME NEW S, NEW s \in Seq(S), NEW v \in Seq(S), NEW r \in S
  PROVE  /\ s \o Append(v, r) = Append(s \o v, r)
         /\ (s \o v) \o <<r>> = Append(s \o v, r)
         /\ Append(s, r) \o << >> = Append(s \o << >>, r)
         /\ s \o v \in Seq(S) /\ Append(s, r) \in Seq(S) /\ <<r>> \in Seq(S)
<1>1. <<r>> \in Seq(S) /\ s \o v \in Seq(S) /\ Append(s, r) \in Seq(S)
  BY AppendProperties, ConcatProperties
<1>2. Append(v, r) = v \o <<r>> /\ Append(s \o v, r) = (s \o v) \o <<r>>
  BY <1>1, AppendIsConcat
<1>3. (s \o v) \o <<r>> = s \o (v \o <<r>>)
  BY <1>1, Regroup
<1>4. s \o << >> = s /\ Append(s, r) \o << >> = Append(s, r)
  BY <1>1, ConcatEmptySeq
<1> QED BY <1>1, <1>2, <1>3, <1>4

LEMMA PacketWritten ==
  ASSUME Types, beri_debug_client_packet_write, prog \in Seq(Steps), prog # << >>,
         Head(prog).op \in Ops(beri2), Head(prog).arg \in {0, 1}
  PROVE  /\ out' \in Seq(Reqs(beri2)) /\ Len(out') <= ring /\ net' \in Seq(Reqs(beri2))
         /\ net' \o out' = Append(net \o out, [op |-> Head(prog).op, arg |-> Head(prog).arg])
<1> DEFINE r == [op |-> Head(prog).op, arg |-> Head(prog).arg]
           R == Reqs(beri2)
<1>1. r \in R
  BY DEF Reqs
<1>2. out \in Seq(R) /\ net \in Seq(R) /\ ring \in Nat /\ Len(out) <= ring
  BY RingAssumption DEF Types
<1>3. IF ring = 0
      THEN net' = Append(net, r) /\ out' = out
      ELSE IF Len(out) = ring
      THEN net' = net \o out /\ out' = <<r>>
      ELSE out' = Append(out, r) /\ net' = net
  BY DEF beri_debug_client_packet_write
<1> HIDE DEF r, R
<1>4. /\ net \o Append(out, r) = Append(net \o out, r)
      /\ (net \o out) \o <<r>> = Append(net \o out, r)
      /\ Append(net, r) \o << >> = Append(net \o << >>, r)
      /\ net \o out \in Seq(R) /\ Append(net, r) \in Seq(R) /\ <<r>> \in Seq(R)
  BY <1>1, <1>2, Appended
<1>5. Append(out, r) \in Seq(R) /\ Len(Append(out, r)) = Len(out) + 1 /\ Len(<<r>>) = 1
      /\ Len(out) \in Nat
  BY <1>1, <1>2, AppendProperties, LenProperties
<1>6. CASE ring = 0
  <2>1. out = << >>
    <3>1. Len(out) = 0
      BY <1>2, <1>5, <1>6
    <3> QED BY <1>2, <3>1, EmptySeq
  <2>2. net' = Append(net, r) /\ out' = << >>
    BY <1>3, <1>6, <2>1
  <2> QED BY <1>2, <1>4, <2>1, <2>2 DEF r, R
<1>7. CASE ring # 0 /\ Len(out) = ring
  <2>1. net' = net \o out /\ out' = <<r>>
    BY <1>3, <1>7
  <2> QED BY <1>2, <1>4, <1>5, <1>7, <2>1 DEF r, R
<1>8. CASE ring # 0 /\ Len(out) # ring
  <2>1. net' = net /\ out' = Append(out, r)
    BY <1>3, <1>8
  <2> QED BY <1>2, <1>4, <1>5, <1>8, <2>1 DEF r, R
<1> QED BY <1>6, <1>7, <1>8

LEMMA PacketWriteAgrees ==
  ASSUME IInv, beri_debug_client_packet_write
  PROVE  Agrees'
<1> DEFINE s == Head(prog)
           r == Tail(prog)
           X == Good(beri2, cmd)
           req == [op |-> s.op, arg |-> s.arg]
<1>1. open /\ prog # << >> /\ s.do = "write" /\ prog' = r
      /\ UNCHANGED <<beri2, back, unit, open, cmd, handlers, cached, saved, sloppy>>
  BY DEF beri_debug_client_packet_write, At, Continue
<1>2. PICK q \in Seq(Nat), k \in BOOLEAN :
              /\ Knows(q, k)
              /\ StepFits(beri2, cmd, X, q, k, Len(saved), handlers, s, r, prog)
              /\ ~sloppy => \E t \in Seq(Nat), u \in Known : Flows(q, t, u)
  BY <1>1, StepIs, Zenon
<1>3. WriteFits(beri2, X, q, k, Len(saved), handlers, s, r)
  BY <1>1, <1>2 DEF StepFits
<1>4. s.op \in Ops(beri2) /\ s.arg \in {0, 1} /\ Types /\ prog \in Seq(Steps) /\ beri2 \in BOOLEAN
  BY <1>1, <1>3, StepIs DEF WriteFits
<1>5. net' \o out' = Append(net \o out, req)
  BY <1>1, <1>4, PacketWritten
<1>6. req \in Reqs(beri2) /\ req.op = s.op
  BY <1>4 DEF Reqs
<1>7. Owes(beri2, s.op) \in Seq(Nat)
  <2>1. Owes(beri2, req.op) \in Seq(Nat)
    BY <1>4, <1>6, ReqOwes
  <2> QED BY <1>6, <2>1
<1>8. PICK q2 \in Seq(Nat) : q2 = q \o Owes(beri2, s.op)
  BY <1>7, ConcatProperties
<1>9. Knows(q2, k)'
  BY <1>1, <1>2, <1>3, <1>8 DEF Knows, WriteFits
<1>10. ASSUME ~sloppy' PROVE \E t \in Seq(Nat), u \in Known : Flows(q2, t, u)'
  <2>1. PICK t \in Seq(Nat), u \in Known : Flows(q, t, u)
    BY <1>1, <1>2, <1>10
  <2>2. Mode' = Mode
    BY <1>1 DEF Mode
  <2>3. net \o out \in Seq(Reqs(beri2)) /\ Tokens(beri2, net \o out) \in Seq(Nat)
    BY <1>4, FlowTypes
  <2>4. Tokens(beri2, Append(net \o out, req)) = Tokens(beri2, net \o out) \o Owes(beri2, s.op)
    <3> HIDE DEF req
    <3> QED BY <1>4, <1>6, <2>3, TokensLast
  <2>5. (t \o Tokens(beri2, net \o out)) \o Owes(beri2, s.op)
          = t \o (Tokens(beri2, net \o out) \o Owes(beri2, s.op))
    <3> DEFINE z == Tokens(beri2, net \o out)
               o == Owes(beri2, s.op)
    <3>1. z \in Seq(Nat) /\ o \in Seq(Nat)
      BY <1>7, <2>3
    <3> HIDE DEF z, o
    <3>2. (t \o z) \o o = t \o (z \o o)
      BY <3>1, RepliesRegroup
    <3> QED BY <3>2 DEF z, o
  <2>6. q2 = t \o Tokens(beri2, net' \o out')
    BY <1>1, <1>5, <1>8, <2>1, <2>4, <2>5 DEF Flows
  <2>7. Flows(q2, t, u)'
    <3>1. /\ <<back', cached', Mode', t, u>> \in Owed(beri2')
          /\ q2 = t \o Tokens(beri2', net' \o out')
          /\ beri2' /\ u = PAUSED => unit'.state \in {PAUSED, RUNSTREAMING}
      BY <1>1, <2>1, <2>2, <2>6 DEF Flows
    <3> QED BY <3>1 DEF Flows
  <2> QED BY <2>7
<1> QED BY <1>1, <1>8, <1>9, <1>10 DEF Agrees

LEMMA DrainAgrees ==
  ASSUME IInv, beri_debug_client_drain
  PROVE  Agrees'
<1> DEFINE s == Head(prog)
           r == Tail(prog)
<1>1. open /\ prog # << >> /\ s.do = "drain" /\ prog' = r /\ back' = << >> /\ out' = << >>
      /\ UNCHANGED <<beri2, net, unit, open, cmd, handlers, cached, saved>>
      /\ sloppy' = ~Quiet'
  BY DEF beri_debug_client_drain, At, Continue
<1>2. PICK q \in Seq(Nat), k \in BOOLEAN :
        StepFits(beri2, cmd, Good(beri2, cmd), q, k, Len(saved), handlers, s, r, prog)
  BY <1>1, StepIs, Zenon
<1>3. cmd = "drain" /\ Len(saved) = 0 /\ handlers = << >> /\ r = << >>
  BY <1>1, <1>2 DEF StepFits, DrainFits
<1>4. << >> \in Seq(Nat) /\ FALSE \in BOOLEAN /\ << >> \o << >> = << >>
  BY EmptySeq, ConcatEmptySeq
<1>5. Knows(<< >>, FALSE)'
  <2>1. << <<>>, FALSE, 0, <<>>, <<>> >> \in Good(beri2, cmd)
    BY EndIsGood
  <2> QED BY <1>1, <1>3, <2>1 DEF Knows
<1>6. ASSUME ~sloppy' PROVE \E t \in Seq(Nat), u \in Known : Flows(<< >>, t, u)'
  <2>1. Quiet'
    BY <1>1, <1>6
  <2>2. (\A i \in DOMAIN net : net[i].op = RESET) /\ ~unit.lost /\ unit.state # RUNSTREAMING
    BY <1>1, <2>1 DEF Quiet, Busy
  <2>3. Types /\ cached = UNKNOWN /\ beri2 \in BOOLEAN /\ net \in Seq(Reqs(beri2))
    BY <1>1, <1>3 DEF IInv, Shape, Types
  <2>4. Mode' = "idle"
    BY <1>1, <2>2 DEF Mode
  <2>5. << <<>>, UNKNOWN, "idle", <<>>, UNKNOWN >> \in Owed(beri2)
    <3>1. "idle" \in Modes /\ Pending("idle") = << >> /\ UNKNOWN \in Known
      BY DEF Modes, Pending, Known
    <3>2. << <<>>, UNKNOWN, "idle", Pending("idle"), UNKNOWN >> \in Owed(beri2)
      BY <3>1, OwedStarts
    <3> QED BY <3>1, <3>2
  <2>6. net' \o out' = net /\ Tokens(beri2, net) = << >>
    <3>1. \A i \in 1 .. Len(net) : net[i].op = RESET
      <4>1. DOMAIN net = 1 .. Len(net)
        BY <2>3
      <4> QED BY <2>2, <4>1
    <3>2. Tokens(beri2, net) = << >>
      BY <2>3, <3>1, TokensNone
    <3>3. net \o << >> = net
      BY <2>3, ConcatEmptySeq
    <3> QED BY <1>1, <3>2, <3>3
  <2>7. /\ <<back', cached', Mode', << >>, UNKNOWN>> \in Owed(beri2')
        /\ << >> = << >> \o Tokens(beri2', net' \o out')
        /\ ~(beri2' /\ UNKNOWN = PAUSED)
    BY <1>1, <1>4, <2>3, <2>4, <2>5, <2>6 DEF UNKNOWN, PAUSED
  <2>8. Flows(<< >>, << >>, UNKNOWN)'
    BY <2>7 DEF Flows
  <2>9. UNKNOWN \in Known
    BY DEF Known
  <2> QED BY <1>4, <2>8, <2>9
<1> QED BY <1>1, <1>4, <1>5, <1>6 DEF Agrees

(* Nothing owed: nothing but reports on their way.                         *)
LEMMA NothingOwed ==
  ASSUME Types, NEW t \in Seq(Nat), NEW u \in Known, Flows(<< >>, t, u)
  PROVE  /\ t = << >> /\ Tokens(beri2, net \o out) = << >>
         /\ Tokens(beri2, net) = << >>
         /\ Mode = "idle" /\ ReportsOnly(beri2, back) /\ u = cached
         /\ beri2 /\ cached = PAUSED => unit.state \in {PAUSED, RUNSTREAMING}
<1>1. /\ <<back, cached, Mode, t, u>> \in Owed(beri2)
      /\ << >> = t \o Tokens(beri2, net \o out)
      /\ beri2 /\ u = PAUSED => unit.state \in {PAUSED, RUNSTREAMING}
  BY DEF Flows
<1>2. /\ net \o out \in Seq(Reqs(beri2)) /\ Tokens(beri2, net \o out) \in Seq(Nat)
      /\ beri2 \in BOOLEAN /\ net \in Seq(Reqs(beri2)) /\ out \in Seq(Reqs(beri2))
  BY FlowTypes DEF Types
<1>3. t = << >> /\ Tokens(beri2, net \o out) = << >>
  <2> DEFINE z == Tokens(beri2, net \o out)
  <2>1. z \in Seq(Nat) /\ t \o z = << >>
    BY <1>1, <1>2
  <2> HIDE DEF z
  <2>2. t = << >> /\ z = << >>
    BY <2>1, ConcatEqualIffEmpty
  <2> QED BY <2>2 DEF z
<1>4. Tokens(beri2, net) \in Seq(Nat) /\ Tokens(beri2, out) \in Seq(Nat)
      /\ Tokens(beri2, net) \o Tokens(beri2, out) = << >>
  BY <1>2, <1>3, TokensLast, TokensConcat
<1>5. Tokens(beri2, net) = << >>
  BY <1>4, ConcatEqualIffEmpty
<1>6. OwedSays(beri2, back, cached, Mode, << >>, u)
  BY <1>1, <1>2, <1>3, OwedFacts
<1>7. Mode = "idle" /\ ReportsOnly(beri2, back)
  BY <1>6, Zenon DEF OwedSays
<1>8. u = cached
  <2>1. \A i \in 1 .. Len(<< >>) : << >>[i] \notin SetOps
    OBVIOUS
  <2> QED BY <1>6, <2>1 DEF OwedSays
<1> QED BY <1>1, <1>3, <1>5, <1>7, <1>8

LEMMA OpenAgrees ==
  ASSUME IInv, NEW c \in Names, Open(c)
  PROVE  Agrees'
<1>1. /\ ~open /\ open' /\ cmd' = c /\ prog' = Command(c, beri2) /\ handlers' = << >>
      /\ cached' = UNKNOWN /\ saved' = << >>
      /\ UNCHANGED <<beri2, out, net, back, unit, sloppy>>
  BY DEF Open, Begin, InitialPipelineState
<1>2. PICK q \in Seq(Nat), k \in BOOLEAN :
        /\ ~open => q = << >>
        /\ ~sloppy => \E t \in Seq(Nat), u \in Known : Flows(q, t, u)
  BY Agreeing, Zenon
<1>3. << >> \in Seq(Nat) /\ FALSE \in BOOLEAN /\ UNKNOWN \in Known /\ << >> \o << >> = << >>
  BY EmptySeq, ConcatEmptySeq DEF Known
<1>4. Types /\ beri2 \in BOOLEAN
  BY DEF IInv, Types
<1>5. Knows(<< >>, FALSE)'
  <2>1. << <<>>, FALSE, 0, <<>>, Command(c, beri2) >> \in Good(beri2, c)
    BY <1>4, CommandGood
  <2>2. Len(saved') = 0
    BY <1>1
  <2> QED BY <1>1, <2>1, <2>2 DEF Knows
<1>6. ASSUME ~sloppy' PROVE \E t \in Seq(Nat), u \in Known : Flows(<< >>, t, u)'
  <2>1. PICK t \in Seq(Nat), u \in Known : Flows(<< >>, t, u)
    BY <1>1, <1>2, <1>6
  <2>2. t = << >> /\ Tokens(beri2, net \o out) = << >> /\ Mode = "idle" /\ ReportsOnly(beri2, back)
    BY <1>4, <2>1, NothingOwed
  <2>3. <<back, UNKNOWN, "idle", << >>, UNKNOWN>> \in Owed(beri2)
    BY <1>3, <1>4, <2>2, ReportsOwed
  <2>4. Mode' = Mode
    BY <1>1 DEF Mode
  <2>5. /\ <<back', cached', Mode', << >>, UNKNOWN>> \in Owed(beri2')
        /\ << >> = << >> \o Tokens(beri2', net' \o out')
        /\ ~(beri2' /\ UNKNOWN = PAUSED)
    BY <1>1, <1>3, <2>2, <2>3, <2>4 DEF UNKNOWN, PAUSED
  <2>6. Flows(<< >>, << >>, UNKNOWN)'
    BY <2>5 DEF Flows
  <2> QED BY <1>3, <2>6
<1> QED BY <1>1, <1>3, <1>5, <1>6 DEF Agrees

LEMMA NextCommandAgrees ==
  ASSUME IInv, NEW c \in Names, NextCommand(c)
  PROVE  Agrees'
<1>1. /\ open /\ open' /\ prog = << >> /\ cmd' = c /\ prog' = Command(c, beri2) /\ handlers' = << >>
      /\ cmd \in ControlNames
      /\ UNCHANGED <<beri2, out, net, back, unit, sloppy, cached, saved>>
  BY DEF NextCommand, Begin
<1>2. PICK q \in Seq(Nat), k \in BOOLEAN :
        /\ Knows(q, k) /\ NextFits(q, k)
        /\ ~sloppy => \E t \in Seq(Nat), u \in Known : Flows(q, t, u)
  BY Agreeing, Zenon
<1>3. q = << >> /\ Len(saved) = 0
  BY <1>1, <1>2 DEF NextFits, EndFits, ControlNames
<1>4. << >> \in Seq(Nat) /\ FALSE \in BOOLEAN /\ beri2 \in BOOLEAN
  BY EmptySeq DEF IInv, Types
<1>5. Knows(<< >>, FALSE)'
  <2>1. << <<>>, FALSE, 0, <<>>, Command(c, beri2) >> \in Good(beri2, c)
    BY <1>4, CommandGood
  <2> QED BY <1>1, <1>3, <2>1 DEF Knows
<1> QED BY <1>1, <1>2, <1>3, <1>4, <1>5, QuietAgrees

LEMMA RepeatedLong ==
  ASSUME NEW b \in BOOLEAN
  PROVE  \A n \in Nat : Len(Repeated(n, ReportOf(b))) \in Nat /\ Len(Repeated(n, ReportOf(b))) >= n
<1> DEFINE R == ReportOf(b)
           T == {n \in Nat : Len(Repeated(n, R)) \in Nat /\ Len(Repeated(n, R)) >= n}
<1>1. R \in Seq(Bytes) /\ Len(R) \in Nat /\ Len(R) >= 1
  BY ReportType
<1> HIDE DEF R
<1>2. 0 \in T
  BY <1>1, RepeatedLast
<1>3. ASSUME NEW n \in Nat, n \in T PROVE n + 1 \in T
  <2>1. Repeated(n + 1, R) = Repeated(n, R) \o R /\ Repeated(n, R) \in Seq(Bytes)
    BY <1>1, RepeatedLast
  <2>2. Len(Repeated(n, R) \o R) = Len(Repeated(n, R)) + Len(R)
    BY <1>1, <2>1, ConcatProperties
  <2>3. Len(Repeated(n, R)) \in Nat /\ Len(Repeated(n, R)) >= n
    BY <1>3
  <2>4. Len(Repeated(n + 1, R)) = Len(Repeated(n, R)) + Len(R)
    BY <2>1, <2>2
  <2> QED BY <1>1, <2>3, <2>4
<1> HIDE DEF T
<1>4. \A n \in Nat : n \in T
  BY <1>2, <1>3, InductiveSet
<1> QED BY <1>4 DEF T, R

LEMMA OnlyReportsIs ==
  ASSUME Types, NEW x
  PROVE  OnlyReports(x) <=> ReportsOnly(beri2, x)
<1>1. Report = ReportOf(beri2) /\ beri2 \in BOOLEAN
  BY DEF Types, Report, ReportOf, breakpointFiredOp
<1>2. ASSUME OnlyReports(x) PROVE ReportsOnly(beri2, x)
  <2>1. PICK n \in 0 .. Len(x) : x = FlattenSeq([i \in 1 .. n |-> Report])
    BY <1>2 DEF OnlyReports
  <2>2. n \in Nat
    OBVIOUS
  <2> QED BY <1>1, <2>1, <2>2 DEF ReportsOnly, Repeated
<1>3. ASSUME ReportsOnly(beri2, x) PROVE OnlyReports(x)
  <2>1. PICK n \in Nat : x = Repeated(n, ReportOf(beri2))
    BY <1>3 DEF ReportsOnly
  <2>2. n \in 0 .. Len(x)
    <3>1. Len(x) \in Nat /\ Len(x) >= n
      BY <1>1, <2>1, RepeatedLong
    <3> QED BY <3>1
  <2>3. x = FlattenSeq([i \in 1 .. n |-> Report])
    BY <1>1, <2>1 DEF Repeated
  <2> QED BY <2>2, <2>3 DEF OnlyReports
<1> QED BY <1>2, <1>3

LEMMA SaysNothing ==
  ASSUME Types, NEW q, NEW u, Flows(q, << >>, u)
  PROVE  /\ Mode = "idle" /\ ReportsOnly(beri2, back) /\ u = cached
         /\ beri2 /\ cached = PAUSED => unit.state \in {PAUSED, RUNSTREAMING}
<1>1. /\ <<back, cached, Mode, << >>, u>> \in Owed(beri2)
      /\ beri2 /\ u = PAUSED => unit.state \in {PAUSED, RUNSTREAMING}
  BY DEF Flows
<1>2. beri2 \in BOOLEAN
  BY DEF Types
<1>3. OwedSays(beri2, back, cached, Mode, << >>, u)
  BY <1>1, <1>2, OwedFacts
<1>4. Mode = "idle" /\ ReportsOnly(beri2, back)
  BY <1>3, Zenon DEF OwedSays
<1>5. u = cached
  <2>1. \A i \in 1 .. Len(<< >>) : << >>[i] \notin SetOps
    OBVIOUS
  <2> QED BY <1>3, <2>1 DEF OwedSays
<1> QED BY <1>1, <1>4, <1>5

(* A memory trace that is still in the ring dies with its process.         *)
LEMMA MemTraceOwed ==
  ASSUME Types, NEW q, NEW t \in Seq(Nat), NEW u, Flows(q, t, u), q = <<MEM_TRACE>>,
         out # << >>, \A i \in 1 .. Len(out) : out[i].op = MEM_TRACE
  PROVE  t = << >> /\ Tokens(beri2, net) = << >>
<1>1. q = t \o Tokens(beri2, net \o out)
  BY DEF Flows
<1>2. /\ beri2 \in BOOLEAN /\ net \in Seq(Reqs(beri2)) /\ out \in Seq(Reqs(beri2))
  BY DEF Types
<1>3. /\ Tokens(beri2, net) \in Seq(Nat) /\ Tokens(beri2, Tail(out)) \in Seq(Nat)
      /\ Tokens(beri2, net \o out) = Tokens(beri2, net) \o Tokens(beri2, out)
      /\ Tokens(beri2, out) = Owes(beri2, Head(out).op) \o Tokens(beri2, Tail(out))
  BY <1>2, TokensLast, TokensFirst, TokensConcat
<1>4. Head(out).op = MEM_TRACE
  <2> DEFINE R == Reqs(beri2)
  <2>1. out \in Seq(R)
    BY <1>2
  <2> HIDE DEF R
  <2>2. Len(out) \in Nat /\ Len(out) # 0 /\ Head(out) = out[1]
    BY <2>1, EmptySeq, HeadTailProperties, LenProperties
  <2>3. 1 \in 1 .. Len(out)
    BY <2>2
  <2> QED BY <2>2, <2>3
<1>5. Owes(beri2, MEM_TRACE) = <<MEM_TRACE>>
  BY DEF Owes, MEM_TRACE, RESET, RESUMESTREAMING, STREAM_TRACE_START
<1> DEFINE x == Tokens(beri2, net)
           y == Tokens(beri2, Tail(out))
           z == <<MEM_TRACE>>
<1>6. x \in Seq(Nat) /\ y \in Seq(Nat) /\ z \in Seq(Nat) /\ Len(z) = 1 /\ z = t \o (x \o (z \o y))
  <2>1. z \in Seq(Nat) /\ Len(z) = 1
    BY DEF MEM_TRACE
  <2>2. Owes(beri2, Head(out).op) = z
    BY <1>4, <1>5
  <2> HIDE DEF z
  <2>3. Tokens(beri2, net \o out) = x \o (z \o y)
    BY <1>3, <2>2
  <2>4. z = t \o Tokens(beri2, net \o out)
    BY <1>1 DEF z
  <2> QED BY <1>3, <2>1, <2>3, <2>4
<1> HIDE DEF x, y, z
<1>7. Len(z \o y) = 1 + Len(y) /\ z \o y \in Seq(Nat) /\ Len(y) \in Nat
  BY <1>6, ConcatProperties, LenProperties
<1>8. Len(x \o (z \o y)) = Len(x) + Len(z \o y) /\ x \o (z \o y) \in Seq(Nat) /\ Len(x) \in Nat
  BY <1>6, <1>7, ConcatProperties, LenProperties
<1>9. Len(t \o (x \o (z \o y))) = Len(t) + Len(x \o (z \o y)) /\ Len(t) \in Nat
  BY <1>8, ConcatProperties, LenProperties
<1>10. 1 = Len(t) + (Len(x) + (1 + Len(y)))
  BY <1>6, <1>7, <1>8, <1>9
<1>11. Len(t) = 0 /\ Len(x) = 0
  BY <1>7, <1>8, <1>9, <1>10
<1> QED BY <1>6, <1>11, EmptySeq DEF x

LEMMA LeaveKnows ==
  ASSUME NEW n, Leave(n)
  PROVE  Knows(<< >>, FALSE)' /\ ~open'
<1>1. << <<>>, FALSE, 0, <<>>, <<>> >> \in Good(beri2, cmd)
  BY EndIsGood
<1>2. /\ prog' = << >> /\ handlers' = << >> /\ saved' = << >> /\ Len(saved') = 0
      /\ beri2' = beri2 /\ cmd' = cmd /\ open' = FALSE
  BY DEF Leave
<1> QED BY <1>1, <1>2 DEF Knows

LEMMA CloseAgrees ==
  ASSUME IInv, beri_debug_client_close
  PROVE  Agrees'
<1>1. PICK n : Leave(n) /\ sloppy' = (\/ sloppy
                                      \/ ~OnlyReports(Forget(n)) /\ OnlyReports(back)
                                      \/ cmd = "memtrace" /\ out = << >>)
  BY DEF beri_debug_client_close
<1>2. PICK q \in Seq(Nat), k \in BOOLEAN :
        /\ Knows(q, k) /\ NextFits(q, k)
        /\ ~sloppy => \E t \in Seq(Nat), u \in Known : Flows(q, t, u)
  BY Agreeing, Zenon
<1>3. << >> \in Seq(Nat) /\ FALSE \in BOOLEAN /\ << >> \o << >> = << >>
  BY EmptySeq, ConcatEmptySeq
<1>4. Knows(<< >>, FALSE)' /\ ~open'
  BY <1>1, LeaveKnows
<1>5. /\ out' = << >> /\ back' = Forget(n) /\ UNCHANGED <<beri2, cached, net, unit>>
  BY <1>1 DEF Leave
<1>6. open /\ prog = << >>
  BY DEF beri_debug_client_close
<1>7. q = << >> \/ (cmd = "memtrace" /\ q = <<MEM_TRACE>>)
  BY <1>2, <1>6 DEF NextFits, EndFits
<1>8. Types /\ beri2 \in BOOLEAN /\ cached \in Known /\ net \in Seq(Reqs(beri2))
  BY DEF IInv, Types
<1>9. ASSUME ~sloppy' PROVE \E t \in Seq(Nat), u \in Known : Flows(<< >>, t, u)'
  <2>1. ~sloppy /\ (OnlyReports(Forget(n)) \/ ~OnlyReports(back)) /\ ~(cmd = "memtrace" /\ out = << >>)
    BY <1>1, <1>9
  <2>2. PICK t \in Seq(Nat), u \in Known : Flows(q, t, u)
    BY <1>2, <2>1
  <2>3. t = << >> /\ Tokens(beri2, net) = << >>
    <3>1. CASE q = << >>
      BY <1>8, <2>2, <3>1, NothingOwed
    <3>2. CASE cmd = "memtrace" /\ q = <<MEM_TRACE>>
      <4>1. \A i \in 1 .. Len(out) : out[i].op = MEM_TRACE
        BY <1>6, <3>2 DEF IInv, Shape
      <4> QED BY <1>8, <2>1, <2>2, <3>2, <4>1, MemTraceOwed
    <3> QED BY <1>7, <3>1, <3>2
  <2>4. /\ Mode = "idle" /\ ReportsOnly(beri2, back) /\ u = cached
        /\ beri2 /\ cached = PAUSED => unit.state \in {PAUSED, RUNSTREAMING}
    BY <1>8, <2>2, <2>3, SaysNothing
  <2>5. ReportsOnly(beri2, Forget(n))
    BY <1>8, <2>1, <2>4, OnlyReportsIs
  <2>6. <<Forget(n), cached, "idle", << >>, cached>> \in Owed(beri2)
    BY <1>8, <2>5, ReportsOwed
  <2>7. Mode' = Mode
    BY <1>5 DEF Mode
  <2>8. net' \o out' = net
    BY <1>5, <1>8, ConcatEmptySeq
  <2>9. /\ <<back', cached', Mode', << >>, cached>> \in Owed(beri2')
        /\ << >> = << >> \o Tokens(beri2', net' \o out')
        /\ beri2' /\ cached = PAUSED => unit'.state \in {PAUSED, RUNSTREAMING}
    BY <1>3, <1>5, <2>3, <2>4, <2>6, <2>7, <2>8
  <2>10. \E v \in Known : v = cached
    BY <1>8
  <2>11. PICK v \in Known : v = cached
    BY <2>10
  <2>12. Flows(<< >>, << >>, v)'
    BY <2>9, <2>11 DEF Flows
  <2> QED BY <1>3, <2>12
<1> QED BY <1>3, <1>4, <1>9 DEF Agrees

LEMMA KillAgrees ==
  ASSUME IInv, Kill
  PROVE  Agrees'
<1>1. PICK n : Leave(n) /\ sloppy'
  BY DEF Kill
<1>2. Knows(<< >>, FALSE)' /\ ~open'
  BY <1>1, LeaveKnows
<1>3. << >> \in Seq(Nat) /\ FALSE \in BOOLEAN
  BY EmptySeq
<1> QED BY <1>1, <1>2, <1>3 DEF Agrees

-----------------------------------------------------------------------------
(* The steps of the unit.                                                  *)
LEMMA UnitAgrees ==
  ASSUME IInv, UNCHANGED <<beri2, hostVars, sloppy>>,
         \A q \in Seq(Nat), t \in Seq(Nat), u \in Known :
           Flows(q, t, u) => \E t2 \in Seq(Nat), u2 \in Known : Flows(q, t2, u2)'
  PROVE  Agrees'
<1>1. PICK q \in Seq(Nat), k \in BOOLEAN :
        /\ Knows(q, k)
        /\ ~open => q = << >>
        /\ ~sloppy => \E t \in Seq(Nat), u \in Known : Flows(q, t, u)
  BY Agreeing, Zenon
<1>2. UNCHANGED <<beri2, open, cmd, prog, handlers, cached, saved, sloppy>>
  BY DEF hostVars
<1>3. Knows(q, k)'
  BY <1>1, <1>2 DEF Knows
<1>4. ~sloppy' => \E t \in Seq(Nat), u \in Known : Flows(q, t, u)'
  <2> SUFFICES ASSUME ~sloppy' PROVE \E t \in Seq(Nat), u \in Known : Flows(q, t, u)'
    OBVIOUS
  <2>1. PICK t \in Seq(Nat), u \in Known : Flows(q, t, u)
    BY <1>1, <1>2
  <2> QED BY <2>1
<1> QED BY <1>1, <1>2, <1>3, <1>4 DEF Agrees

LEMMA MoveFlows ==
  ASSUME Types, NEW q, NEW t \in Seq(Nat), NEW u \in Known, Flows(q, t, u),
         NEW p \in Seq(Bytes), NEW tk \in Seq(Nat), NEW u2 \in Known, NEW z \in Seq(Nat),
         NEW m \in Modes, NEW m2 \in Modes, Mode = m, Mode' = m2,
         Moves(beri2, m, u, p, tk, m2, u2),
         back' = back \o p, UNCHANGED <<beri2, cached>>,
         Tokens(beri2, net \o out) = tk \o z, Tokens(beri2, net' \o out') = z,
         beri2 /\ u2 = PAUSED => unit'.state \in {PAUSED, RUNSTREAMING}
  PROVE  \E t2 \in Seq(Nat) : Flows(q, t2, u2)'
<1>1. <<back, cached, m, t, u>> \in Owed(beri2) /\ q = t \o (tk \o z)
  BY DEF Flows
<1>2. back \in Seq(Bytes) /\ cached \in Known
  BY DEF Types
<1>3. <<back \o p, cached, m2, t \o tk, u2>> \in Owed(beri2)
  BY <1>1, <1>2, OwedMoves, Zenon
<1>4. (t \o tk) \o z = t \o (tk \o z)
  BY RepliesRegroup
<1>5. PICK t2 \in Seq(Nat) : t2 = t \o tk
  BY ConcatProperties
<1>6. Flows(q, t2, u2)'
  BY <1>1, <1>3, <1>4, <1>5 DEF Flows
<1> QED BY <1>6

(* The unit takes the first request: what it owes is owed no more by the   *)
(* requests that are left.                                                 *)
LEMMA TakeTokens ==
  ASSUME Types, Take, out' = out
  PROVE  /\ Op \in Ops(beri2) /\ Op \in Nat /\ Owes(beri2, Op) \in Seq(Nat) /\ Mode = "idle"
         /\ ~unit.lost /\ unit.state # RUNSTREAMING
         /\ net' \in Seq(Reqs(beri2))
         /\ \E z \in Seq(Nat) : /\ Tokens(beri2, net \o out) = Owes(beri2, Op) \o z
                                /\ Tokens(beri2, net' \o out') = z
<1>1. /\ beri2 \in BOOLEAN /\ net \in Seq(Reqs(beri2)) /\ out \in Seq(Reqs(beri2)) /\ net # << >>
      /\ net' = Tail(net) /\ ~unit.lost /\ unit.state # RUNSTREAMING
  BY DEF Types, Take, Busy
<1>2. /\ Head(net) \in Reqs(beri2) /\ Tail(net) \in Seq(Reqs(beri2))
      /\ Owes(beri2, Head(net).op) \in Seq(Nat)
      /\ Tokens(beri2, net) = Owes(beri2, Head(net).op) \o Tokens(beri2, Tail(net))
  BY <1>1, TokensFirst
<1>3. Op = Head(net).op /\ Op \in Ops(beri2)
  BY <1>1, <1>2 DEF Op, Reqs
<1>4. Op \in Nat
  BY <1>3 DEF Ops
<1>5. /\ Tokens(beri2, net \o out) = Tokens(beri2, net) \o Tokens(beri2, out)
      /\ Tokens(beri2, Tail(net) \o out) = Tokens(beri2, Tail(net)) \o Tokens(beri2, out)
      /\ Tokens(beri2, Tail(net)) \in Seq(Nat) /\ Tokens(beri2, out) \in Seq(Nat)
  BY <1>1, <1>2, TokensConcat, TokensLast
<1> DEFINE x == Owes(beri2, Op)
           y == Tokens(beri2, Tail(net))
           v == Tokens(beri2, out)
<1>6. x \in Seq(Nat) /\ y \in Seq(Nat) /\ v \in Seq(Nat)
      /\ Tokens(beri2, net \o out) = (x \o y) \o v /\ Tokens(beri2, net' \o out') = y \o v
  BY <1>1, <1>2, <1>3, <1>5
<1>7. Mode = "idle"
  BY <1>1 DEF Mode
<1>10. x \in Seq(Nat) /\ y \in Seq(Nat) /\ v \in Seq(Nat)
  BY <1>6
<1> HIDE DEF x, y, v
<1>8. (x \o y) \o v = x \o (y \o v) /\ y \o v \in Seq(Nat)
  <2>1. (x \o y) \o v = x \o (y \o v)
    <3>1. \A a, c, e \in Seq(Nat) : (a \o c) \o e = a \o (c \o e)
      BY Regroup
    <3> QED BY <1>10, <3>1
  <2>2. y \o v \in Seq(Nat)
    BY <1>10, ConcatProperties
  <2> QED BY <2>1, <2>2
<1>9. \E z \in Seq(Nat) : Tokens(beri2, net \o out) = x \o z /\ Tokens(beri2, net' \o out') = z
  BY <1>6, <1>8
<1> QED BY <1>1, <1>2, <1>3, <1>4, <1>6, <1>7, <1>9 DEF x

LEMMA ReplyDataIs ==
  ASSUME Types
  PROVE  ReplyData \in Seq(Bytes) /\ Len(ReplyData) = ReplyLength(beri2, Op)
<1>1. beri2 \in BOOLEAN /\ unit.state \in 0 .. 3
  BY DEF Types, PAUSED, RUNSTREAMING
<1>2. << >> \in Seq(Bytes) /\ Len(<< >>) = 0
  BY EmptySeq
<1>3. <<unit.state>> \in Seq(Bytes) /\ Len(<<unit.state>>) = 1
  BY <1>1 DEF Bytes
<1>4. \A n \in {1, 2, 4, 8, 32} : Zeros(n) \in Seq(Bytes) /\ Len(Zeros(n)) = n
  BY ZerosType
<1> DEFINE z1 == Zeros(1)
           z2 == Zeros(2)
           z4 == Zeros(4)
           z8 == Zeros(8)
           z32 == Zeros(32)
           v == <<unit.state>>
           e == << >>
<1>5. /\ z1 \in Seq(Bytes) /\ Len(z1) = 1 /\ z2 \in Seq(Bytes) /\ Len(z2) = 2
      /\ z4 \in Seq(Bytes) /\ Len(z4) = 4 /\ z8 \in Seq(Bytes) /\ Len(z8) = 8
      /\ z32 \in Seq(Bytes) /\ Len(z32) = 32
      /\ v \in Seq(Bytes) /\ Len(v) = 1 /\ e \in Seq(Bytes) /\ Len(e) = 0
  BY <1>2, <1>3, <1>4
<1>6. CASE beri2
  <2>1. ReplyData = CASE Op \in {PAUSEPIPELINE, RESUMEPIPELINE, RESUMEUNPIPELINED, RESUMESTREAMING} -> v
         [] Op \in {GETPC, GETDOUBLEWORD, GETREGISTER} -> z8
         [] Op = GETWORD       -> z4
         [] Op = GETHALFWORD   -> z2
         [] Op = GETBYTE       -> z1
         [] Op = GETC2REGISTER -> z32
         [] OTHER              -> e
    BY <1>6 DEF ReplyData, SetsState
  <2> HIDE DEF z1, z2, z4, z8, z32, v, e
  <2>2. ReplyLength(beri2, Op) =
         CASE Op \in {PAUSEPIPELINE, RESUMEPIPELINE, RESUMEUNPIPELINED, RESUMESTREAMING} -> 1
         [] Op \in {GETPC, GETDOUBLEWORD, GETREGISTER} -> 8
         [] Op = GETWORD       -> 4
         [] Op = GETHALFWORD   -> 2
         [] Op = GETBYTE       -> 1
         [] Op = GETC2REGISTER -> 32
         [] OTHER              -> 0
    <3>1. SetOps \cup {RESUMESTREAMING} = {PAUSEPIPELINE, RESUMEPIPELINE, RESUMEUNPIPELINED, RESUMESTREAMING}
      BY DEF SetOps
    <3> QED BY <1>6, <3>1 DEF ReplyLength
  <2> DEFINE x == ReplyData
             n == ReplyLength(beri2, Op)
  <2>3. x = ReplyData /\ n = ReplyLength(beri2, Op)
    OBVIOUS
  <2> HIDE DEF x, n
  <2>4. \/ x = v /\ n = 1
        \/ x = z8 /\ n = 8
        \/ x = z4 /\ n = 4
        \/ x = z2 /\ n = 2
        \/ x = z1 /\ n = 1
        \/ x = z32 /\ n = 32
        \/ x = e /\ n = 0
    BY <2>1, <2>2, <2>3
       DEF PAUSEPIPELINE, RESUMEPIPELINE, RESUMEUNPIPELINED, RESUMESTREAMING,
          GETPC, GETDOUBLEWORD, GETREGISTER, GETWORD, GETHALFWORD, GETBYTE, GETC2REGISTER
  <2> QED BY <1>5, <2>3, <2>4
<1>7. CASE ~beri2
  <2>1. ReplyData = CASE Op = REPORT_DESTINATION -> z8
         [] Op \in {PAUSE_EXECUTION, UNPIPELINE_EXECUTION} -> z1
         [] OTHER -> e
    BY <1>7 DEF ReplyData
  <2> HIDE DEF z1, z2, z4, z8, z32, v, e
  <2>2. ReplyLength(beri2, Op) = CASE Op = REPORT_DESTINATION -> 8
         [] Op \in {PAUSE_EXECUTION, UNPIPELINE_EXECUTION} -> 1
         [] OTHER -> 0
    BY <1>7 DEF ReplyLength
  <2> DEFINE x == ReplyData
             n == ReplyLength(beri2, Op)
  <2>3. x = ReplyData /\ n = ReplyLength(beri2, Op)
    OBVIOUS
  <2> HIDE DEF x, n
  <2>4. \/ x = z8 /\ n = 8
        \/ x = z1 /\ n = 1
        \/ x = e /\ n = 0
    BY <2>1, <2>2, <2>3 DEF REPORT_DESTINATION, PAUSE_EXECUTION, UNPIPELINE_EXECUTION
  <2> QED BY <1>5, <2>3, <2>4
<1> QED BY <1>1, <1>6, <1>7

(* The reply of the unit, and the state it is then in.                     *)
LEMMA ServeReplies ==
  ASSUME Types, Serve, Op \notin NoReply, Op \in Ops(beri2), ~unit.lost, unit.state # RUNSTREAMING
  PROVE  \E p \in Seq(Bytes) :
           /\ IsReplyTo(beri2, Op, p) /\ back' = back \o p
           /\ Mode' = (IF beri2 /\ Op = RESUMESTREAMING THEN "streaming" ELSE "idle")
           /\ \A u \in Known : /\ Believed(beri2, Op, u) \in Known
                               /\ (beri2 /\ u = PAUSED => unit.state \in {PAUSED, RUNSTREAMING}) =>
                                  (beri2 /\ Believed(beri2, Op, u) = PAUSED
                                     => unit'.state \in {PAUSED, RUNSTREAMING})
<1>1. ReplyData \in Seq(Bytes) /\ Len(ReplyData) = ReplyLength(beri2, Op)
  BY ReplyDataIs
<1>2. beri2 \in BOOLEAN /\ unit \in [state : PAUSED .. RUNSTREAMING, breakpoint : BOOLEAN, lost : BOOLEAN]
  BY DEF Types
<1> DEFINE p == Packet(ReplyOp(Op), ReplyData)
<1>3. back' = back \o p
  BY DEF Serve
<1>4. ReplyOp(Op) = (IF beri2 THEN Op + 1 ELSE Op + 128)
  BY DEF ReplyOp
<1>5. IsReplyTo(beri2, Op, p)
  <2>1. p = Packet(IF beri2 THEN Op + 1 ELSE Op + 128, ReplyData)
    BY <1>4
  <2> QED BY <1>1, <2>1, Zenon DEF IsReplyTo
<1>6. p \in Seq(Bytes)
  BY <1>2, <1>5, ReplyFacts
<1>7. unit'.state = (IF Op \in SetsState THEN NewState ELSE unit.state) /\ unit'.lost = unit.lost
  BY <1>2 DEF Serve
<1>8. /\ Op \in SetsState => NewState = (CASE Op \in {0, 112} -> 0 [] Op \in {2, 114} -> 1
                                           [] Op \in {4, 117} -> 2 [] OTHER -> 3)
      /\ beri2 => SetsState = {0, 2, 4, 50}
      /\ ~beri2 => SetsState = {112, 114, 117, 83} /\ Op # 83
  BY DEF NewState, SetsState, NoReply, PAUSEPIPELINE, RESUMEPIPELINE, RESUMEUNPIPELINED, RESUMESTREAMING,
         PAUSE_EXECUTION, RESUME_EXECUTION, UNPIPELINE_EXECUTION, STREAM_TRACE_START, PAUSED,
         RUNPIPELINED, RUNUNPIPELINED, RUNSTREAMING, RESET
<1>9. RESUMESTREAMING = 50 /\ RUNSTREAMING = 3 /\ PAUSED = 0 /\ Known = {-1, 0, 1, 2} /\ SetOps = {0, 2, 4}
  BY DEF RESUMESTREAMING, RUNSTREAMING, PAUSED, Known, UNKNOWN, RUNPIPELINED, RUNUNPIPELINED, SetOps,
         PAUSEPIPELINE, RESUMEPIPELINE, RESUMEUNPIPELINED
<1>10. unit'.state = RUNSTREAMING <=> (beri2 /\ Op = RESUMESTREAMING)
  BY <1>2, <1>7, <1>8, <1>9
<1>11. Mode' = (IF beri2 /\ Op = RESUMESTREAMING THEN "streaming" ELSE "idle")
  BY <1>7, <1>10 DEF Mode
<1>12. ASSUME NEW u \in Known
       PROVE  /\ Believed(beri2, Op, u) \in Known
              /\ (beri2 /\ u = PAUSED => unit.state \in {PAUSED, RUNSTREAMING}) =>
                                  (beri2 /\ Believed(beri2, Op, u) = PAUSED
                                     => unit'.state \in {PAUSED, RUNSTREAMING})
  <2>1. CASE beri2 /\ Op \in SetOps
    <3>1. Op = 0 \/ Op = 2 \/ Op = 4
      BY <1>9, <2>1
    <3>2. Believed(beri2, Op, u) = Op \div 2
      BY <2>1 DEF Believed
    <3>3. Op \in SetsState
      BY <1>8, <2>1, <3>1
    <3>4. CASE Op = 0
      BY <1>7, <1>8, <1>9, <3>2, <3>3, <3>4
    <3>5. CASE Op = 2
      BY <1>9, <3>2, <3>5
    <3>6. CASE Op = 4
      BY <1>9, <3>2, <3>6
    <3> QED BY <3>1, <3>4, <3>5, <3>6
  <2>2. CASE ~(beri2 /\ Op \in SetOps)
    <3>1. Believed(beri2, Op, u) = u
      BY <2>2 DEF Believed
    <3>2. beri2 /\ Op # RESUMESTREAMING => Op \notin SetsState
      BY <1>8, <1>9, <2>2
    <3> QED BY <1>7, <1>10, <3>1, <3>2
  <2> QED BY <2>1, <2>2
<1> HIDE DEF p
<1> QED BY <1>3, <1>5, <1>6, <1>11, <1>12

LEMMA OwesOne ==
  ASSUME NEW b \in BOOLEAN, NEW op \in Nat, op # RESET, ~b => op # STREAM_TRACE_START
  PROVE  /\ b /\ op = RESUMESTREAMING => Owes(b, op) = <<op>> \o <<Streamed>>
         /\ ~(b /\ op = RESUMESTREAMING) => Owes(b, op) = <<op>>
<1>1. <<op>> \o <<Streamed>> = <<op, Streamed>>
  BY Pair
<1> QED BY <1>1 DEF Owes

LEMMA ServeAgrees ==
  ASSUME IInv, Serve
  PROVE  Agrees'
<1>1. /\ Take /\ Op \notin Unknown /\ Op # RESET /\ ~StepsRunning
      /\ UNCHANGED <<beri2, hostVars, out, sloppy>>
  BY DEF Serve, unitUnchanged
<1>2. Types /\ beri2 \in BOOLEAN /\ cached' = cached /\ out' = out /\ beri2' = beri2
  BY <1>1 DEF IInv, Types, hostVars
<1>3. /\ Op \in Ops(beri2) /\ Op \in Nat /\ Owes(beri2, Op) \in Seq(Nat) /\ Mode = "idle"
      /\ ~unit.lost /\ unit.state # RUNSTREAMING
  BY <1>1, <1>2, TakeTokens
<1>4. PICK z \in Seq(Nat) : /\ Tokens(beri2, net \o out) = Owes(beri2, Op) \o z
                            /\ Tokens(beri2, net' \o out') = z
  BY <1>1, <1>2, TakeTokens
<1>5. "idle" \in Modes /\ "streaming" \in Modes /\ Streamed \in Nat /\ << >> \in Seq(Bytes)
  BY EmptySeq DEF Modes, Streamed
<1>6. <<Op>> \in Seq(Nat) /\ <<Streamed>> \in Seq(Nat)
  BY <1>3, <1>5
<1> SUFFICES ASSUME NEW q \in Seq(Nat), NEW t \in Seq(Nat), NEW u \in Known, Flows(q, t, u)
             PROVE  \E t2 \in Seq(Nat), u2 \in Known : Flows(q, t2, u2)'
  BY <1>1, UnitAgrees
<1>7. beri2 /\ u = PAUSED => unit.state \in {PAUSED, RUNSTREAMING}
  BY DEF Flows
<1>8. CASE Op \in NoReply
  <2>1. ~beri2 /\ Op = STREAM_TRACE_START
    BY <1>1, <1>8 DEF NoReply
  <2>2. back' = back \o << >>
    BY <1>8 DEF Serve
  <2>3. Owes(beri2, Op) = <<Streamed>>
    BY <2>1 DEF Owes, STREAM_TRACE_START, RESET
  <2>4. Op \in SetsState /\ NewState = RUNSTREAMING
    BY <2>1 DEF SetsState, NewState, STREAM_TRACE_START, PAUSEPIPELINE, RESUMEPIPELINE, RESUMEUNPIPELINED,
         PAUSE_EXECUTION, RESUME_EXECUTION, UNPIPELINE_EXECUTION
  <2>5. unit'.state = RUNSTREAMING /\ unit'.lost = unit.lost
    BY <2>4, <1>2 DEF Serve, Types
  <2>6. Mode' = "streaming"
    BY <1>3, <2>5 DEF Mode
  <2>7. Moves(beri2, "idle", u, << >>, <<Streamed>>, "streaming", u)
    BY DEF Moves
  <2>8. \E t2 \in Seq(Nat) : Flows(q, t2, u)'
    <3> DEFINE p == << >>
               tk == <<Streamed>>
    <3>1. /\ p \in Seq(Bytes) /\ tk \in Seq(Nat) /\ Moves(beri2, "idle", u, p, tk, "streaming", u)
          /\ back' = back \o p /\ Tokens(beri2, net \o out) = tk \o z
      BY <1>4, <1>5, <1>6, <2>2, <2>3, <2>7
    <3> HIDE DEF p, tk
    <3> QED BY <1>2, <1>3, <1>4, <1>5, <2>1, <2>6, <3>1, MoveFlows
  <2> QED BY <2>8
<1>9. CASE Op \notin NoReply
  <2>1. PICK p \in Seq(Bytes) :
           /\ IsReplyTo(beri2, Op, p) /\ back' = back \o p
           /\ Mode' = (IF beri2 /\ Op = RESUMESTREAMING THEN "streaming" ELSE "idle")
           /\ \A v \in Known : /\ Believed(beri2, Op, v) \in Known
                               /\ (beri2 /\ v = PAUSED => unit.state \in {PAUSED, RUNSTREAMING}) =>
                                  (beri2 /\ Believed(beri2, Op, v) = PAUSED
                                     => unit'.state \in {PAUSED, RUNSTREAMING})
    BY <1>2, <1>3, <1>9, ServeReplies
  <2>2. PICK u2 \in Known : u2 = Believed(beri2, Op, u)
    BY <2>1
  <2>3. beri2 /\ u2 = PAUSED => unit'.state \in {PAUSED, RUNSTREAMING}
    BY <1>7, <2>1, <2>2
  <2>4. Moves(beri2, "idle", u, p, <<Op>>, "idle", u2)
    BY <1>3, <2>1, <2>2, Zenon DEF Moves
  <2>5. ~beri2 => Op # STREAM_TRACE_START
    BY <1>9 DEF NoReply
  <2>6. CASE ~(beri2 /\ Op = RESUMESTREAMING)
    <3>1. Owes(beri2, Op) = <<Op>>
      BY <1>1, <1>2, <1>3, <2>5, <2>6, OwesOne
    <3>2. Mode' = "idle"
      BY <2>1, <2>6
    <3> DEFINE tk == <<Op>>
    <3>3. /\ tk \in Seq(Nat) /\ Moves(beri2, "idle", u, p, tk, "idle", u2)
          /\ Tokens(beri2, net \o out) = tk \o z
      BY <1>4, <1>6, <2>4, <3>1
    <3> HIDE DEF tk
    <3>4. \E t2 \in Seq(Nat) : Flows(q, t2, u2)'
      BY <1>2, <1>3, <1>4, <1>5, <2>1, <2>3, <3>2, <3>3, MoveFlows
    <3> QED BY <3>4
  <2>7. CASE beri2 /\ Op = RESUMESTREAMING
    <3>1. Owes(beri2, Op) = <<Op>> \o <<Streamed>>
      BY <1>1, <1>2, <1>3, <2>5, <2>7, OwesOne
    <3>2. Mode' = "streaming"
      BY <2>1, <2>7
    <3> DEFINE a == <<Op>>
               e == <<Streamed>>
    <3>3. a \in Seq(Nat) /\ e \in Seq(Nat) /\ Tokens(beri2, net \o out) = (a \o e) \o z
      BY <1>4, <1>6, <3>1
    <3>4. Moves(beri2, "idle", u, p, a, "idle", u2)
      BY <2>4
    <3>5. Moves(beri2, "idle", u2, << >>, e, "streaming", u2)
      BY DEF Moves
    <3> HIDE DEF a, e
    <3>6. <<back, cached, "idle", t, u>> \in Owed(beri2) /\ q = t \o ((a \o e) \o z)
      BY <1>3, <3>3 DEF Flows
    <3>7. back \in Seq(Bytes) /\ cached \in Known /\ t \o a \in Seq(Nat) /\ back \o p \in Seq(Bytes)
      BY <1>2, <3>3, ConcatProperties DEF Types
    <3>8. <<back \o p, cached, "idle", t \o a, u2>> \in Owed(beri2)
      BY <1>5, <3>3, <3>4, <3>6, <3>7, OwedMoves, Zenon
    <3>9. <<(back \o p) \o << >>, cached, "streaming", (t \o a) \o e, u2>> \in Owed(beri2)
      BY <1>5, <3>3, <3>5, <3>7, <3>8, OwedMoves, Zenon
    <3>10. (back \o p) \o << >> = back \o p
      BY <3>7, ConcatEmptySeq
    <3>11. q = ((t \o a) \o e) \o z /\ (t \o a) \o e \in Seq(Nat)
      <4>2. a \o e \in Seq(Nat) /\ (t \o a) \o e \in Seq(Nat)
        BY <3>3, <3>7, ConcatProperties
      <4>3. (t \o a) \o e = t \o (a \o e)
        BY <3>3, RepliesRegroup
      <4>4. (t \o (a \o e)) \o z = t \o ((a \o e) \o z)
        BY <4>2, RepliesRegroup
      <4> QED BY <3>6, <4>2, <4>3, <4>4
    <3>12. PICK t2 \in Seq(Nat) : t2 = (t \o a) \o e
      BY <3>11
    <3>13. Flows(q, t2, u2)'
      <4>1. /\ <<back', cached', Mode', t2, u2>> \in Owed(beri2')
            /\ q = t2 \o Tokens(beri2', net' \o out')
            /\ beri2' /\ u2 = PAUSED => unit'.state \in {PAUSED, RUNSTREAMING}
        BY <1>2, <1>4, <2>1, <2>3, <3>2, <3>9, <3>10, <3>11, <3>12
      <4> QED BY <4>1 DEF Flows
    <3> QED BY <3>13
  <2> QED BY <2>6, <2>7
<1> QED BY <1>8, <1>9

LEMMA RefusedAgrees ==
  ASSUME IInv, Take, NEW p \in Seq(Bytes), Refuses(beri2, Op, p), back' = back \o p,
         UNCHANGED <<unit, beri2, hostVars, out, was, sloppy>>
  PROVE  Agrees'
<1>1. Types /\ beri2 \in BOOLEAN /\ cached' = cached /\ out' = out /\ beri2' = beri2 /\ unit' = unit
  BY DEF IInv, Types, hostVars
<1>2. /\ Op \in Ops(beri2) /\ Owes(beri2, Op) \in Seq(Nat) /\ Mode = "idle"
  BY <1>1, TakeTokens
<1>3. PICK z \in Seq(Nat) : /\ Tokens(beri2, net \o out) = Owes(beri2, Op) \o z
                            /\ Tokens(beri2, net' \o out') = z
  BY <1>1, TakeTokens
<1>4. "idle" \in Modes /\ Mode' = "idle"
  BY <1>1, <1>2 DEF Modes, Mode
<1> SUFFICES ASSUME NEW q \in Seq(Nat), NEW t \in Seq(Nat), NEW u \in Known, Flows(q, t, u)
             PROVE  \E t2 \in Seq(Nat), u2 \in Known : Flows(q, t2, u2)'
  BY UnitAgrees
<1>5. Moves(beri2, "idle", u, p, Owes(beri2, Op), "idle", u)
  BY <1>2, Zenon DEF Moves
<1>6. beri2 /\ u = PAUSED => unit'.state \in {PAUSED, RUNSTREAMING}
  BY <1>1 DEF Flows
<1>7. \E t2 \in Seq(Nat) : Flows(q, t2, u)'
  <2> DEFINE tk == Owes(beri2, Op)
  <2>1. /\ tk \in Seq(Nat) /\ Moves(beri2, "idle", u, p, tk, "idle", u)
        /\ Tokens(beri2, net \o out) = tk \o z
    BY <1>2, <1>3, <1>5
  <2> HIDE DEF tk
  <2> QED BY <1>1, <1>2, <1>3, <1>4, <1>6, <2>1, MoveFlows
<1> QED BY <1>7

LEMMA ServeExceptionAgrees ==
  ASSUME IInv, ServeException
  PROVE  Agrees'
<1> DEFINE p == Packet(exceptionOp, Zeros(1))
<1>1. /\ Take /\ Op \in MayExcept /\ back' = back \o p
      /\ UNCHANGED <<unit, beri2, hostVars, out, was, sloppy>>
  BY DEF ServeException, unitUnchanged
<1>2. Refuses(beri2, Op, p)
  BY <1>1 DEF Refuses, MayExcept, MayExceptOf, exceptionOp, ExceptionOf, RESET, SETBYTE, GETDOUBLEWORD,
              EXECUTE_INSTRUCTION
<1>3. p \in Seq(Bytes)
  <2>1. beri2 \in BOOLEAN
    BY DEF IInv, Types
  <2> QED BY <1>2, <2>1, RefusalFacts
<1> HIDE DEF p
<1> QED BY <1>1, <1>2, <1>3, RefusedAgrees

LEMMA ServeInvalidAgrees ==
  ASSUME IInv, ServeInvalid
  PROVE  Agrees'
<1> DEFINE p == Packet(invalidOp, IF beri2 THEN Zeros(1) ELSE << >>)
<1>1. /\ Take /\ Op \in Unknown /\ back' = back \o p
      /\ UNCHANGED <<unit, beri2, hostVars, out, was, sloppy>>
  BY DEF ServeInvalid, unitUnchanged
<1>2. Refuses(beri2, Op, p)
  <2>1. Op # RESET
    BY <1>1, UnsupportedAssumption DEF Unknown, MEM_TRACE, RESET
  <2>2. Op \in UnknownOf(beri2)
    BY <1>1 DEF Unknown, UnknownOf
  <2>3. invalidOp = InvalidOf(beri2)
    BY DEF invalidOp, exceptionOp, InvalidOf
  <2> QED BY <2>1, <2>2, <2>3, Zenon DEF Refuses
<1>3. p \in Seq(Bytes)
  <2>1. beri2 \in BOOLEAN
    BY DEF IInv, Types
  <2> QED BY <1>2, <2>1, RefusalFacts
<1> HIDE DEF p
<1> QED BY <1>1, <1>2, <1>3, RefusedAgrees

LEMMA ServeResetAgrees ==
  ASSUME IInv, ServeReset
  PROVE  Agrees'
<1>1. /\ Take /\ Op = RESET /\ unit' = [state |-> RUNPIPELINED, breakpoint |-> FALSE, lost |-> FALSE]
      /\ UNCHANGED <<beri2, hostVars, out, was, sloppy, back>>
  BY DEF ServeReset, unitUnchanged
<1>2. Types /\ beri2 \in BOOLEAN /\ cached' = cached /\ out' = out /\ beri2' = beri2 /\ back' = back
  BY <1>1 DEF IInv, Types, hostVars
<1>3. /\ Op \in Ops(beri2) /\ Mode = "idle"
  BY <1>1, <1>2, TakeTokens
<1>4. PICK z \in Seq(Nat) : /\ Tokens(beri2, net \o out) = Owes(beri2, Op) \o z
                            /\ Tokens(beri2, net' \o out') = z
  BY <1>1, <1>2, TakeTokens
<1>5. ~beri2 /\ Mode' = "idle"
  BY <1>1, <1>3 DEF Ops, RESET, Mode, RUNPIPELINED, RUNSTREAMING
<1>6. Tokens(beri2, net' \o out') = Tokens(beri2, net \o out)
  <2>1. Owes(beri2, Op) = << >>
    BY <1>1, <1>2, ResetOwes
  <2> QED BY <1>4, <2>1, ConcatEmptySeq
<1> SUFFICES ASSUME NEW q \in Seq(Nat), NEW t \in Seq(Nat), NEW u \in Known, Flows(q, t, u)
             PROVE  \E t2 \in Seq(Nat), u2 \in Known : Flows(q, t2, u2)'
  BY <1>1, UnitAgrees
<1>7. /\ <<back', cached', Mode', t, u>> \in Owed(beri2')
      /\ q = t \o Tokens(beri2', net' \o out')
      /\ beri2' /\ u = PAUSED => unit'.state \in {PAUSED, RUNSTREAMING}
  BY <1>2, <1>3, <1>5, <1>6 DEF Flows
<1>8. Flows(q, t, u)'
  BY <1>7 DEF Flows
<1> QED BY <1>8

LEMMA LoseStepAgrees ==
  ASSUME IInv, LoseStep
  PROVE  Agrees'
<1>1. /\ Take /\ ~beri2 /\ Op = STEP_EXECUTION /\ unit' = [unit EXCEPT !.lost = TRUE]
      /\ UNCHANGED <<beri2, hostVars, out, was, sloppy, back>>
  BY DEF LoseStep, unitUnchanged, StepsRunning
<1>2. /\ Types /\ beri2 \in BOOLEAN /\ cached' = cached /\ out' = out /\ beri2' = beri2 /\ back' = back
      /\ back \in Seq(Bytes)
      /\ unit \in [state : PAUSED .. RUNSTREAMING, breakpoint : BOOLEAN, lost : BOOLEAN]
  BY <1>1 DEF IInv, Types, hostVars
<1>3. Mode = "idle"
  BY <1>1, <1>2, TakeTokens
<1>4. PICK z \in Seq(Nat) : /\ Tokens(beri2, net \o out) = Owes(beri2, Op) \o z
                            /\ Tokens(beri2, net' \o out') = z
  BY <1>1, <1>2, TakeTokens
<1>5. Mode' = "lost"
  BY <1>1, <1>2 DEF Mode
<1>6. Owes(beri2, Op) = <<STEP_EXECUTION>>
  BY <1>1 DEF Owes, STEP_EXECUTION, RESET, STREAM_TRACE_START
<1>7. "idle" \in Modes /\ "lost" \in Modes /\ STEP_EXECUTION \in Nat /\ << >> \in Seq(Bytes)
      /\ back \o << >> = back
  BY <1>2, EmptySeq, ConcatEmptySeq DEF Modes, STEP_EXECUTION
<1> SUFFICES ASSUME NEW q \in Seq(Nat), NEW t \in Seq(Nat), NEW u \in Known, Flows(q, t, u)
             PROVE  \E t2 \in Seq(Nat), u2 \in Known : Flows(q, t2, u2)'
  BY <1>1, UnitAgrees
<1>8. Moves(beri2, "idle", u, << >>, <<STEP_EXECUTION>>, "lost", u)
  BY DEF Moves
<1>9. \E t2 \in Seq(Nat) : Flows(q, t2, u)'
  <2> DEFINE p == << >>
             tk == <<STEP_EXECUTION>>
  <2>1. /\ p \in Seq(Bytes) /\ tk \in Seq(Nat) /\ Moves(beri2, "idle", u, p, tk, "lost", u)
        /\ back' = back \o p /\ Tokens(beri2, net \o out) = tk \o z
    BY <1>2, <1>4, <1>6, <1>7, <1>8
  <2> HIDE DEF p, tk
  <2> QED BY <1>1, <1>2, <1>3, <1>4, <1>5, <1>7, <2>1, MoveFlows
<1> QED BY <1>9

(* What the unit sends of its own accord.                                  *)
LEMMA SpokenAgrees ==
  ASSUME IInv, NEW m \in Modes, NEW m2 \in Modes, Mode = m, Mode' = m2, NEW p \in Seq(Bytes),
         \A u \in Known : Moves(beri2, m, u, p, << >>, m2, u),
         back' = back \o p, UNCHANGED <<beri2, hostVars, net, out, sloppy>>,
         unit'.state \in {PAUSED, RUNSTREAMING}
  PROVE  Agrees'
<1>1. Types /\ cached' = cached /\ out' = out /\ beri2' = beri2 /\ net' = net
  BY DEF IInv, hostVars
<1> DEFINE tk == << >>
           z == Tokens(beri2, net \o out)
<1>2. z \in Seq(Nat) /\ tk \in Seq(Nat) /\ tk \o z = z /\ Tokens(beri2, net' \o out') = z
  BY <1>1, FlowTypes, EmptySeq, ConcatEmptySeq
<1> SUFFICES ASSUME NEW q \in Seq(Nat), NEW t \in Seq(Nat), NEW u \in Known, Flows(q, t, u)
             PROVE  \E t2 \in Seq(Nat), u2 \in Known : Flows(q, t2, u2)'
  BY UnitAgrees
<1>3. Moves(beri2, m, u, p, tk, m2, u)
  OBVIOUS
<1>4. z = Tokens(beri2, net \o out)
  OBVIOUS
<1> HIDE DEF tk, z
<1>5. \E t2 \in Seq(Nat) : Flows(q, t2, u)'
  BY <1>1, <1>2, <1>3, <1>4, MoveFlows
<1> QED BY <1>5

LEMMA EntrySent ==
  ASSUME NEW last \in BOOLEAN, StreamEntry(last)
  PROVE  back' = back \o EntryOf(beri2, last)
<1>1. ReplyOp(POP_TRACE) = (IF beri2 THEN 117 ELSE 244) /\ ReplyOp(POPTRACE) = (IF beri2 THEN 43 ELSE 170)
  BY DEF ReplyOp, POP_TRACE, POPTRACE
<1>2. back' = back \o (IF ~beri2 THEN IF last THEN Packet(StreamEnd, << >>)
                                           ELSE Packet(244, Zeros(32))
                    ELSE Packet(43, <<IF last THEN 0 ELSE 1>> \o Zeros(31)))
  BY <1>1 DEF StreamEntry
<1>3. EntryOf(beri2, last) = (IF ~beri2 THEN IF last THEN Packet(StreamEnd, << >>)
                                           ELSE Packet(244, Zeros(32))
                    ELSE Packet(43, <<IF last THEN 0 ELSE 1>> \o Zeros(31)))
  BY DEF EntryOf
<1> QED BY <1>2, <1>3

LEMMA StreamEntryAgrees ==
  ASSUME IInv, NEW last \in BOOLEAN, StreamEntry(last)
  PROVE  Agrees'
<1>1. /\ unit.state = RUNSTREAMING
      /\ unit' = [unit EXCEPT !.state = IF last THEN PAUSED ELSE @]
      /\ UNCHANGED <<beri2, hostVars, out, was, sloppy, net>>
  BY DEF StreamEntry, unitUnchanged
<1>2. back' = back \o EntryOf(beri2, last)
  BY EntrySent
<1>3. /\ beri2 \in BOOLEAN /\ ~unit.lost
      /\ unit \in [state : PAUSED .. RUNSTREAMING, breakpoint : BOOLEAN, lost : BOOLEAN]
  BY <1>1 DEF IInv, Types, Shape
<1>4. EntryOf(beri2, last) \in Seq(Bytes)
  BY <1>3, EntryFacts
<1>5. unit'.lost = unit.lost /\ unit'.state = (IF last THEN PAUSED ELSE RUNSTREAMING)
  BY <1>1, <1>3
<1>6. Mode = "streaming" /\ Mode' = (IF last THEN "idle" ELSE "streaming")
  BY <1>1, <1>3, <1>5 DEF Mode, PAUSED, RUNSTREAMING
<1>7. \A u \in Known : Moves(beri2, "streaming", u, EntryOf(beri2, last), << >>,
                             IF last THEN "idle" ELSE "streaming", u)
  BY DEF Moves
<1>8. PICK m, m2 \in Modes : m = "streaming" /\ m2 = IF last THEN "idle" ELSE "streaming"
  BY DEF Modes
<1>9. PICK p \in Seq(Bytes) : p = EntryOf(beri2, last)
  BY <1>4
<1>10. /\ \A u \in Known : Moves(beri2, m, u, p, << >>, m2, u)
       /\ Mode = m /\ Mode' = m2 /\ back' = back \o p /\ unit'.state \in {PAUSED, RUNSTREAMING}
  BY <1>2, <1>5, <1>6, <1>7, <1>8, <1>9
<1> QED BY <1>1, <1>10, SpokenAgrees

LEMMA BreakpointFiresAgrees ==
  ASSUME IInv, BreakpointFires
  PROVE  Agrees'
<1>1. /\ unit.state # PAUSED /\ ~unit.lost
      /\ unit' = [unit EXCEPT !.state = IF @ = RUNSTREAMING THEN @ ELSE PAUSED]
      /\ UNCHANGED <<beri2, hostVars, out, sloppy, net>>
      /\ back' = back \o Report
  BY DEF BreakpointFires
<1>2. beri2 \in BOOLEAN /\ unit \in [state : PAUSED .. RUNSTREAMING, breakpoint : BOOLEAN, lost : BOOLEAN]
  BY DEF IInv, Types
<1>3. Report = ReportOf(beri2) /\ ReportOf(beri2) \in Seq(Bytes)
  BY <1>2, ReportType DEF Report, ReportOf, breakpointFiredOp
<1>4. unit'.lost = unit.lost /\ unit'.state = (IF unit.state = RUNSTREAMING THEN RUNSTREAMING ELSE PAUSED)
  BY <1>1, <1>2
<1>5. Mode' = Mode /\ Mode \in {"idle", "streaming"}
  BY <1>1, <1>4 DEF Mode, PAUSED, RUNSTREAMING
<1>6. PICK m \in Modes : m = Mode
  BY <1>5 DEF Modes
<1>7. PICK p \in Seq(Bytes) : p = ReportOf(beri2)
  BY <1>3
<1>8. /\ \A u \in Known : Moves(beri2, m, u, p, << >>, m, u)
      /\ Mode = m /\ Mode' = m /\ back' = back \o p /\ unit'.state \in {PAUSED, RUNSTREAMING}
  BY <1>1, <1>3, <1>4, <1>5, <1>6, <1>7 DEF Moves
<1> QED BY <1>1, <1>8, SpokenAgrees

-----------------------------------------------------------------------------
(* The types of the variables are kept.                                    *)
LEMMA ForgetType ==
  ASSUME Types, NEW n \in Nat, n <= Len(back)
  PROVE  Forget(n) \in Seq(Bytes)
<1>1. back \in Seq(Bytes) /\ Len(back) \in Nat
  BY LenProperties DEF Types
<1>2. n + 1 \in 1 .. Len(back) + 1 /\ Len(back) \in (n + 1) - 1 .. Len(back)
  BY <1>1
<1> QED BY <1>1, <1>2, SubSeqProperties DEF Forget

LEMMA FailTypes ==
  ASSUME Types, handlers \in Seq(Frames), NEW e \in Outcomes, Fail(e)
  PROVE  /\ ret' \in Outcomes /\ saved' \in Seq(0 .. 255) /\ sloppy' \in BOOLEAN
         /\ UNCHANGED <<open, cmd, cached, handlers>>
<1>1. /\ ret' = e /\ saved' = Handler.saved /\ sloppy' = (sloppy \/ LeavesReplies(e))
      /\ UNCHANGED <<open, cmd, cached, handlers>>
  BY DEF Fail
<1>2. sloppy' \in BOOLEAN
  BY <1>1
<1>3. CASE handlers = << >>
  <2>1. Handler.saved = << >> /\ << >> \in Seq(0 .. 255)
    BY <1>3, EmptySeq DEF Handler
  <2> QED BY <1>1, <1>2, <2>1
<1>4. CASE handlers # << >>
  <2>1. Handler = Head(handlers) /\ Head(handlers) \in Frames
    BY <1>4, HeadTailProperties DEF Handler
  <2>2. Handler.saved \in Seq(0 .. 255)
    BY <2>1 DEF Frames
  <2> QED BY <1>1, <1>2, <2>2
<1> QED BY <1>3, <1>4

LEMMA OutcomesAre ==
  {"SUCCESS", "EXCEPTION", "UNSUPPORTED", "DATA_UNEXPECTED", "NOTPAUSED", "USAGE_ERROR"} \subseteq Outcomes
BY DEF Outcomes

(* What only the host's steps on its own state may change.                 *)
LEMMA HostTypes ==
  ASSUME Types, UNCHANGED <<beri2, ring, out, net, unit, was>>, back' \in Seq(Bytes),
         open' \in BOOLEAN, cmd' \in Names, ret' \in Outcomes, cached' \in Known,
         saved' \in Seq(0 .. 255), fired' \in BOOLEAN, sloppy' \in BOOLEAN
  PROVE  Types'
<1>1. beri2' = beri2 /\ ring' = ring /\ out' = out /\ net' = net /\ unit' = unit /\ was' = was
  OBVIOUS
<1> QED BY <1>1 DEF Types

LEMMA TypesAre ==
  ASSUME Types
  PROVE  /\ beri2 \in BOOLEAN /\ ring \in Rings /\ open \in BOOLEAN /\ cmd \in Names
         /\ ret \in Outcomes /\ cached \in Known /\ saved \in Seq(0 .. 255) /\ fired \in BOOLEAN
         /\ out \in Seq(Reqs(beri2)) /\ Len(out) <= ring /\ net \in Seq(Reqs(beri2))
         /\ back \in Seq(Bytes) /\ was \in UNKNOWN .. RUNSTREAMING /\ sloppy \in BOOLEAN
         /\ unit \in [state : PAUSED .. RUNSTREAMING, breakpoint : BOOLEAN, lost : BOOLEAN]
BY DEF Types

(* A step of the host that neither sends nor reads.                        *)
QuietStep ==
  \/ needPaused \/ usage \/ beri_debug_client_set_pipeline_state \/ Beri2Pause \/ Beri2Resume
  \/ attempt \/ forget \/ breakpoint_check

LEMMA QuietTypes ==
  ASSUME IInv, QuietStep
  PROVE  Types'
<1>1. Types /\ handlers \in Seq(Frames) /\ Len(saved) \in 0 .. 2
  BY Agreeing DEF IInv
<1>2. ASSUME UNCHANGED <<beri2, ring, out, net, unit, was, back, cached, fired>>, NEW e \in Outcomes, Fail(e)
      PROVE  Types'
  <2>1. /\ ret' \in Outcomes /\ saved' \in Seq(0 .. 255) /\ sloppy' \in BOOLEAN
        /\ UNCHANGED <<open, cmd, cached, handlers>>
    BY <1>1, <1>2, FailTypes
  <2> QED BY <1>1, <1>2, <2>1, HostTypes, TypesAre
<1>3. CASE needPaused
  <2>1. CASE cached = PAUSED
    <3>1. UNCHANGED <<beri2, ring, out, net, unit, was, back, open, cmd, ret, cached, saved, fired, sloppy>>
      BY <1>3, <2>1 DEF needPaused, stepUnchanged
    <3> QED BY <1>1, <3>1, HostTypes, TypesAre
  <2>2. CASE cached # PAUSED
    <3>1. Fail("NOTPAUSED") /\ UNCHANGED <<beri2, ring, out, net, unit, was, back, fired>>
      BY <1>3, <2>2 DEF needPaused, stepUnchanged
    <3> QED BY <1>2, <3>1, OutcomesAre DEF Fail
  <2> QED BY <2>1, <2>2
<1>4. CASE usage
  <2>1. Fail("USAGE_ERROR") /\ UNCHANGED <<beri2, ring, out, net, unit, was, back, fired>>
    BY <1>4 DEF usage, stepUnchanged
  <2> QED BY <1>2, <2>1, OutcomesAre DEF Fail
<1>5. CASE beri_debug_client_set_pipeline_state
  <2>1. UNCHANGED <<beri2, ring, out, net, unit, was, back, open, cmd, ret, cached, saved, fired, sloppy>>
    BY <1>5 DEF beri_debug_client_set_pipeline_state, stepUnchanged
  <2> QED BY <1>1, <2>1, HostTypes, TypesAre
<1>6. CASE Beri2Pause
  <2>1. UNCHANGED <<beri2, ring, out, net, unit, was, back, open, cmd, ret, cached, fired, sloppy>>
    BY <1>6 DEF Beri2Pause, stepUnchanged
  <2>2. saved' = saved \/ saved' = <<PAUSED>> \o saved
    BY <1>6 DEF Beri2Pause
  <2>3. saved' \in Seq(0 .. 255)
    <3>1. PAUSED \in 0 .. 255 /\ saved \in Seq(0 .. 255)
      BY <1>1 DEF PAUSED, Types
    <3>2. <<PAUSED>> \in Seq(0 .. 255)
      BY <3>1
    <3>3. <<PAUSED>> \o saved \in Seq(0 .. 255)
      BY <3>1, <3>2, ConcatProperties
    <3> QED BY <2>2, <3>1, <3>3
  <2> QED BY <1>1, <2>1, <2>3, HostTypes, TypesAre
<1>7. CASE Beri2Resume
  <2>1. /\ UNCHANGED <<beri2, ring, out, net, unit, was, back, open, cmd, ret, cached, fired, sloppy>>
        /\ open /\ prog # << >> /\ Head(prog).do = "restore"
    BY <1>7 DEF Beri2Resume, stepUnchanged, At
  <2>2. saved' = (IF beri2 THEN Tail(saved) ELSE saved)
    BY <1>7 DEF Beri2Resume
  <2>3. beri2 => saved # << >>
    <3>1. PICK q \in Seq(Nat), k \in BOOLEAN :
              StepFits(beri2, cmd, Good(beri2, cmd), q, k, Len(saved), handlers,
                       Head(prog), Tail(prog), prog)
      BY <2>1, StepIs, Zenon
    <3>2. beri2 => Len(saved) > 0
      BY <2>1, <3>1 DEF StepFits, RestoreFits
    <3> QED BY <3>2
  <2>4. saved' \in Seq(0 .. 255)
    <3>1. saved \in Seq(0 .. 255)
      BY <1>1, TypesAre
    <3>2. CASE beri2
      BY <2>2, <2>3, <3>1, <3>2, HeadTailProperties
    <3>3. CASE ~beri2
      BY <2>2, <3>1, <3>3
    <3> QED BY <3>2, <3>3
  <2> QED BY <1>1, <2>1, <2>4, HostTypes, TypesAre
<1>8. CASE attempt
  <2>1. UNCHANGED <<beri2, ring, out, net, unit, was, back, open, cmd, ret, cached, saved, fired, sloppy>>
    BY <1>8 DEF attempt, stepUnchanged
  <2> QED BY <1>1, <2>1, HostTypes, TypesAre
<1>9. CASE forget
  <2>1. /\ UNCHANGED <<beri2, ring, out, net, unit, was, back, open, cmd, cached, saved, fired, sloppy>>
        /\ open /\ prog # << >> /\ Head(prog).do \in {"caught", "excepted", "ignored"}
        /\ ret' \in {Head(handlers).ret, "SUCCESS", ret}
    BY <1>9 DEF forget, stepUnchanged, At
  <2>2. handlers # << >>
    <3>1. PICK q \in Seq(Nat), k \in BOOLEAN :
              StepFits(beri2, cmd, Good(beri2, cmd), q, k, Len(saved), handlers,
                       Head(prog), Tail(prog), prog)
      BY <2>1, StepIs, Zenon
    <3> QED BY <2>1, <3>1 DEF StepFits, ForgetFits
  <2>3. Head(handlers).ret \in Outcomes
    <3>1. Head(handlers) \in Frames
      BY <1>1, <2>2, HeadTailProperties
    <3> QED BY <3>1 DEF Frames
  <2>4. ret' \in Outcomes
    BY <1>1, <2>1, <2>3, OutcomesAre, TypesAre
  <2> QED BY <1>1, <2>1, <2>4, HostTypes, TypesAre
<1>10. CASE breakpoint_check
  <2>1. /\ UNCHANGED <<beri2, ring, out, net, unit, was, back, open, cmd, ret, cached, saved, sloppy>>
        /\ fired' = FALSE
    BY <1>10 DEF breakpoint_check, stepUnchanged
  <2> QED BY <1>1, <2>1, HostTypes, TypesAre
<1> QED BY <1>3, <1>4, <1>5, <1>6, <1>7, <1>8, <1>9, <1>10 DEF QuietStep

LEMMA FailedReadTypes ==
  ASSUME IInv, Reading, NEW n \in Nat, Len(back) >= n, back' = Forget(n), NEW e \in Outcomes, Fail(e),
         UNCHANGED <<readUnchanged, fired>>
  PROVE  Types'
<1>1. Types /\ handlers \in Seq(Frames)
  BY Agreeing DEF IInv
<1>2. UNCHANGED <<beri2, ring, out, net, unit, was>> /\ fired' = fired
  BY DEF readUnchanged
<1>3. back' \in Seq(Bytes)
  <2>1. Len(back) \in Nat
    BY <1>1, TypesAre, LenProperties
  <2>2. n <= Len(back)
    BY <2>1
  <2> QED BY <1>1, <2>2, ForgetType
<1>4. /\ ret' \in Outcomes /\ saved' \in Seq(0 .. 255) /\ sloppy' \in BOOLEAN
      /\ UNCHANGED <<open, cmd, cached, handlers>>
  BY <1>1, FailTypes
<1> QED BY <1>1, <1>2, <1>3, <1>4, HostTypes, TypesAre

LEMMA ReadReplyTypes ==
  ASSUME IInv, ReadReply
  PROVE  Types'
<1> DEFINE s == Head(prog)
<1>1. Types /\ handlers \in Seq(Frames)
  BY Agreeing DEF IInv
<1>2. /\ Reading /\ Len(back) >= 2 + s.arg /\ back' = Forget(2 + s.arg)
      /\ UNCHANGED <<beri2, ring, out, net, unit, was>> /\ UNCHANGED <<open, cmd, ret, fired, sloppy>>
      /\ cached' = (IF s.do = "readSet" THEN s.op \div 2 ELSE IF s.do = "readPause" THEN PAUSED ELSE cached)
      /\ saved' = (IF s.do = "readPause" THEN <<back[3]>> \o saved ELSE saved)
  BY DEF ReadReply, readUnchanged, Arrived, Length, At, Reading
<1>3. PICK q \in Seq(Nat), k \in BOOLEAN : NextFits(q, k)
  BY Agreeing, Zenon
<1>4. ReadingFits(beri2, cmd, Good(beri2, cmd), q, k, Len(saved), handlers, s, Tail(prog))
  BY <1>2, <1>3, ReadingIs, Zenon
<1> HIDE DEF s
<1>5. s.arg \in Nat
  BY <1>4 DEF ReadingFits, ReadFits, ReadSetFits, ReadPauseFits, PopTraceFits, WaitFits, ReplyLength
<1>6. back' \in Seq(Bytes)
  <2>1. 2 + s.arg \in Nat /\ 2 + s.arg <= Len(back)
    <3>1. Len(back) \in Nat
      BY <1>1, TypesAre, LenProperties
    <3> QED BY <1>2, <1>5, <3>1
  <2> QED BY <1>1, <1>2, <2>1, ForgetType
<1>7. cached' \in Known
  <2>1. s.do = "readSet" => s.op \in SetOps
    BY <1>4 DEF ReadingFits, ReadSetFits
  <2>2. \A op \in SetOps : op \div 2 \in Known
    BY DEF SetOps, PAUSEPIPELINE, RESUMEPIPELINE, RESUMEUNPIPELINED, Known, PAUSED, RUNPIPELINED,
           RUNUNPIPELINED
  <2>3. PAUSED \in Known /\ cached \in Known
    BY <1>1, TypesAre DEF Known
  <2> QED BY <1>2, <2>1, <2>2, <2>3
<1>8. saved' \in Seq(0 .. 255)
  <2>1. saved \in Seq(0 .. 255) /\ back \in Seq(Bytes)
    BY <1>1, TypesAre
  <2>2. CASE s.do = "readPause"
    <3>1. s.arg = 1
      BY <1>4, <2>2 DEF ReadingFits, ReadPauseFits
    <3>2. back[3] \in Bytes
      <4>1. 3 \in 1 .. Len(back)
        <5>1. Len(back) \in Nat
          BY <2>1, LenProperties
        <5> QED BY <1>2, <3>1, <5>1
      <4> QED BY <2>1, <4>1, ElementOfSeq
    <3> DEFINE y == back[3]
    <3>3. <<y>> \in Seq(0 .. 255)
      BY <3>2 DEF Bytes
    <3> HIDE DEF y
    <3>4. <<y>> \o saved \in Seq(0 .. 255)
      BY <2>1, <3>3, ConcatProperties
    <3> QED BY <1>2, <2>2, <3>4 DEF y
  <2>3. CASE s.do # "readPause"
    BY <1>2, <2>1, <2>3
  <2> QED BY <2>2, <2>3
<1> QED BY <1>1, <1>2, <1>6, <1>7, <1>8, HostTypes, TypesAre

ReadStep == ReadException \/ ReadInvalid \/ ReadUnexpected \/ ReadReply \/ beri_debug_client_breakpoint_fired

LEMMA ReadTypes ==
  ASSUME IInv, ReadStep
  PROVE  Types'
<1>1. CASE ReadException
  <2> DEFINE n == 3
             e == "EXCEPTION"
  <2>1. n \in Nat /\ e \in Outcomes
    BY OutcomesAre
  <2>2. Reading /\ Len(back) >= n /\ back' = Forget(n) /\ Fail(e) /\ UNCHANGED <<readUnchanged, fired>>
    BY <1>1 DEF ReadException, Arrived
  <2> HIDE DEF n, e
  <2> QED BY <2>1, <2>2, FailedReadTypes
<1>2. CASE ReadInvalid
  <2> DEFINE n == 1
             e == "UNSUPPORTED"
  <2>1. n \in Nat /\ e \in Outcomes
    BY OutcomesAre
  <2>2. Reading /\ Len(back) >= n /\ back' = Forget(n) /\ Fail(e) /\ UNCHANGED <<readUnchanged, fired>>
    BY <1>2 DEF ReadInvalid, Arrived
  <2> HIDE DEF n, e
  <2> QED BY <2>1, <2>2, FailedReadTypes
<1>3. CASE ReadUnexpected
  <2> DEFINE n == 2
             e == "DATA_UNEXPECTED"
  <2>1. n \in Nat /\ e \in Outcomes
    BY OutcomesAre
  <2>2. Reading /\ Len(back) >= n /\ back' = Forget(n) /\ Fail(e) /\ UNCHANGED <<readUnchanged, fired>>
    BY <1>3 DEF ReadUnexpected, Arrived
  <2> HIDE DEF n, e
  <2> QED BY <2>1, <2>2, FailedReadTypes
<1>4. CASE beri_debug_client_breakpoint_fired
  <2> DEFINE n == 10
  <2>1. /\ Len(back) >= n /\ back' = Forget(n) /\ n \in Nat /\ fired' = TRUE
        /\ UNCHANGED <<beri2, ring, out, net, unit, was>> /\ UNCHANGED <<open, cmd, ret, cached, saved, sloppy>>
    BY <1>4 DEF beri_debug_client_breakpoint_fired, readUnchanged, Arrived
  <2>2. Types
    BY DEF IInv
  <2> HIDE DEF n
  <2>3. n <= Len(back)
    <3>1. Len(back) \in Nat
      BY <2>2, TypesAre, LenProperties
    <3> QED BY <2>1, <3>1
  <2>4. back' \in Seq(Bytes)
    BY <2>1, <2>2, <2>3, ForgetType
  <2> QED BY <2>1, <2>2, <2>4, HostTypes, TypesAre
<1> QED BY <1>1, <1>2, <1>3, <1>4, ReadReplyTypes DEF ReadStep

LEMMA RingSize ==
  ASSUME Types
  PROVE  0 <= ring
<1>1. ring \in Rings
  BY DEF Types
<1>2. ring \in Nat
  BY <1>1, RingAssumption
<1> QED BY <1>2

(* What the steps that send, and the sessions, may change.                 *)
LEMMA FlushTypes ==
  ASSUME IInv, circular_buffer_flush
  PROVE  Types'
<1>1. /\ net' = net \o out /\ out' = << >>
      /\ UNCHANGED <<beri2, ring, open, cmd, ret, cached, saved, fired, back, unit, was, sloppy>>
  BY DEF circular_buffer_flush, hostVars
<1>2. Types
  BY DEF IInv
<1>3. net \o out \in Seq(Reqs(beri2))
  BY <1>2, FlowTypes
<1>4. << >> \in Seq(Reqs(beri2)) /\ Len(<< >>) = 0
  BY EmptySeq
<1>5. 0 <= ring
  BY <1>2, RingSize
<1> QED BY <1>1, <1>2, <1>3, <1>4, <1>5 DEF Types

LEMMA PacketWriteTypes ==
  ASSUME IInv, beri_debug_client_packet_write
  PROVE  Types'
<1>1. /\ open /\ prog # << >> /\ Head(prog).do = "write"
      /\ UNCHANGED <<beri2, ring, open, cmd, ret, cached, saved, fired, back, unit, was, sloppy>>
  BY DEF beri_debug_client_packet_write, At
<1>2. Types /\ prog \in Seq(Steps)
  BY Agreeing DEF IInv
<1>3. Head(prog).op \in Ops(beri2) /\ Head(prog).arg \in {0, 1}
  <2>1. PICK q \in Seq(Nat), k \in BOOLEAN :
            StepFits(beri2, cmd, Good(beri2, cmd), q, k, Len(saved), handlers,
                     Head(prog), Tail(prog), prog)
    BY <1>1, StepIs, Zenon
  <2> QED BY <1>1, <2>1 DEF StepFits, WriteFits
<1>4. out' \in Seq(Reqs(beri2)) /\ Len(out') <= ring /\ net' \in Seq(Reqs(beri2))
  BY <1>1, <1>2, <1>3, PacketWritten
<1> QED BY <1>1, <1>2, <1>4 DEF Types

LEMMA DrainTypes ==
  ASSUME IInv, beri_debug_client_drain
  PROVE  Types'
<1>1. /\ out' = << >> /\ back' = << >> /\ sloppy' = ~Quiet'
      /\ UNCHANGED <<beri2, ring, open, cmd, ret, cached, saved, fired, net, unit, was>>
  BY DEF beri_debug_client_drain
<1>2. Types
  BY DEF IInv
<1>4. << >> \in Seq(Reqs(beri2)) /\ Len(<< >>) = 0 /\ << >> \in Seq(Bytes)
  BY EmptySeq
<1>5. 0 <= ring
  BY <1>2, RingSize
<1>6. sloppy' \in BOOLEAN
  BY <1>1 DEF Quiet
<1> QED BY <1>1, <1>2, <1>4, <1>5, <1>6 DEF Types

LEMMA OpenTypes ==
  ASSUME IInv, NEW c \in Names, Open(c)
  PROVE  Types'
<1>1. /\ open' = TRUE /\ cmd' = c /\ ret' = "SUCCESS" /\ cached' = UNKNOWN /\ saved' = << >>
      /\ fired' = FALSE /\ was' = (IF sloppy THEN UNKNOWN ELSE unit.state)
      /\ UNCHANGED <<beri2, ring, out, net, back, unit, sloppy>>
  BY DEF Open, Begin, InitialPipelineState
<1>2. Types
  BY DEF IInv
<1>3. << >> \in Seq(0 .. 255) /\ UNKNOWN \in Known
  BY EmptySeq DEF Known
<1>4. was' \in UNKNOWN .. RUNSTREAMING
  BY <1>1, <1>2 DEF Types, UNKNOWN, PAUSED, RUNSTREAMING
<1> QED BY <1>1, <1>2, <1>3, <1>4, OutcomesAre DEF Types

LEMMA NextCommandTypes ==
  ASSUME IInv, NEW c \in Names, NextCommand(c)
  PROVE  Types'
<1>1. /\ cmd' = c /\ ret' = "SUCCESS"
      /\ UNCHANGED <<beri2, ring, open, cached, saved, fired, out, net, back, unit, was, sloppy>>
  BY DEF NextCommand, Begin
<1>2. Types
  BY DEF IInv
<1> QED BY <1>1, <1>2, OutcomesAre DEF Types

LEMMA LeaveTypes ==
  ASSUME Types, NEW n \in Nat, n <= Len(back), Leave(n), sloppy' \in BOOLEAN
  PROVE  Types'
<1>1. /\ open' = FALSE /\ out' = << >> /\ back' = Forget(n) /\ saved' = << >> /\ fired' = FALSE
      /\ UNCHANGED <<beri2, ring, cmd, ret, cached, net, unit, was>>
  BY DEF Leave
<1>2. Forget(n) \in Seq(Bytes)
  BY ForgetType
<1>3. << >> \in Seq(0 .. 255) /\ << >> \in Seq(Reqs(beri2)) /\ Len(<< >>) = 0
  BY EmptySeq
<1>4. 0 <= ring
  BY RingSize
<1> QED BY <1>1, <1>2, <1>3, <1>4 DEF Types

LEMMA CloseTypes ==
  ASSUME IInv, beri_debug_client_close
  PROVE  Types'
<1>1. Types
  BY DEF IInv
<1>2. PICK n \in (IF ring = 0 THEN {0} ELSE 0 .. Len(back)) :
        /\ Leave(n)
        /\ sloppy' = (\/ sloppy
                      \/ ~OnlyReports(Forget(n)) /\ OnlyReports(back)
                      \/ cmd = "memtrace" /\ out = << >>)
  BY DEF beri_debug_client_close
<1>3. n \in Nat /\ n <= Len(back)
  <2>1. Len(back) \in Nat
    BY <1>1, TypesAre, LenProperties
  <2> QED BY <1>2, <2>1
<1>4. sloppy' \in BOOLEAN
  BY <1>2 DEF OnlyReports
<1> QED BY <1>1, <1>2, <1>3, <1>4, LeaveTypes

LEMMA KillTypes ==
  ASSUME IInv, Kill
  PROVE  Types'
<1>1. Types
  BY DEF IInv
<1>2. PICK n \in {0, 1, Len(back)} : n <= Len(back) /\ Leave(n)
  BY DEF Kill
<1>3. n \in Nat
  <2>1. Len(back) \in Nat
    BY <1>1, TypesAre, LenProperties
  <2> QED BY <1>2, <2>1
<1>4. sloppy' \in BOOLEAN
  BY DEF Kill
<1> QED BY <1>1, <1>2, <1>3, <1>4, LeaveTypes

(* What the steps of the unit may change.                                  *)
LEMMA UnitTypes ==
  ASSUME Types, UNCHANGED <<beri2, hostVars, ring, out, sloppy>>, net' \in Seq(Reqs(beri2)),
         back' \in Seq(Bytes), was' \in UNKNOWN .. RUNSTREAMING,
         unit' \in [state : PAUSED .. RUNSTREAMING, breakpoint : BOOLEAN, lost : BOOLEAN]
  PROVE  Types'
<1>1. /\ beri2' = beri2 /\ ring' = ring /\ out' = out /\ sloppy' = sloppy /\ open' = open /\ cmd' = cmd
      /\ ret' = ret /\ cached' = cached /\ saved' = saved /\ fired' = fired
  BY DEF hostVars
<1> QED BY <1>1 DEF Types

LEMMA SentTypes ==
  ASSUME Types
  PROVE  \A p \in Seq(Bytes) : back \o p \in Seq(Bytes)
<1>1. back \in Seq(Bytes)
  BY TypesAre
<1> QED BY <1>1, ConcatProperties

LEMMA ServeTypes ==
  ASSUME IInv, Serve
  PROVE  Types'
<1>1. /\ Take /\ Op # RESET
      /\ UNCHANGED <<beri2, ring, hostVars, out, was, sloppy>>
  BY DEF Serve, unitUnchanged
<1>2. Types /\ out' = out
  BY <1>1 DEF IInv
<1>3. Op \in Ops(beri2) /\ ~unit.lost /\ unit.state # RUNSTREAMING /\ net' \in Seq(Reqs(beri2))
  BY <1>1, <1>2, TakeTokens
<1>4. back' \in Seq(Bytes)
  <2>1. CASE Op \in NoReply
    <3>1. << >> \in Seq(Bytes)
      BY EmptySeq
    <3>2. back' = back \o << >>
      BY <2>1 DEF Serve
    <3>3. back \o << >> = back
      BY <1>2, TypesAre, ConcatEmptySeq
    <3> QED BY <1>2, <3>2, <3>3, TypesAre
  <2>2. CASE Op \notin NoReply
    <3>1. PICK p \in Seq(Bytes) : back' = back \o p
      BY <1>2, <1>3, <2>2, ServeReplies
    <3> QED BY <1>2, <3>1, SentTypes
  <2> QED BY <2>1, <2>2
<1>5. unit' \in [state : PAUSED .. RUNSTREAMING, breakpoint : BOOLEAN, lost : BOOLEAN]
  <2>1. NewState \in PAUSED .. RUNSTREAMING
    BY DEF NewState, PAUSED, RUNPIPELINED, RUNUNPIPELINED, RUNSTREAMING
  <2>2. unit' = [unit EXCEPT
       !.state = IF Op \in SetsState THEN NewState ELSE @,
       !.breakpoint = IF Op = (IF beri2 THEN SETBREAKPOINT ELSE LOAD_BREAKPOINT_0)
                        THEN net[1].arg = 1 ELSE @]
    BY DEF Serve
  <2>3. unit \in [state : PAUSED .. RUNSTREAMING, breakpoint : BOOLEAN, lost : BOOLEAN]
    BY <1>2, TypesAre
  <2>4. (net[1].arg = 1) \in BOOLEAN
    OBVIOUS
  <2> HIDE DEF NewState, SetsState
  <2> DEFINE S == PAUSED .. RUNSTREAMING
             st == IF Op \in SetsState THEN NewState ELSE unit.state
             br == IF Op = (IF beri2 THEN SETBREAKPOINT ELSE LOAD_BREAKPOINT_0)
                     THEN net[1].arg = 1 ELSE unit.breakpoint
  <2>5. st \in S /\ br \in BOOLEAN
    BY <2>1, <2>3, <2>4
  <2>6. /\ unit' = [unit EXCEPT !.state = st, !.breakpoint = br]
        /\ unit \in [state : S, breakpoint : BOOLEAN, lost : BOOLEAN]
    BY <2>2, <2>3
  <2> HIDE DEF st, br, S
  <2>7. unit' \in [state : S, breakpoint : BOOLEAN, lost : BOOLEAN]
    BY <2>5, <2>6
  <2> QED BY <2>7 DEF S
<1> QED BY <1>1, <1>2, <1>3, <1>4, <1>5, UnitTypes, TypesAre

LEMMA OtherUnitTypes ==
  ASSUME IInv, ServeException \/ ServeInvalid \/ ServeReset \/ LoseStep
  PROVE  Types'
<1>1. /\ Take
      /\ UNCHANGED <<beri2, ring, hostVars, out, was, sloppy>>
  BY DEF ServeException, ServeInvalid, ServeReset, LoseStep, unitUnchanged
<1>2. Types /\ out' = out /\ beri2 \in BOOLEAN
  BY <1>1 DEF IInv, Types
<1>3. net' \in Seq(Reqs(beri2))
  BY <1>1, <1>2, TakeTokens
<1>4. unit \in [state : PAUSED .. RUNSTREAMING, breakpoint : BOOLEAN, lost : BOOLEAN] /\ back \in Seq(Bytes)
      /\ was \in UNKNOWN .. RUNSTREAMING
  BY <1>2, TypesAre
<1>5. CASE ServeException
  <2>1. exceptionOp \in Bytes
    BY DEF exceptionOp, Bytes
  <2>2. Packet(exceptionOp, Zeros(1)) \in Seq(Bytes)
    BY <2>1, ShortPacket
  <2>3. back' \in Seq(Bytes) /\ unit' = unit
    BY <1>2, <1>5, <2>2, SentTypes DEF ServeException
  <2> QED BY <1>1, <1>2, <1>3, <1>4, <2>3, UnitTypes
<1>6. CASE ServeInvalid
  <2>1. invalidOp \in Bytes
    BY DEF invalidOp, exceptionOp, Bytes
  <2>2. Packet(invalidOp, Zeros(1)) \in Seq(Bytes) /\ Packet(invalidOp, << >>) \in Seq(Bytes)
    BY <2>1, ShortPacket
  <2>3. back' = back \o Packet(invalidOp, Zeros(1)) \/ back' = back \o Packet(invalidOp, << >>)
    BY <1>6 DEF ServeInvalid
  <2>4. back' \in Seq(Bytes) /\ unit' = unit
    BY <1>2, <1>6, <2>2, <2>3, SentTypes DEF ServeInvalid
  <2> QED BY <1>1, <1>2, <1>3, <1>4, <2>4, UnitTypes
<1>7. CASE ServeReset
  <2>1. back' = back /\ unit' = [state |-> RUNPIPELINED, breakpoint |-> FALSE, lost |-> FALSE]
    BY <1>7 DEF ServeReset
  <2>2. unit' \in [state : PAUSED .. RUNSTREAMING, breakpoint : BOOLEAN, lost : BOOLEAN]
    BY <2>1 DEF PAUSED, RUNPIPELINED, RUNSTREAMING
  <2> QED BY <1>1, <1>2, <1>3, <1>4, <2>1, <2>2, UnitTypes
<1>8. CASE LoseStep
  <2>1. back' = back /\ unit' = [unit EXCEPT !.lost = TRUE]
    BY <1>8 DEF LoseStep
  <2>2. unit' \in [state : PAUSED .. RUNSTREAMING, breakpoint : BOOLEAN, lost : BOOLEAN]
    BY <1>4, <2>1
  <2> QED BY <1>1, <1>2, <1>3, <1>4, <2>1, <2>2, UnitTypes
<1> QED BY <1>5, <1>6, <1>7, <1>8

LEMMA SpokenTypes ==
  ASSUME IInv, BreakpointFires \/ \E last \in BOOLEAN : StreamEntry(last)
  PROVE  Types'
<1>1. Types /\ beri2 \in BOOLEAN
  BY DEF IInv, Types
<1>2. unit \in [state : PAUSED .. RUNSTREAMING, breakpoint : BOOLEAN, lost : BOOLEAN]
      /\ was \in UNKNOWN .. RUNSTREAMING /\ net \in Seq(Reqs(beri2))
  BY <1>1, TypesAre
<1>3. PAUSED \in PAUSED .. RUNSTREAMING /\ UNKNOWN \in UNKNOWN .. RUNSTREAMING
  BY DEF PAUSED, RUNSTREAMING, UNKNOWN
<1>4. CASE BreakpointFires
  <2>1. /\ UNCHANGED <<beri2, ring, hostVars, out, net, sloppy>> /\ was' = UNKNOWN
        /\ back' = back \o Report
        /\ unit' = [unit EXCEPT !.state = IF @ = RUNSTREAMING THEN @ ELSE PAUSED]
    BY <1>4 DEF BreakpointFires
  <2>2. Report = ReportOf(beri2) /\ ReportOf(beri2) \in Seq(Bytes)
    BY <1>1, ReportType DEF Report, ReportOf, breakpointFiredOp
  <2>3. back' \in Seq(Bytes)
    BY <1>1, <2>1, <2>2, SentTypes
  <2>4. unit' \in [state : PAUSED .. RUNSTREAMING, breakpoint : BOOLEAN, lost : BOOLEAN]
    BY <1>2, <1>3, <2>1
  <2> QED BY <1>1, <1>2, <1>3, <2>1, <2>3, <2>4, UnitTypes
<1>5. ASSUME NEW last \in BOOLEAN, StreamEntry(last) PROVE Types'
  <2>1. /\ unit' = [unit EXCEPT !.state = IF last THEN PAUSED ELSE @]
        /\ UNCHANGED <<beri2, ring, hostVars, out, was, sloppy, net>>
    BY <1>5 DEF StreamEntry, unitUnchanged
  <2>2. back' = back \o EntryOf(beri2, last)
    BY <1>5, EntrySent
  <2>3. EntryOf(beri2, last) \in Seq(Bytes)
    BY <1>1, EntryFacts
  <2>4. back' \in Seq(Bytes)
    BY <1>1, <2>2, <2>3, SentTypes
  <2>5. unit' \in [state : PAUSED .. RUNSTREAMING, breakpoint : BOOLEAN, lost : BOOLEAN]
    BY <1>2, <1>3, <2>1
  <2> QED BY <1>1, <1>2, <2>1, <2>4, <2>5, UnitTypes
<1> QED BY <1>4, <1>5

-----------------------------------------------------------------------------
(* The shape of the simplest commands is kept.                             *)
LEMMA OtherStepShape ==
  ASSUME Shape, open, prog # << >>, Head(prog).do \notin {"write", "drain"},
         UNCHANGED <<open, cmd, unit, beri2>>
  PROVE  Shape'
<1>1. cmd # "memtrace"
  <2> SUFFICES ASSUME cmd = "memtrace" PROVE FALSE
    OBVIOUS
  <2>1. prog = Write(MEM_TRACE)
    BY DEF Shape
  <2>2. Head(prog).do = "write"
    BY <2>1 DEF Write, Step
  <2> QED BY <2>2
<1>2. cmd # "drain"
  <2> SUFFICES ASSUME cmd = "drain" PROVE FALSE
    OBVIOUS
  <2>1. prog = Step("drain", 0, 0)
    BY DEF Shape
  <2>2. Head(prog).do = "drain"
    BY <2>1 DEF Step
  <2> QED BY <2>2
<1>3. open' = open /\ cmd' = cmd /\ unit' = unit /\ beri2' = beri2
  OBVIOUS
<1> QED BY <1>1, <1>2, <1>3 DEF Shape

LEMMA HostShape ==
  ASSUME IInv, QuietStep \/ ReadStep \/ circular_buffer_flush
  PROVE  Shape'
<1>1. Shape
  BY DEF IInv
<1>2. CASE QuietStep
  <2>1. open /\ prog # << >> /\ Head(prog).do \notin {"write", "drain"}
    BY <1>2 DEF QuietStep, needPaused, usage, beri_debug_client_set_pipeline_state, Beri2Pause,
                Beri2Resume, attempt, forget, breakpoint_check, At
  <2>2. open' = open /\ cmd' = cmd
    BY <1>2 DEF QuietStep, needPaused, usage, beri_debug_client_set_pipeline_state, Beri2Pause,
                Beri2Resume, attempt, forget, breakpoint_check, Fail
  <2>3. unit' = unit /\ beri2' = beri2
    BY <1>2 DEF QuietStep, needPaused, usage, beri_debug_client_set_pipeline_state, Beri2Pause,
                Beri2Resume, attempt, forget, breakpoint_check, stepUnchanged
  <2> QED BY <1>1, <2>1, <2>2, <2>3, OtherStepShape
<1>3. Reading => open /\ prog # << >> /\ Head(prog).do \notin {"write", "drain"}
  BY DEF Reading, At
<1>4. CASE ReadStep
  <2>1. Reading
    BY <1>4 DEF ReadStep, ReadException, ReadInvalid, ReadUnexpected, ReadReply,
                beri_debug_client_breakpoint_fired
  <2>2. open' = open /\ cmd' = cmd
    BY <1>4 DEF ReadStep, ReadException, ReadInvalid, ReadUnexpected, ReadReply,
                beri_debug_client_breakpoint_fired, Fail
  <2>3. unit' = unit /\ beri2' = beri2
    BY <1>4 DEF ReadStep, ReadException, ReadInvalid, ReadUnexpected, ReadReply,
                beri_debug_client_breakpoint_fired, readUnchanged
  <2> QED BY <1>1, <1>3, <2>1, <2>2, <2>3, OtherStepShape
<1>5. CASE circular_buffer_flush
  <2>1. Reading /\ UNCHANGED <<open, cmd, unit, beri2>>
    BY <1>5 DEF circular_buffer_flush, hostVars
  <2> QED BY <1>1, <1>3, <2>1, OtherStepShape
<1> QED BY <1>2, <1>4, <1>5

LEMMA SentShape ==
  ASSUME IInv, beri_debug_client_packet_write
  PROVE  Shape'
<1> DEFINE r == [op |-> Head(prog).op, arg |-> Head(prog).arg]
<1>1. /\ open /\ prog # << >> /\ Head(prog).do = "write" /\ prog' = Tail(prog)
      /\ UNCHANGED <<beri2, open, cmd, cached, unit>>
      /\ \/ out' = out \/ out' = <<r>> \/ out' = Append(out, r)
  BY DEF beri_debug_client_packet_write, At, Continue
<1>2. Shape /\ out \in Seq(Reqs(beri2))
  BY DEF IInv, Types
<1>3. cmd # "drain"
  <2> SUFFICES ASSUME cmd = "drain" PROVE FALSE
    OBVIOUS
  <2>1. prog = Step("drain", 0, 0)
    BY <1>1, <1>2 DEF Shape
  <2>2. Head(prog).do = "drain"
    BY <2>1 DEF Step
  <2> QED BY <1>1, <2>2
<1>4. ASSUME cmd = "memtrace"
      PROVE  prog' = << >> /\ \A i \in 1 .. Len(out') : out'[i].op = MEM_TRACE
  <2>1. prog = Write(MEM_TRACE) /\ \A i \in 1 .. Len(out) : out[i].op = MEM_TRACE
    BY <1>1, <1>2, <1>4 DEF Shape
  <2>2. prog' = << >> /\ r.op = MEM_TRACE
    BY <1>1, <2>1 DEF Write, Step
  <2> HIDE DEF r
  <2>3. CASE out' = out
    BY <2>1, <2>2, <2>3
  <2>4. CASE out' = <<r>>
    BY <2>2, <2>4
  <2>5. CASE out' = Append(out, r)
    <3> DEFINE S == Reqs(beri2) \cup {r}
    <3>1. out \in Seq(S) /\ r \in S
      BY <1>2
    <3> HIDE DEF S
    <3>2. /\ Len(Append(out, r)) = Len(out) + 1 /\ Len(out) \in Nat
          /\ \A i \in 1 .. Len(out) : Append(out, r)[i] = out[i]
          /\ Append(out, r)[Len(out) + 1] = r
      BY <3>1, AppendProperties, LenProperties
    <3>3. ASSUME NEW i \in 1 .. Len(out') PROVE out'[i].op = MEM_TRACE
      <4>1. i \in 1 .. Len(out) \/ i = Len(out) + 1
        BY <2>5, <3>2, <3>3
      <4> QED BY <2>1, <2>2, <2>5, <3>2, <4>1
    <3> QED BY <2>2, <3>3
  <2> QED BY <1>1, <2>3, <2>4, <2>5
<1> QED BY <1>1, <1>2, <1>3, <1>4 DEF Shape

LEMMA DrainShape ==
  ASSUME IInv, beri_debug_client_drain
  PROVE  Shape'
<1>1. /\ open /\ prog # << >> /\ Head(prog).do = "drain" /\ prog' = Tail(prog) /\ out' = << >>
      /\ UNCHANGED <<beri2, open, cmd, cached, unit>>
  BY DEF beri_debug_client_drain, At, Continue
<1>2. Shape
  BY DEF IInv
<1>3. PICK q \in Seq(Nat), k \in BOOLEAN :
          StepFits(beri2, cmd, Good(beri2, cmd), q, k, Len(saved), handlers,
                   Head(prog), Tail(prog), prog)
  BY <1>1, StepIs, Zenon
<1>4. cmd = "drain" /\ Tail(prog) = << >>
  BY <1>1, <1>3 DEF StepFits, DrainFits
<1> QED BY <1>1, <1>2, <1>4 DEF Shape

LEMMA SessionShape ==
  ASSUME IInv, NEW c \in Names, Open(c) \/ NextCommand(c)
  PROVE  Shape'
<1>1. Shape
  BY DEF IInv
<1>2. prog' = Command(c, beri2) /\ cmd' = c /\ open' /\ UNCHANGED <<beri2, unit, out>>
  <2>1. CASE Open(c)
    BY <2>1 DEF Open, Begin
  <2>2. CASE NextCommand(c)
    BY <2>2 DEF NextCommand, Begin
  <2> QED BY <2>1, <2>2
<1>3. CASE Open(c)
  <2>1. ~open /\ cached' = UNKNOWN
    BY <1>3 DEF Open, InitialPipelineState
  <2>2. out' = << >>
    BY <1>1, <1>2, <2>1 DEF Shape
  <2>3. ASSUME c = "memtrace" PROVE prog' = Write(MEM_TRACE)
    <3>1. Command(c, beri2) = Write(MEM_TRACE)
      BY <2>3 DEF Command, Loads, Stores, SetAddrs, Traces, ZeroArgs, Devices, Files, run_trace,
                  berictl_mem_trace
    <3> QED BY <1>2, <3>1
  <2>4. ASSUME c = "drain" PROVE prog' = Step("drain", 0, 0)
    <3>1. Command(c, beri2) = Step("drain", 0, 0)
      BY <2>4 DEF Command, Loads, Stores, SetAddrs, Traces, ZeroArgs, Devices, Files, run_zeroargs,
                  berictl_drain
    <3> QED BY <1>2, <3>1
  <2> QED BY <1>1, <1>2, <2>1, <2>2, <2>3, <2>4 DEF Shape
<1>4. CASE NextCommand(c)
  <2>1. c \notin {"memtrace", "drain"}
    BY <1>4 DEF NextCommand, ControlNames
  <2> QED BY <1>1, <1>2, <2>1 DEF Shape
<1> QED BY <1>3, <1>4

LEMMA EndShape ==
  ASSUME IInv, beri_debug_client_close \/ Kill
  PROVE  Shape'
<1>1. Shape
  BY DEF IInv
<1>2. PICK n : Leave(n)
  <2>1. CASE beri_debug_client_close
    BY <2>1 DEF beri_debug_client_close
  <2>2. CASE Kill
    BY <2>2 DEF Kill
  <2> QED BY <2>1, <2>2
<1>3. /\ ~open' /\ out' = << >> /\ prog' = << >> /\ handlers' = << >> /\ saved' = << >>
      /\ UNCHANGED <<beri2, unit>>
  BY <1>2 DEF Leave
<1> QED BY <1>1, <1>3 DEF Shape

UnitSpeaks == UnitStep \/ BreakpointFires \/ \E last \in BOOLEAN : StreamEntry(last)

LEMMA UnitShape ==
  ASSUME IInv, UnitSpeaks
  PROVE  Shape'
<1>1. Shape /\ unit \in [state : PAUSED .. RUNSTREAMING, breakpoint : BOOLEAN, lost : BOOLEAN]
  BY DEF IInv, Types
<1>2. UNCHANGED <<beri2, hostVars, out>>
  BY DEF UnitSpeaks, UnitStep, Serve, ServeException, ServeInvalid, ServeReset, LoseStep, StreamEntry,
         BreakpointFires, unitUnchanged
<1>3. unit'.lost => ~beri2 /\ unit'.state # RUNSTREAMING
  <2>1. CASE Serve
    <3>1. unit'.lost = unit.lost /\ ~unit.lost
      BY <1>1, <2>1 DEF Serve, Take, Busy
    <3> QED BY <3>1
  <2>2. CASE ServeException \/ ServeInvalid
    BY <1>1, <2>2 DEF ServeException, ServeInvalid, Shape
  <2>3. CASE ServeReset
    BY <2>3 DEF ServeReset
  <2>4. CASE LoseStep
    <3>1. unit'.state = unit.state /\ unit.state # RUNSTREAMING /\ ~beri2
      BY <1>1, <2>4 DEF LoseStep, Take, Busy, StepsRunning
    <3> QED BY <3>1
  <2>5. CASE BreakpointFires
    <3>1. unit'.lost = unit.lost /\ ~unit.lost
      BY <1>1, <2>5 DEF BreakpointFires
    <3> QED BY <3>1
  <2>6. ASSUME NEW last \in BOOLEAN, StreamEntry(last)
        PROVE  unit'.lost => ~beri2 /\ unit'.state # RUNSTREAMING
    <3>1. unit'.lost = unit.lost /\ unit.state = RUNSTREAMING
      BY <1>1, <2>6 DEF StreamEntry
    <3> QED BY <1>1, <3>1 DEF Shape
  <2> QED BY <2>1, <2>2, <2>3, <2>4, <2>5, <2>6 DEF UnitSpeaks, UnitStep
<1> QED BY <1>1, <1>2, <1>3 DEF Shape, hostVars

-----------------------------------------------------------------------------
(* The invariant holds in every reachable state.                           *)
LEMMA InitIInv == Init => IInv
<1> SUFFICES ASSUME Init PROVE IInv
  OBVIOUS
<1>1. /\ beri2 \in BOOLEAN /\ ring \in Rings
      /\ open = FALSE /\ cmd = "drain" /\ prog = << >> /\ handlers = << >> /\ ret = "SUCCESS"
      /\ cached = UNKNOWN /\ saved = << >> /\ fired = FALSE
      /\ out = << >> /\ net = << >> /\ back = << >>
      /\ unit \in [state : {PAUSED, RUNPIPELINED, RUNUNPIPELINED}, breakpoint : {FALSE}, lost : {FALSE}]
      /\ was = unit.state /\ sloppy = FALSE
  BY DEF Init
<1>2. << >> \in Seq(0 .. 255) /\ << >> \in Seq(Reqs(beri2)) /\ << >> \in Seq(Bytes)
      /\ << >> \in Seq(Nat) /\ Len(<< >>) = 0 /\ FALSE \in BOOLEAN /\ << >> \o << >> = << >>
  BY EmptySeq, ConcatEmptySeq
<1>3. UNKNOWN \in Known /\ "drain" \in Names
  BY DEF Known, Names, ZeroArgs
<1>4. unit.state \in {PAUSED, RUNPIPELINED, RUNUNPIPELINED} /\ unit.breakpoint = FALSE /\ unit.lost = FALSE
  BY <1>1
<1>5. Types
  <2>1. unit \in [state : PAUSED .. RUNSTREAMING, breakpoint : BOOLEAN, lost : BOOLEAN]
    <3> DEFINE A == {PAUSED, RUNPIPELINED, RUNUNPIPELINED}
               S == PAUSED .. RUNSTREAMING
    <3>1. A \subseteq S
      BY DEF PAUSED, RUNPIPELINED, RUNUNPIPELINED, RUNSTREAMING
    <3>2. unit \in [state : A, breakpoint : {FALSE}, lost : {FALSE}]
      BY <1>1
    <3> HIDE DEF A, S
    <3>3. unit \in [state : S, breakpoint : BOOLEAN, lost : BOOLEAN]
      BY <3>1, <3>2
    <3> QED BY <3>3 DEF S
  <2>2. was \in UNKNOWN .. RUNSTREAMING
    BY <1>1, <1>4 DEF UNKNOWN, PAUSED, RUNPIPELINED, RUNUNPIPELINED, RUNSTREAMING
  <2>3. Len(out) <= ring
    <3>1. ring \in Nat
      BY <1>1, RingAssumption
    <3> QED BY <1>1, <1>2, <3>1
  <2>4. ret \in Outcomes /\ open \in BOOLEAN /\ sloppy \in BOOLEAN /\ fired \in BOOLEAN
    BY <1>1, OutcomesAre
  <2> QED BY <1>1, <1>2, <1>3, <2>1, <2>2, <2>3, <2>4 DEF Types
<1>6. Shape
  BY <1>1, <1>4 DEF Shape
<1>7. Knows(<< >>, FALSE)
  BY <1>1, <1>2, EndIsGood DEF Knows
<1>8. PICK u \in Known : u = UNKNOWN
  BY <1>3
<1>9. Flows(<< >>, << >>, u)
  <2>1. Mode = "idle"
    BY <1>4 DEF Mode, PAUSED, RUNPIPELINED, RUNUNPIPELINED, RUNSTREAMING
  <2>2. "idle" \in Modes /\ Pending("idle") = << >>
    BY DEF Modes, Pending
  <2>3. << <<>>, u, "idle", Pending("idle"), u >> \in Owed(beri2)
    BY <2>2, OwedStarts, Zenon
  <2>4. << <<>>, u, "idle", << >>, u >> \in Owed(beri2)
    BY <2>2, <2>3
  <2>5. Tokens(beri2, net \o out) = << >>
    BY <1>1, <1>2, TokensLast
  <2>6. u # PAUSED
    BY <1>8 DEF UNKNOWN, PAUSED
  <2> QED BY <1>1, <1>2, <1>8, <2>1, <2>4, <2>5, <2>6 DEF Flows
<1>10. Agrees
  BY <1>2, <1>7, <1>9, Zenon DEF Agrees
<1> QED BY <1>5, <1>6, <1>10 DEF IInv

LEMMA Stutters ==
  ASSUME IInv, UNCHANGED vars
  PROVE  IInv'
<1>1. UNCHANGED <<beri2, ring, open, cmd, prog, handlers, ret, cached, saved, fired, out, net, back,
                  unit, was, sloppy>>
  BY DEF vars, hostVars
<1>2. Types' /\ Shape'
  BY <1>1 DEF IInv, Types, Shape
<1>3. PICK q \in Seq(Nat), k \in BOOLEAN :
        /\ Knows(q, k)
        /\ ~open => q = << >>
        /\ ~sloppy => \E t \in Seq(Nat), u \in Known : Flows(q, t, u)
  BY Zenon DEF IInv, Agrees
<1>4. Knows(q, k)'
  BY <1>1, <1>3 DEF Knows
<1>5. ASSUME ~sloppy' PROVE \E t \in Seq(Nat), u \in Known : Flows(q, t, u)'
  <2>1. PICK t \in Seq(Nat), u \in Known : Flows(q, t, u)
    BY <1>1, <1>3, <1>5
  <2>2. Flows(q, t, u)'
    BY <1>1, <2>1, QuietFlows
  <2> QED BY <2>2
<1> QED BY <1>1, <1>2, <1>3, <1>4, <1>5 DEF IInv, Agrees

LEMMA Inductive == IInv /\ [Next]_vars => IInv'
<1> SUFFICES ASSUME IInv, [Next]_vars PROVE IInv'
  OBVIOUS
<1>1. ASSUME NEW c \in Names, Open(c) PROVE IInv'
  BY <1>1, OpenTypes, SessionShape, OpenAgrees DEF IInv
<1>2. ASSUME NEW c \in Names, NextCommand(c) PROVE IInv'
  BY <1>2, NextCommandTypes, SessionShape, NextCommandAgrees DEF IInv
<1>3. CASE beri_debug_client_close
  BY <1>3, CloseTypes, EndShape, CloseAgrees DEF IInv
<1>4. CASE Kill
  BY <1>4, KillTypes, EndShape, KillAgrees DEF IInv
<1>5. CASE beri_debug_client_packet_write
  BY <1>5, PacketWriteTypes, SentShape, PacketWriteAgrees DEF IInv
<1>6. CASE circular_buffer_flush
  BY <1>6, FlushTypes, HostShape, FlushAgrees DEF IInv
<1>7. CASE beri_debug_client_drain
  BY <1>7, DrainTypes, DrainShape, DrainAgrees DEF IInv
<1>8. CASE ReadStep
  <2>1. Agrees'
    BY <1>8, ReadExceptionAgrees, ReadInvalidAgrees, ReadUnexpectedAgrees, ReadReplyAgrees,
       BreakpointFiredAgrees DEF ReadStep
  <2> QED BY <1>8, <2>1, ReadTypes, HostShape DEF IInv
<1>9. CASE QuietStep
  <2>1. Agrees'
    BY <1>9, needPausedAgrees, usageAgrees, SetPipelineStateAgrees, Beri2PauseAgrees, Beri2ResumeAgrees,
       attemptAgrees, forgetAgrees, breakpoint_checkAgrees DEF QuietStep
  <2> QED BY <1>9, <2>1, QuietTypes, HostShape DEF IInv
<1>10. CASE UnitStep
  <2>1. Types'
    BY <1>10, ServeTypes, OtherUnitTypes DEF UnitStep
  <2>2. Agrees'
    BY <1>10, ServeAgrees, ServeExceptionAgrees, ServeInvalidAgrees, ServeResetAgrees, LoseStepAgrees
    DEF UnitStep
  <2> QED BY <1>10, <2>1, <2>2, UnitShape DEF IInv, UnitSpeaks
<1>11. ASSUME NEW last \in BOOLEAN, StreamEntry(last) PROVE IInv'
  <2>1. \E l \in BOOLEAN : StreamEntry(l)
    BY <1>11
  <2> QED BY <1>11, <2>1, SpokenTypes, StreamEntryAgrees, UnitShape DEF IInv, UnitSpeaks
<1>12. CASE BreakpointFires
  BY <1>12, SpokenTypes, BreakpointFiresAgrees, UnitShape DEF IInv, UnitSpeaks
<1>13. CASE UNCHANGED vars
  BY <1>13, Stutters
<1> QED BY <1>1, <1>2, <1>3, <1>4, <1>5, <1>6, <1>7, <1>8, <1>9, <1>10, <1>11, <1>12, <1>13, Zenon
        DEF Next, HostStep, ReadStep, QuietStep

(* In every reachable state the command goes on well, and the bytes on     *)
(* their way back, with the requests on their way, are the replies that it *)
(* waits for.                                                              *)
THEOREM Invariance == Spec => []IInv
<1>1. IInv /\ [Next]_vars => IInv'
  BY Inductive
<1>2. Init => IInv
  BY InitIInv
<1> QED BY <1>1, <1>2, PTL DEF Spec

-----------------------------------------------------------------------------
(* The variables have their types: the library never saves more than two   *)
(* states of the pipeline (BERI2_PAUSE, BERI2_RESUME), never reads a saved *)
(* state that is none, and has at most as many requests in the out ring as *)
(* fit (beri_debug_client_packet_write).                                   *)
THEOREM TypeCorrect == Spec => []TypeOK
<1>1. ASSUME IInv PROVE TypeOK
  <2>1. Types /\ handlers \in Seq(Frames) /\ Len(saved) \in 0 .. 2
    BY <1>1, Agreeing DEF IInv
  <2>2. /\ beri2 \in BOOLEAN /\ ring \in Rings /\ open \in BOOLEAN /\ cmd \in Names
         /\ ret \in Outcomes /\ cached \in Known /\ saved \in Seq(0 .. 255) /\ fired \in BOOLEAN
         /\ out \in Seq(Reqs(beri2)) /\ Len(out) <= ring /\ net \in Seq(Reqs(beri2))
         /\ back \in Seq(Bytes) /\ was \in UNKNOWN .. RUNSTREAMING /\ sloppy \in BOOLEAN
         /\ unit \in [state : PAUSED .. RUNSTREAMING, breakpoint : BOOLEAN, lost : BOOLEAN]
    BY <2>1, TypesAre
  <2>3. \A i \in DOMAIN handlers : handlers[i].ret \in Outcomes
    <3> TAKE i \in DOMAIN handlers
    <3>1. handlers[i] \in Frames
      BY <2>1, ElementOfSeq
    <3> QED BY <3>1 DEF Frames
  <2>4. Reqs(beri2) \subseteq Request
    BY DEF Reqs, Ops, Request
  <2>5. /\ \A i \in DOMAIN out : out[i] \in Request
        /\ \A i \in DOMAIN net : net[i] \in Request
    <3> DEFINE R == Reqs(beri2)
    <3>1. out \in Seq(R) /\ net \in Seq(R) /\ R \subseteq Request
      BY <2>2, <2>4
    <3> HIDE DEF R
    <3>2. /\ \A i \in DOMAIN out : out[i] \in R
          /\ \A i \in DOMAIN net : net[i] \in R
      BY <3>1, ElementOfSeq
    <3> QED BY <3>1, <3>2
  <2>6. \A i \in DOMAIN back : back[i] \in 0 .. 255
    <3>1. back \in Seq(Bytes)
      BY <2>2
    <3>2. \A i \in DOMAIN back : back[i] \in Bytes
      BY <3>1, ElementOfSeq
    <3> QED BY <3>2 DEF Bytes
  <2>7. Len(saved) <= 2
    <3>1. \A n \in 0 .. 2 : n <= 2
      OBVIOUS
    <3> QED BY <2>1, <3>1
  <2> QED BY <2>2, <2>3, <2>5, <2>6, <2>7 DEF TypeOK, Known
<1> QED BY <1>1, Invariance, PTL

(* packet_read waits for a reply and does not compare its op.  Whatever    *)
(* the command, the sizes of the rings and the order in which the unit and *)
(* the host take their turns, the packet it finds is the reply to the      *)
(* request it waits for, the refusal of that request, or a report.         *)
THEOREM RepliesMatch == Spec => []ReplyIsOfCommand
<1>1. ASSUME IInv PROVE ReplyIsOfCommand
  <2> SUFFICES ASSUME Reading, ~sloppy, back # << >>
               PROVE  LET s == Head(prog) IN
                      \/ back[1] = breakpointFiredOp
                      \/ s.do # "wait" /\ back[1] = ReplyOp(s.op)
                      \/ s.do = "popTrace" /\ ~beri2 /\ back[1] = StreamEnd
                      \/ s.op \in MayExcept /\ back[1] = exceptionOp
                      \/ s.op \in Unknown /\ back[1] = invalidOp
                      \/ s.do = "popTrace" /\ ~beri2 /\ STREAM_TRACE_START \in Unknown /\ back[1] = invalidOp
    BY DEF ReplyIsOfCommand
  <2>1. PICK q \in Seq(Nat), k \in BOOLEAN :
          /\ Knows(q, k) /\ NextFits(q, k)
          /\ ~sloppy => \E t \in Seq(Nat), u \in Known : Flows(q, t, u)
    BY <1>1, Agreeing, Zenon
  <2>2. PICK t \in Seq(Nat), u \in Known : Flows(q, t, u)
    BY <2>1
  <2>3. Types /\ prog \in Seq(Steps)
    BY <1>1, Agreeing DEF IInv
  <2>4. PICK n \in Nat, x1 \in Seq(Bytes), c1 \in Known, t1 \in Seq(Nat), q1 \in Seq(Nat) :
           /\ n >= 2 /\ Len(back) >= n /\ Forget(n) = x1
           /\ q1 = t1 \o Tokens(beri2, net \o out)
           /\ <<x1, c1, Mode, t1, u>> \in Owed(beri2)
           /\ \/ ReportSeen(n, c1, t, t1, q, q1) \/ ReplySeen(n, c1, q, q1)
              \/ ExceptionSeen(n, c1, q1) \/ InvalidSeen
              \/ EntrySeen(n, c1, t, t1, q, q1) \/ EndSeen(n, c1, q1)
    BY <2>1, <2>2, <2>3, ReadPacket, Zenon
  <2>5. beri2 => invalidOp = exceptionOp
    BY DEF invalidOp
  <2> QED BY <2>4, <2>5 DEF ReportSeen, ReplySeen, ExceptionSeen, InvalidSeen, EntrySeen, EndSeen, StepReads
<1> QED BY <1>1, Invariance, PTL

(* Every reply is read before its session ends (beri_debug_client_close),  *)
(* also when the command failed: nothing is left that the next session     *)
(* could take for the reply to a request of its own.                       *)
THEOREM SessionsEndClean == Spec => []NothingLeftBehind
<1>1. ASSUME IInv PROVE NothingLeftBehind
  <2> SUFFICES ASSUME ~open, ~sloppy PROVE Quiet
    BY DEF NothingLeftBehind
  <2>1. PICK t \in Seq(Nat), u \in Known : Flows(<< >>, t, u)
    BY <1>1 DEF IInv, Agrees
  <2>2. Types /\ beri2 \in BOOLEAN
    BY <1>1 DEF IInv, Types
  <2>3. Tokens(beri2, net) = << >> /\ Mode = "idle" /\ ReportsOnly(beri2, back)
    BY <2>1, <2>2, NothingOwed
  <2>4. OnlyReports(back)
    BY <2>2, <2>3, OnlyReportsIs
  <2>5. ~Busy
    BY <2>3 DEF Mode, Busy
  <2>6. \A i \in DOMAIN net : net[i].op = RESET
    <3> TAKE i \in DOMAIN net
    <3>1. net \in Seq(Reqs(beri2)) /\ i \in 1 .. Len(net)
      <4>1. net \in Seq(Reqs(beri2))
        BY <2>2, TypesAre
      <4> DEFINE R == Reqs(beri2)
      <4>2. net \in Seq(R)
        BY <4>1
      <4> HIDE DEF R
      <4>3. DOMAIN net = 1 .. Len(net)
        BY <4>2, LenProperties
      <4> QED BY <4>1, <4>3
    <3>2. net[i] \in Reqs(beri2) /\ Owes(beri2, net[i].op) \in Seq(Nat)
      BY <2>2, <3>1, TokensHas
    <3>3. PICK v, w \in Seq(Nat) : Tokens(beri2, net) = v \o (Owes(beri2, net[i].op) \o w)
      BY <2>2, <3>1, TokensHas
    <3> DEFINE o == Owes(beri2, net[i].op)
    <3>4. o \in Seq(Nat) /\ v \o (o \o w) = << >>
      BY <2>3, <3>2, <3>3
    <3> HIDE DEF o
    <3>5. o \o w \in Seq(Nat)
      BY <3>4, ConcatProperties
    <3>6. o \o w = << >>
      BY <3>4, <3>5, ConcatEqualIffEmpty
    <3>7. o = << >>
      BY <3>4, <3>6, ConcatEqualIffEmpty
    <3>8. net[i].op \in Ops(beri2)
      BY <3>2 DEF Reqs
    <3> QED BY <2>2, <3>7, <3>8, OwesNothing DEF o
  <2> QED BY <2>4, <2>5, <2>6 DEF Quiet
<1> QED BY <1>1, Invariance, PTL

(* Where an operation of a BERI2 relies on the pipeline being paused       *)
(* (bd_pipeline_state), the pipeline is paused, and no request is under    *)
(* way that would let it run: nobody but the session changes it, and a     *)
(* breakpoint only pauses it.                                              *)
THEOREM PausedIsPaused == Spec => []PausedWhenAssumed
<1>1. ASSUME IInv PROVE PausedWhenAssumed
  <2> SUFFICES ASSUME At("needPaused"), cached = PAUSED, ~sloppy
               PROVE  unit.state = PAUSED /\ \A i \in DOMAIN net : net[i].op \notin SetsState
    BY DEF PausedWhenAssumed
  <2>1. open /\ prog # << >> /\ Head(prog).do = "needPaused"
    BY DEF At
  <2>2. PICK q \in Seq(Nat), k \in BOOLEAN :
              /\ StepFits(beri2, cmd, Good(beri2, cmd), q, k, Len(saved), handlers,
                          Head(prog), Tail(prog), prog)
              /\ ~sloppy => \E t \in Seq(Nat), u \in Known : Flows(q, t, u)
    BY <1>1, <2>1, StepIs, Zenon
  <2>3. PICK t \in Seq(Nat), u \in Known : Flows(q, t, u)
    BY <2>2
  <2> DEFINE Z == SetOps \cup {RESUMESTREAMING, Streamed}
             m == Tokens(beri2, net)
             o == Tokens(beri2, out)
  <2>4. beri2 = TRUE /\ \A i \in 1 .. Len(q) : q[i] \notin Z
    <3>1. NeedPausedFits(beri2, Good(beri2, cmd), q, k, Len(saved), handlers, Head(prog), Tail(prog))
      BY <2>1, <2>2 DEF StepFits
    <3>2. beri2 \in BOOLEAN
      BY <1>1 DEF IInv, Types
    <3> QED BY <3>1, <3>2 DEF NeedPausedFits
  <2>5. /\ Types /\ beri2 \in BOOLEAN /\ net \in Seq(Reqs(beri2)) /\ out \in Seq(Reqs(beri2))
        /\ (unit.lost => ~beri2)
    BY <1>1 DEF IInv, Types, Shape
  <2>6. m \in Seq(Nat) /\ o \in Seq(Nat) /\ q = t \o (m \o o)
    BY <2>3, <2>5, TokensLast, TokensConcat DEF Flows
  <2> HIDE DEF Z, m, o
  <2>7. m \o o \in Seq(Nat)
    BY <2>6, ConcatProperties
  <2>8. /\ \A i \in 1 .. Len(t) : t[i] \notin Z
        /\ \A i \in 1 .. Len(m \o o) : (m \o o)[i] \notin Z
    BY <2>4, <2>6, <2>7, PartsAvoid
  <2>9. \A i \in 1 .. Len(m) : m[i] \notin Z
    BY <2>6, <2>8, PartsAvoid
  <2>10. unit.state = PAUSED
    <3>1. <<back, cached, Mode, t, u>> \in Owed(beri2) /\ (u = PAUSED => unit.state \in {PAUSED, RUNSTREAMING})
      BY <2>3, <2>4 DEF Flows
    <3>2. OwedSays(beri2, back, cached, Mode, t, u)
      BY <2>5, <3>1, OwedFacts
    <3>3. Mode # "streaming" /\ u = cached
      BY <2>8, <3>2 DEF OwedSays, Z
    <3>4. Mode # "lost"
      BY <2>4, <2>5 DEF Mode
    <3> QED BY <3>1, <3>3, <3>4 DEF Mode
  <2>11. ASSUME NEW i \in DOMAIN net PROVE net[i].op \notin SetsState
    <3> DEFINE R == Reqs(beri2)
    <3>1. net \in Seq(R)
      BY <2>5
    <3> HIDE DEF R
    <3>2. i \in 1 .. Len(net)
      BY <3>1, LenProperties
    <3>3. net[i] \in Reqs(beri2) /\ Owes(beri2, net[i].op) \in Seq(Nat)
      BY <2>5, <3>2, TokensHas
    <3>4. PICK v, w \in Seq(Nat) : m = v \o (Owes(beri2, net[i].op) \o w)
      BY <2>5, <3>2, TokensHas DEF m
    <3> DEFINE y == Owes(beri2, net[i].op)
    <3>5. y \in Seq(Nat) /\ m = v \o (y \o w)
      BY <3>3, <3>4
    <3> HIDE DEF y
    <3>6. y \o w \in Seq(Nat)
      BY <3>5, ConcatProperties
    <3>7. \A j \in 1 .. Len(y \o w) : (y \o w)[j] \notin Z
      BY <2>9, <3>5, <3>6, PartsAvoid
    <3>8. \A j \in 1 .. Len(y) : y[j] \notin Z
      BY <3>5, <3>7, PartsAvoid
    <3> SUFFICES ASSUME net[i].op \in SetsState PROVE FALSE
      OBVIOUS
    <3>9. net[i].op \in Z /\ net[i].op # RESET
      BY <2>4 DEF SetsState, Z, SetOps, RESET, PAUSEPIPELINE, RESUMEPIPELINE, RESUMEUNPIPELINED, RESUMESTREAMING
    <3>10. 1 \in 1 .. Len(y) /\ y[1] = net[i].op
      BY <2>4, <3>9 DEF y, Owes
    <3> QED BY <3>8, <3>9, <3>10
  <2> QED BY <2>10, <2>11
<1> QED BY <1>1, Invariance, PTL

-----------------------------------------------------------------------------
(* The places on the way to a state.                                       *)

(* A place on the way into a set is on the way into a larger one.          *)
LEMMA AimsMonotone ==
  ASSUME NEW w, NEW X, NEW Y, X \subseteq Y, NEW o, NEW st, NEW c, NEW sv, NEW hs, NEW p, NEW r,
         Aims(w, X, o, st, c, sv, hs, p, r)
  PROVE  Aims(w, Y, o, st, c, sv, hs, p, r)
<1>1. ASSUME NEW s, NEW t, Goes(X, st, c, sv, hs, s, t, p, r)
      PROVE  Goes(Y, st, c, sv, hs, s, t, p, r)
  BY <1>1 DEF Goes
<1>2. ASSUME NEW s, NEW t, Learns(X, o, st, sv, hs, s, t, r)
      PROVE  Learns(Y, o, st, sv, hs, s, t, r)
  BY <1>2, Zenon DEF Learns
<1> QED BY <1>1, <1>2, Zenon DEF Aims

(* The parts of a place.                                                   *)
LEMMA PlaceIs ==
  ASSUME NEW o, NEW st, NEW c, NEW sv, NEW hs, NEW p, NEW r
  PROVE  LET z == Place(o, st, c, sv, hs, p, r) IN
         /\ z[1][1] = o /\ z[1][2] = st /\ z[1][3] = c
         /\ z[2][1] = sv /\ z[2][2] = hs /\ z[2][3] = p /\ z[2][4] = r
         /\ z \in Places <=> /\ o \in Known /\ st \in States /\ c \in Known /\ sv \in Seq(0 .. 255)
                             /\ hs \in Seq(Frames) /\ p \in Seq(Steps) /\ r \in Outcomes
BY DEF Place, Places

(* A place on the way to w goes on to one on the way to w.                 *)
LEMMA WayIs ==
  ASSUME NEW w, NEW o, NEW st, NEW c, NEW sv, NEW hs, NEW p, NEW r,
         Place(o, st, c, sv, hs, p, r) \in Way(w)
  PROVE  /\ Place(o, st, c, sv, hs, p, r) \in Places
         /\ Aims(w, Way(w), o, st, c, sv, hs, p, r)
<1> DEFINE z == Place(o, st, c, sv, hs, p, r)
<1>1. PICK X \in SUBSET Places : z \in X /\ AllAim(w, X)
  BY Zenon DEF Way
<1>2. X \subseteq Way(w)
  BY <1>1, Zenon DEF Way
<1>3. /\ z[1][1] = o /\ z[1][2] = st /\ z[1][3] = c
      /\ z[2][1] = sv /\ z[2][2] = hs /\ z[2][3] = p /\ z[2][4] = r
  BY PlaceIs
<1> HIDE DEF z
<1>4. Aims(w, X, z[1][1], z[1][2], z[1][3], z[2][1], z[2][2], z[2][3], z[2][4])
  BY <1>1, Zenon DEF AllAim
<1>5. Aims(w, X, o, st, c, sv, hs, p, r)
  BY <1>3, <1>4, Zenon
<1>6. z \in Places
  BY <1>1
<1> QED BY <1>2, <1>5, <1>6, AimsMonotone, Zenon DEF z

(* And one that goes on to such a place is on the way itself.              *)
LEMMA WayFolds ==
  ASSUME NEW w, NEW o \in Known, NEW st \in States, NEW c \in Known, NEW sv \in Seq(0 .. 255),
         NEW hs \in Seq(Frames), NEW p \in Seq(Steps), NEW r \in Outcomes,
         Aims(w, Way(w), o, st, c, sv, hs, p, r)
  PROVE  Place(o, st, c, sv, hs, p, r) \in Way(w)
<1> DEFINE z == Place(o, st, c, sv, hs, p, r)
           X == Way(w) \cup {z}
<1>1. /\ z[1][1] = o /\ z[1][2] = st /\ z[1][3] = c
      /\ z[2][1] = sv /\ z[2][2] = hs /\ z[2][3] = p /\ z[2][4] = r
      /\ z \in Places
  BY PlaceIs
<1> HIDE DEF z
<1>2. Way(w) \in SUBSET Places
  BY Zenon DEF Way
<1>3. X \in SUBSET Places /\ Way(w) \subseteq X /\ z \in X
  BY <1>1, <1>2
<1>4. Aims(w, X, z[1][1], z[1][2], z[1][3], z[2][1], z[2][2], z[2][3], z[2][4])
  <2> HIDE DEF X
  <2>1. Aims(w, X, o, st, c, sv, hs, p, r)
    BY <1>3, AimsMonotone, Zenon
  <2> QED BY <1>1, <2>1, Zenon
<1>5. ASSUME NEW v \in Way(w)
      PROVE  Aims(w, X, v[1][1], v[1][2], v[1][3], v[2][1], v[2][2], v[2][3], v[2][4])
  <2> HIDE DEF X
  <2>1. PICK Y \in SUBSET Places : v \in Y /\ AllAim(w, Y)
    BY Zenon DEF Way
  <2>2. Y \subseteq X
    BY <1>3, <2>1, Zenon DEF Way
  <2>3. Aims(w, Y, v[1][1], v[1][2], v[1][3], v[2][1], v[2][2], v[2][3], v[2][4])
    BY <2>1, Zenon DEF AllAim
  <2> QED BY <2>2, <2>3, AimsMonotone, Zenon
<1>6. AllAim(w, X)
  BY <1>4, <1>5, Zenon DEF AllAim
<1> HIDE DEF X
<1>7. z \in Way(w)
  BY <1>3, <1>6, Zenon DEF Way
<1> QED BY <1>7 DEF z

(* An element put in front.                                                *)
LEMMA Pushed ==
  ASSUME NEW S, NEW x \in S, NEW s \in Seq(S)
  PROVE  LET y == <<x>> \o s IN
         y \in Seq(S) /\ y # << >> /\ Len(y) = Len(s) + 1 /\ y[1] = x /\ Head(y) = x /\ Tail(y) = s
<1> DEFINE y == <<x>> \o s
<1>1. <<x>> \in Seq(S) /\ Len(<<x>>) = 1 /\ <<x>>[1] = x
  OBVIOUS
<1>2. /\ y \in Seq(S) /\ Len(y) = 1 + Len(s) /\ Len(s) \in Nat
      /\ \A i \in 1 .. 1 + Len(s) : y[i] = IF i <= 1 THEN <<x>>[i] ELSE s[i - 1]
  BY <1>1, ConcatProperties, LenProperties
<1> HIDE DEF y
<1>3. y # << >> /\ y[1] = x /\ Len(y) = Len(s) + 1
  BY <1>1, <1>2
<1>4. /\ Tail(y) \in Seq(S) /\ Len(Tail(y)) = Len(s)
      /\ \A i \in 1 .. Len(s) : Tail(y)[i] = s[i]
  <2>1. /\ Tail(y) \in Seq(S) /\ Len(Tail(y)) = Len(y) - 1
        /\ \A i \in 1 .. Len(Tail(y)) : Tail(y)[i] = y[i + 1]
    BY <1>2, <1>3, HeadTailProperties
  <2> QED BY <1>2, <2>1
<1>5. Tail(y) = s
  BY <1>4, SeqEqual
<1> QED BY <1>2, <1>3, <1>5 DEF y

(* The states that are saved and restored.                                 *)
LEMMA StateFacts ==
  /\ UNKNOWN \in Known /\ States \subseteq Known /\ UNKNOWN \notin States /\ States \subseteq 0 .. 255
  /\ PAUSED \in States /\ PAUSED = 0 /\ States = {0, 1, 2}
BY DEF Known, States, UNKNOWN, PAUSED, RUNPIPELINED, RUNUNPIPELINED

(* What to show of a place when no change of the state is under way.       *)
LEMMA StepAims ==
  ASSUME NEW w, NEW st \in States, NEW c \in Known, NEW sv \in Seq(0 .. 255),
         NEW hs \in Seq(Frames), NEW p \in Seq(Steps), NEW r \in Outcomes,
         NEW what \in Kinds, NEW op \in Int, NEW arg \in Int,
         Goes(Way(w), st, c, sv, hs, [do |-> what, op |-> op, arg |-> arg], p,
              Step(what, op, arg) \o p, r)
  PROVE  Place(UNKNOWN, st, c, sv, hs, Step(what, op, arg) \o p, r) \in Way(w)
<1> DEFINE x == Step(what, op, arg) \o p
<1>1. /\ x \in Seq(Steps) /\ x # << >> /\ Tail(x) = p
      /\ Head(x) = [do |-> what, op |-> op, arg |-> arg]
  BY FirstStep
<1> HIDE DEF x
<1>2. Goes(Way(w), st, c, sv, hs, Head(x), Tail(x), x, r)
  BY <1>1 DEF x
<1>3. Aims(w, Way(w), UNKNOWN, st, c, sv, hs, x, r)
  BY <1>1, <1>2, Zenon DEF Aims
<1>4. Place(UNKNOWN, st, c, sv, hs, x, r) \in Way(w)
  BY <1>1, <1>3, StateFacts, WayFolds, Zenon
<1> QED BY <1>4 DEF x

(* And when the reply to one is waited for.                                *)
LEMMA AnswerAims ==
  ASSUME NEW w, NEW o \in States, NEW st \in States, NEW c \in Known, NEW sv \in Seq(0 .. 255),
         NEW hs \in Seq(Frames), NEW p \in Seq(Steps), NEW r \in Outcomes,
         NEW what \in Kinds, NEW op \in Int, NEW arg \in Int,
         Learns(Way(w), o, st, sv, hs, [do |-> what, op |-> op, arg |-> arg], p, r)
  PROVE  Place(o, st, c, sv, hs, Step(what, op, arg) \o p, r) \in Way(w)
<1> DEFINE x == Step(what, op, arg) \o p
<1>1. /\ x \in Seq(Steps) /\ x # << >> /\ Tail(x) = p
      /\ Head(x) = [do |-> what, op |-> op, arg |-> arg]
  BY FirstStep
<1> HIDE DEF x
<1>2. Learns(Way(w), o, st, sv, hs, Head(x), Tail(x), r)
  BY <1>1
<1>3. o \in Known /\ o # UNKNOWN
  BY StateFacts
<1>4. Aims(w, Way(w), o, st, c, sv, hs, x, r)
  BY <1>1, <1>2, <1>3, Zenon DEF Aims
<1>5. Place(o, st, c, sv, hs, x, r) \in Way(w)
  BY <1>1, <1>3, <1>4, WayFolds, Zenon
<1> QED BY <1>5 DEF x

(* A command that failed, or has its state back, is at its end.            *)
LEMMA EndAims ==
  ASSUME NEW w, NEW st \in States, NEW c \in Known, NEW sv \in Seq(0 .. 255),
         NEW hs \in Seq(Frames), NEW r \in Outcomes, r = "SUCCESS" => st = w
  PROVE  Place(UNKNOWN, st, c, sv, hs, << >>, r) \in Way(w)
<1>1. << >> \in Seq(Steps)
  BY EmptySeq
<1>2. Aims(w, Way(w), UNKNOWN, st, c, sv, hs, << >>, r)
  BY DEF Aims
<1> QED BY <1>1, <1>2, StateFacts, WayFolds, ZenonT(60)

(* The failures after which a session goes on, or its command ends.        *)
Errors == {"EXCEPTION", "NOTPAUSED", "USAGE_ERROR"}
FailuresAim(w, st, c, hs) == \A e \in Errors : FailedAt(e, st, c, hs) \in Way(w)

(* Without a caller that goes on, a failure ends the command.              *)
LEMMA FailureEnds ==
  ASSUME NEW w, NEW st \in States, NEW c \in Known
  PROVE  FailuresAim(w, st, c, << >>)
<1> SUFFICES ASSUME NEW e \in Errors PROVE Place(UNKNOWN, st, c, << >>, << >>, << >>, e) \in Way(w)
  BY DEF FailuresAim, FailedAt
<1>1. << >> \in Seq(0 .. 255) /\ << >> \in Seq(Frames)
  BY EmptySeq
<1>2. e \in Outcomes /\ e # "SUCCESS"
  BY DEF Errors, Outcomes
<1> QED BY <1>1, <1>2, EndAims

-----------------------------------------------------------------------------
(* Steps that a paused pipeline stays paused during.                       *)
Stays(w, sv, hs, p, r) == Place(UNKNOWN, PAUSED, PAUSED, sv, hs, p, r) \in Way(w)

Steady(w, s) ==
  /\ s \in Seq(Steps)
  /\ \A sv \in Seq(0 .. 255), hs \in Seq(Frames), p \in Seq(Steps), r \in Outcomes :
       Stays(w, sv, hs, p, r) /\ FailuresAim(w, PAUSED, PAUSED, hs) => Stays(w, sv, hs, s \o p, r)

(* No step, two parts, and a part that is repeated.                        *)
LEMMA SteadyNothing == ASSUME NEW w PROVE Steady(w, << >>)
BY ConcatEmptySeq, EmptySeq DEF Steady

LEMMA SteadyJoined ==
  ASSUME NEW w, NEW s, NEW t, Steady(w, s), Steady(w, t)
  PROVE  Steady(w, s \o t)
<1>1. s \in Seq(Steps) /\ t \in Seq(Steps)
  BY DEF Steady
<1>2. s \o t \in Seq(Steps)
  BY <1>1, ConcatProperties
<1>3. ASSUME NEW sv \in Seq(0 .. 255), NEW hs \in Seq(Frames), NEW p \in Seq(Steps), NEW r \in Outcomes,
             Stays(w, sv, hs, p, r), FailuresAim(w, PAUSED, PAUSED, hs)
      PROVE  Stays(w, sv, hs, (s \o t) \o p, r)
  <2>1. Stays(w, sv, hs, t \o p, r)
    BY <1>3 DEF Steady
  <2>2. t \o p \in Seq(Steps)
    BY <1>1, ConcatProperties
  <2>3. Stays(w, sv, hs, s \o (t \o p), r)
    BY <1>3, <2>1, <2>2 DEF Steady
  <2>4. (s \o t) \o p = s \o (t \o p)
    BY <1>1, StepsRegroup, Zenon
  <2> QED BY <2>3, <2>4
<1> QED BY <1>2, <1>3 DEF Steady

LEMMA SteadyRepeats ==
  ASSUME NEW w, NEW s, Steady(w, s)
  PROVE  \A n \in Nat : Steady(w, Times(n, s))
<1>1. s \in Seq(Steps)
  BY DEF Steady
<1> DEFINE T == {n \in Nat : Steady(w, Times(n, s))}
<1>2. \A n \in Nat : Times(n + 1, s) = Times(n, s) \o s /\ Times(0, s) = << >>
  BY <1>1, RepeatedLast, Zenon DEF Times, Repeated
<1>3. 0 \in T
  BY <1>2, SteadyNothing
<1>4. ASSUME NEW n \in Nat, n \in T PROVE n + 1 \in T
  <2>1. Steady(w, Times(n, s))
    BY <1>4
  <2>2. Steady(w, Times(n, s) \o s)
    BY <2>1, SteadyJoined
  <2>3. Times(n + 1, s) = Times(n, s) \o s
    BY <1>2
  <2>4. Steady(w, Times(n + 1, s))
    BY <2>2, <2>3, Zenon
  <2>5. n + 1 \in Nat
    OBVIOUS
  <2> QED BY <2>4, <2>5, Zenon
<1> HIDE DEF T
<1>5. \A n \in Nat : n \in T
  BY <1>3, <1>4, InductiveSet
<1> QED BY <1>5 DEF T

(* A single step, when what it leads to is on the way.                     *)
LEMMA SteadyStep ==
  ASSUME NEW w, NEW what \in Kinds, NEW op \in Int, NEW arg \in Int,
         \A sv \in Seq(0 .. 255), hs \in Seq(Frames), p \in Seq(Steps), r \in Outcomes :
           Stays(w, sv, hs, p, r) /\ FailuresAim(w, PAUSED, PAUSED, hs)
             => Goes(Way(w), PAUSED, PAUSED, sv, hs, [do |-> what, op |-> op, arg |-> arg], p,
                     Step(what, op, arg) \o p, r)
  PROVE  Steady(w, Step(what, op, arg))
<1>1. Step(what, op, arg) \in Seq(Steps)
  BY FirstStep, EmptySeq
<1>2. PAUSED \in States /\ PAUSED \in Known
  BY StateFacts
<1> SUFFICES ASSUME NEW sv \in Seq(0 .. 255), NEW hs \in Seq(Frames), NEW p \in Seq(Steps),
                    NEW r \in Outcomes, Stays(w, sv, hs, p, r), FailuresAim(w, PAUSED, PAUSED, hs)
             PROVE  Place(UNKNOWN, PAUSED, PAUSED, sv, hs, Step(what, op, arg) \o p, r) \in Way(w)
  BY <1>1, Zenon DEF Steady, Stays
<1>3. Goes(Way(w), PAUSED, PAUSED, sv, hs, [do |-> what, op |-> op, arg |-> arg], p,
           Step(what, op, arg) \o p, r)
  OBVIOUS
<1> QED BY <1>2, <1>3, StepAims, Zenon

(* Ops that are no change of the state.                                    *)
Stills == Int \ (SetOps \cup {RESUMESTREAMING})

(* Requests, replies and checks that have nothing to do with the state.    *)
LEMMA SteadySteps ==
  ASSUME NEW w, NEW op \in Stills, NEW arg \in Int
  PROVE  /\ Steady(w, Step("write", op, arg)) /\ Steady(w, Read(op, arg))
         /\ Steady(w, NeedPaused) /\ Steady(w, Usage) /\ Steady(w, set_pipeline_state(PAUSED))
<1>1. /\ op \in Int /\ 0 \in Int /\ PAUSED \in Int /\ op \notin SetOps \cup {RESUMESTREAMING}
      /\ {"write", "read", "needPaused", "usage", "set"} \subseteq Kinds
      /\ {"EXCEPTION", "USAGE_ERROR"} \subseteq Errors
  BY StateFacts DEF Stills, Kinds, Errors
<1> SUFFICES /\ Steady(w, Step("write", op, arg)) /\ Steady(w, Step("read", op, arg))
             /\ Steady(w, Step("needPaused", 0, 0)) /\ Steady(w, Step("usage", 0, 0))
             /\ Steady(w, Step("set", PAUSED, 0))
  BY DEF Read, NeedPaused, Usage, set_pipeline_state
<1>2. ASSUME NEW sv \in Seq(0 .. 255), NEW hs \in Seq(Frames), NEW p \in Seq(Steps), NEW r \in Outcomes,
             Stays(w, sv, hs, p, r), FailuresAim(w, PAUSED, PAUSED, hs), NEW q
      PROVE  /\ Goes(Way(w), PAUSED, PAUSED, sv, hs, [do |-> "write", op |-> op, arg |-> arg], p, q, r)
             /\ Goes(Way(w), PAUSED, PAUSED, sv, hs, [do |-> "read", op |-> op, arg |-> arg], p, q, r)
             /\ Goes(Way(w), PAUSED, PAUSED, sv, hs, [do |-> "needPaused", op |-> 0, arg |-> 0], p, q, r)
             /\ Goes(Way(w), PAUSED, PAUSED, sv, hs, [do |-> "usage", op |-> 0, arg |-> 0], p, q, r)
             /\ Goes(Way(w), PAUSED, PAUSED, sv, hs, [do |-> "set", op |-> PAUSED, arg |-> 0], p, q, r)
  <2>1. << >> \o p = p
    BY ConcatEmptySeq
  <2>2. /\ Place(UNKNOWN, PAUSED, PAUSED, sv, hs, p, r) \in Way(w)
        /\ FailedAt("EXCEPTION", PAUSED, PAUSED, hs) \in Way(w)
        /\ FailedAt("USAGE_ERROR", PAUSED, PAUSED, hs) \in Way(w)
    BY <1>1, <1>2 DEF Stays, FailuresAim
  <2> QED BY <1>1, <2>1, <2>2 DEF Goes
<1>3. Steady(w, Step("write", op, arg)) /\ Steady(w, Step("read", op, arg))
  BY <1>1, <1>2, SteadyStep, ZenonT(60)
<1>4. Steady(w, Step("needPaused", 0, 0)) /\ Steady(w, Step("usage", 0, 0))
      /\ Steady(w, Step("set", PAUSED, 0))
  BY <1>1, <1>2, SteadyStep, ZenonT(60)
<1> QED BY <1>3, <1>4

(* A state saved and restored, when it was paused already.                 *)
LEMMA SteadyPaused ==
  ASSUME NEW w, NEW s, Steady(w, s)
  PROVE  Steady(w, Paused(s))
<1>1. s \in Seq(Steps)
  BY DEF Steady
<1>2. /\ 0 \in Int /\ PAUSED \in Int /\ PAUSED \in States /\ PAUSED \in Known
      /\ "pause" \in Kinds /\ "restore" \in Kinds
  BY StateFacts DEF Kinds
<1> DEFINE b == Step("pause", PAUSED, 0)
           e == Step("restore", 0, 0)
<1>3. b \in Seq(Steps) /\ e \in Seq(Steps)
  BY <1>2, FirstStep, EmptySeq, Zenon
<1>4. Paused(s) = (b \o s) \o e
  BY DEF Paused, BERI2_PAUSE, BERI2_RESUME
<1>5. b \o s \in Seq(Steps) /\ (b \o s) \o e \in Seq(Steps)
  <2>1. b \o s \in Seq(Steps)
    BY <1>1, <1>3, ConcatProperties
  <2> QED BY <1>3, <2>1, ConcatProperties
<1>6. ASSUME NEW sv \in Seq(0 .. 255), NEW hs \in Seq(Frames), NEW p \in Seq(Steps), NEW r \in Outcomes,
             Stays(w, sv, hs, p, r), FailuresAim(w, PAUSED, PAUSED, hs)
      PROVE  Stays(w, sv, hs, ((b \o s) \o e) \o p, r)
  <2> DEFINE y == <<PAUSED>> \o sv
  <2>1. y \in Seq(0 .. 255) /\ Head(y) = PAUSED /\ Tail(y) = sv
    <3>1. PAUSED \in 0 .. 255
      BY StateFacts
    <3> QED BY <3>1, Pushed
  <2> HIDE DEF y
  <2>2. e \o p \in Seq(Steps) /\ s \o (e \o p) \in Seq(Steps)
    <3>1. e \o p \in Seq(Steps)
      BY <1>3, ConcatProperties
    <3> QED BY <1>1, <3>1, ConcatProperties
  <2>3. Stays(w, y, hs, e \o p, r)
    <3>1. SetAgain(Head(y)) \o p = p
      <4>1. SetAgain(Head(y)) = << >>
        BY <2>1 DEF SetAgain, PAUSED, RUNPIPELINED, RUNUNPIPELINED
      <4> QED BY <4>1, ConcatEmptySeq
    <3>2. Goes(Way(w), PAUSED, PAUSED, y, hs, [do |-> "restore", op |-> 0, arg |-> 0], p, e \o p, r)
      BY <1>6, <2>1, <3>1 DEF Goes, Stays
    <3> QED BY <1>2, <2>1, <3>2, StepAims, Zenon DEF Stays
  <2>4. Stays(w, y, hs, s \o (e \o p), r)
    BY <1>6, <2>1, <2>2, <2>3, Zenon DEF Steady
  <2>5. Stays(w, sv, hs, b \o (s \o (e \o p)), r)
    <3>1. Goes(Way(w), PAUSED, PAUSED, sv, hs, [do |-> "pause", op |-> PAUSED, arg |-> 0],
               s \o (e \o p), b \o (s \o (e \o p)), r)
      BY <2>4 DEF Goes, Stays, y
    <3> QED BY <1>2, <2>2, <3>1, StepAims, Zenon DEF Stays
  <2>6. ((b \o s) \o e) \o p = b \o (s \o (e \o p))
    <3>1. ((b \o s) \o e) \o p = (b \o s) \o (e \o p)
      BY <1>3, <1>5, StepsRegroup, ZenonT(60)
    <3>2. (b \o s) \o (e \o p) = b \o (s \o (e \o p))
      BY <1>1, <1>3, <2>2, StepsRegroup, ZenonT(60)
    <3> QED BY <3>1, <3>2
  <2> QED BY <2>5, <2>6
<1> QED BY <1>4, <1>5, <1>6 DEF Steady

(* A sequence of one element.                                              *)
LEMMA OneElement ==
  ASSUME NEW S, NEW x \in S
  PROVE  /\ <<x>> \in Seq(S) /\ << >> \in Seq(S) /\ <<x>> # << >> /\ <<x>> \o << >> = <<x>>
         /\ <<x>>[1] = x /\ Head(<<x>>) = x /\ Tail(<<x>>) = << >>
<1>1. << >> \in Seq(S) /\ <<x>> \in Seq(S) /\ <<x>>[1] = x
  BY EmptySeq
<1>2. <<x>> \o << >> = <<x>>
  BY <1>1, ConcatEmptySeq
<1>3. <<x>> # << >> /\ Head(<<x>>) = x /\ Tail(<<x>>) = << >>
  BY <1>1, <1>2, Pushed
<1> QED BY <1>1, <1>2, <1>3

(* A failed attempt goes on after the steps that were attempted.           *)
LEMMA AttemptIs ==
  ASSUME NEW s \in Seq(Steps), NEW e \in Seq(Steps), NEW p \in Seq(Steps)
  PROVE  LET t == Step("try", Len(s), 0) IN
         /\ Attempt(s, e) \in Seq(Steps) /\ e \o p \in Seq(Steps) /\ s \o (e \o p) \in Seq(Steps)
         /\ Attempt(s, e) \o p = t \o (s \o (e \o p))
         /\ SubSeq(t \o (s \o (e \o p)), Len(s) + 2, Len(t \o (s \o (e \o p)))) = e \o p
<1> DEFINE t == Step("try", Len(s), 0)
<1>1. Attempt(s, e) = (t \o s) \o e
  BY DEF Attempt
<1>2. Len(s) \in Nat /\ t \in Seq(Steps) /\ Len(t) = 1
  <2>1. Len(s) \in Nat /\ Len(s) \in Int /\ 0 \in Int /\ "try" \in Kinds
    BY LenProperties DEF Kinds
  <2> QED BY <2>1, FirstStep, EmptySeq
<1> HIDE DEF t
<1>3. t \o s \in Seq(Steps) /\ Len(t \o s) = Len(s) + 1
  <2>1. t \o s \in Seq(Steps) /\ Len(t \o s) = Len(t) + Len(s)
    BY <1>2, ConcatProperties
  <2> QED BY <1>2, <2>1
<1>4. e \o p \in Seq(Steps) /\ s \o (e \o p) \in Seq(Steps) /\ (t \o s) \o e \in Seq(Steps)
  BY <1>3, ConcatProperties
<1>5. ((t \o s) \o e) \o p = (t \o s) \o (e \o p) /\ (t \o s) \o (e \o p) = t \o (s \o (e \o p))
  <2>1. ((t \o s) \o e) \o p = (t \o s) \o (e \o p)
    BY <1>3, StepsRegroup, Zenon
  <2>2. (t \o s) \o (e \o p) = t \o (s \o (e \o p))
    <3> DEFINE x == e \o p
    <3>1. x \in Seq(Steps)
      BY <1>4
    <3> HIDE DEF x
    <3>2. t \in Seq(Steps)
      BY <1>2
    <3>3. \A u, v \in Seq(Steps) : (t \o u) \o v = t \o (u \o v)
      BY <3>2, StepsRegroup, Zenon
    <3>4. \A v \in Seq(Steps) : (t \o s) \o v = t \o (s \o v)
      BY <3>3, Zenon
    <3> QED BY <3>1, <3>4, Zenon DEF x
  <2> QED BY <2>1, <2>2
<1>6. SubSeq((t \o s) \o (e \o p), Len(t \o s) + 1, Len((t \o s) \o (e \o p))) = e \o p
  BY <1>3, <1>4, Dropped
<1>7. Len(t \o s) + 1 = Len(s) + 2
  BY <1>2, <1>3
<1> QED BY <1>1, <1>4, <1>5, <1>6, <1>7 DEF t

(* The state is set again.                                                 *)
LEMMA SetBackAims ==
  ASSUME NEW w \in {RUNPIPELINED, RUNUNPIPELINED}, NEW r \in Outcomes
  PROVE  Stays(w, << >>, << >>, SetAgain(w) \o << >>, r)
<1> DEFINE none == << >>
           i    == Step("ignored", 0, 0)
           h    == [rest |-> i, saved |-> none, ret |-> r]
           hs   == <<h>>
           a    == Step("readSet", 2 * w, 1)
           m    == Step("write", 2 * w, 0)
           g    == Step("set", w, 0)
<1>1. /\ w \in States /\ w \in Known /\ w # PAUSED /\ PAUSED \in States /\ PAUSED \in Known
      /\ w \in Int /\ 2 * w \in Int /\ 0 \in Int /\ 1 \in Int /\ (2 * w) \div 2 = w
      /\ 2 * w \in SetOps
  <2>1. w \in {1, 2} /\ SetOps = {0, 2, 4}
    BY DEF RUNPIPELINED, RUNUNPIPELINED, SetOps, PAUSEPIPELINE, RESUMEPIPELINE, RESUMEUNPIPELINED
  <2> QED BY <2>1, StateFacts
<1>2. {"ignored", "readSet", "write", "set", "try"} \subseteq Kinds
  BY DEF Kinds
<1>3. none \in Seq(0 .. 255) /\ none \in Seq(Frames) /\ none \in Seq(Steps)
  BY EmptySeq
<1>4. i \in Seq(Steps) /\ a \in Seq(Steps) /\ m \in Seq(Steps) /\ g \in Seq(Steps) /\ Len(g) = 1
  BY <1>1, <1>2, <1>3, FirstStep, Zenon
<1>5. i \o none = i /\ g \o i \in Seq(Steps) /\ a \o i \in Seq(Steps) /\ m \o (a \o i) \in Seq(Steps)
  BY <1>3, <1>4, ConcatEmptySeq, ConcatProperties
<1>6. h \in Frames
  BY <1>3, <1>4 DEF Frames
<1>7. h.rest = i /\ h.saved = none /\ h.ret = r
  OBVIOUS
<1> HIDE DEF h
<1>8. /\ hs \in Seq(Frames) /\ hs # none /\ hs \o none = hs /\ <<h>> \o none = hs
      /\ hs[1] = h /\ Head(hs) = h /\ Tail(hs) = none
  BY <1>6, OneElement
<1> HIDE DEF hs
<1>9. Place(UNKNOWN, w, w, none, none, none, r) \in Way(w)
  BY <1>1, <1>3, EndAims
<1>10. Place(UNKNOWN, w, w, none, hs, i, r) \in Way(w)
  <2>1. Goes(Way(w), w, w, none, hs, [do |-> "ignored", op |-> 0, arg |-> 0], none, i \o none, r)
    BY <1>7, <1>8, <1>9 DEF Goes
  <2>2. Place(UNKNOWN, w, w, none, hs, i \o none, r) \in Way(w)
    BY <1>1, <1>2, <1>3, <1>8, <2>1, StepAims, ZenonT(60)
  <2> QED BY <1>5, <2>2
<1>11. Place(PAUSED, w, PAUSED, none, hs, a \o i, r) \in Way(w)
  <2>1. Learns(Way(w), PAUSED, w, none, hs, [do |-> "readSet", op |-> 2 * w, arg |-> 1], i, r)
    BY <1>1, <1>10 DEF Learns
  <2> QED BY <1>1, <1>2, <1>3, <1>4, <1>8, <2>1, AnswerAims, Zenon
<1>12. Place(UNKNOWN, PAUSED, PAUSED, none, hs, m \o (a \o i), r) \in Way(w)
  <2>1. a \o i # none /\ Head(a \o i) = [do |-> "readSet", op |-> 2 * w, arg |-> 1]
    <3>1. "readSet" \in Kinds /\ 2 * w \in Int /\ 1 \in Int /\ i \in Seq(Steps)
      BY <1>1, <1>2, <1>4
    <3> HIDE DEF i
    <3> QED BY <3>1, FirstStep
  <2>2. Goes(Way(w), PAUSED, PAUSED, none, hs, [do |-> "write", op |-> 2 * w, arg |-> 0],
             a \o i, m \o (a \o i), r)
    BY <1>1, <1>11, <2>1 DEF Goes
  <2> QED BY <1>1, <1>2, <1>3, <1>5, <1>8, <2>2, StepAims, Zenon
<1>13. Place(UNKNOWN, PAUSED, PAUSED, none, hs, g \o i, r) \in Way(w)
  <2>1. ToState("readSet", w) = m \o a
    BY DEF ToState, Write
  <2>2. (m \o a) \o i = m \o (a \o i)
    BY <1>4, StepsRegroup, Zenon
  <2>3. Place(UNKNOWN, PAUSED, PAUSED, none, hs, ToState("readSet", w) \o i, r) \in Way(w)
    BY <1>12, <2>1, <2>2
  <2>4. Goes(Way(w), PAUSED, PAUSED, none, hs, [do |-> "set", op |-> w, arg |-> 0], i, g \o i, r)
    BY <1>1, <2>3 DEF Goes
  <2> QED BY <1>1, <1>2, <1>3, <1>4, <1>8, <2>4, StepAims, Zenon
<1> HIDE DEF i, a, m, none
<1>14. Place(UNKNOWN, PAUSED, PAUSED, none, none, Attempt(g, i) \o none, r) \in Way(w)
  <2> DEFINE t == Step("try", Len(g), 0)
  <2>1. Attempt(g, i) \o none = t \o (g \o i)
        /\ SubSeq(t \o (g \o i), Len(g) + 2, Len(t \o (g \o i))) = i
    <3>0. none \in Seq(Steps) /\ i \in Seq(Steps) /\ g \in Seq(Steps)
      BY <1>3, <1>4
    <3> HIDE DEF g, none
    <3>1. /\ Attempt(g, i) \o none = Step("try", Len(g), 0) \o (g \o (i \o none))
          /\ LET y == Step("try", Len(g), 0) \o (g \o (i \o none))
             IN  SubSeq(y, Len(g) + 2, Len(y)) = i \o none
      BY <3>0, AttemptIs, ZenonT(60)
    <3> QED BY <1>5, <3>1
  <2>2. Goes(Way(w), PAUSED, PAUSED, none, none, [do |-> "try", op |-> Len(g), arg |-> 0],
             g \o i, t \o (g \o i), r)
    BY <1>8, <1>13, <2>1 DEF Goes, h
  <2>3. Len(g) \in Int
    BY <1>4
  <2> HIDE DEF g
  <2>4. Place(UNKNOWN, PAUSED, PAUSED, none, none, t \o (g \o i), r) \in Way(w)
    BY <1>1, <1>2, <1>3, <1>5, <2>2, <2>3, StepAims, Zenon
  <2> QED BY <2>1, <2>4
<1>15. SetAgain(w) = Attempt(g, i)
  BY DEF SetAgain, set_pipeline_state, Ignored, i
<1> QED BY <1>14, <1>15 DEF Stays, none

(* BERI2_RESUME arrives, from a pipeline that is paused.                   *)
LEMMA BackAims ==
  ASSUME NEW w \in States, NEW r \in Outcomes
  PROVE  Stays(w, <<w>>, << >>, BERI2_RESUME, r)
<1> DEFINE none == << >>
           e    == Step("restore", 0, 0)
<1>1. none \in Seq(0 .. 255) /\ none \in Seq(Frames) /\ none \in Seq(Steps)
  BY EmptySeq
<1>2. w \in 0 .. 255 /\ PAUSED \in States /\ PAUSED \in Known
  BY StateFacts
<1>3. <<w>> \in Seq(0 .. 255) /\ Head(<<w>>) = w /\ Tail(<<w>>) = none
  BY <1>2, OneElement
<1>4. "restore" \in Kinds /\ 0 \in Int
  BY DEF Kinds
<1>5. e \in Seq(Steps) /\ e \o none = e
  <2>1. e \in Seq(Steps)
    BY <1>1, <1>4, FirstStep, Zenon
  <2> QED BY <2>1, ConcatEmptySeq
<1>6. Stays(w, none, none, SetAgain(w) \o none, r)
  <2>1. CASE w = PAUSED
    <3>1. SetAgain(w) = none
      BY <2>1 DEF SetAgain, PAUSED, RUNPIPELINED, RUNUNPIPELINED
    <3>2. SetAgain(w) \o none = none
      BY <1>1, <3>1, ConcatEmptySeq
    <3>3. Stays(w, none, none, none, r)
      BY <1>1, <1>2, <2>1, EndAims DEF Stays
    <3> QED BY <3>2, <3>3
  <2>2. CASE w # PAUSED
    <3>1. w \in {RUNPIPELINED, RUNUNPIPELINED}
      BY <2>2 DEF States
    <3> QED BY <3>1, SetBackAims
  <2> QED BY <2>1, <2>2
<1> HIDE DEF none
<1>7. Goes(Way(w), PAUSED, PAUSED, <<w>>, none, [do |-> "restore", op |-> 0, arg |-> 0],
           none, e \o none, r)
  BY <1>3, <1>6 DEF Goes, Stays
<1>8. Place(UNKNOWN, PAUSED, PAUSED, <<w>>, none, e \o none, r) \in Way(w)
  BY <1>1, <1>2, <1>3, <1>4, <1>7, StepAims, Zenon
<1> QED BY <1>5, <1>8 DEF Stays, BERI2_RESUME, none

(* The state found is saved.                                               *)
LEMMA BeginAims ==
  ASSUME NEW w \in States, NEW r \in Outcomes, NEW p \in Seq(Steps), Stays(w, <<w>>, << >>, p, r)
  PROVE  Place(UNKNOWN, w, UNKNOWN, << >>, << >>, BERI2_PAUSE \o p, r) \in Way(w)
<1> DEFINE none == << >>
           a == Step("readPause", 0, 1)
           m == Step("write", 0, 0)
           b == Step("pause", 0, 0)
<1>1. none \in Seq(0 .. 255) /\ none \in Seq(Frames) /\ none \in Seq(Steps)
  BY EmptySeq
<1>2. /\ w \in 0 .. 255 /\ PAUSED \in States /\ PAUSED \in Known /\ UNKNOWN \in Known /\ PAUSED = 0
      /\ w \in Known /\ UNKNOWN # PAUSED /\ 0 \in Int /\ 1 \in Int /\ 0 \div 2 = 0 /\ 0 \in SetOps
  BY StateFacts DEF SetOps, PAUSEPIPELINE
<1>3. {"readPause", "write", "pause"} \subseteq Kinds
  BY DEF Kinds
<1>4. a \in Seq(Steps) /\ m \in Seq(Steps) /\ a \o p \in Seq(Steps) /\ m \o (a \o p) \in Seq(Steps)
  <2>1. a \in Seq(Steps) /\ m \in Seq(Steps)
    BY <1>1, <1>2, <1>3, FirstStep, Zenon
  <2>2. a \o p \in Seq(Steps)
    BY <2>1, ConcatProperties
  <2> QED BY <2>1, <2>2, ConcatProperties
<1>5. <<w>> \o none = <<w>>
  BY <1>2, OneElement
<1>6. a \o p # none /\ Head(a \o p) = [do |-> "readPause", op |-> 0, arg |-> 1]
  <2>1. "readPause" \in Kinds /\ 0 \in Int /\ 1 \in Int
    BY <1>3
  <2> QED BY <2>1, FirstStep
<1> HIDE DEF none
<1>7. Place(w, PAUSED, UNKNOWN, none, none, a \o p, r) \in Way(w)
  <2>1. Stays(w, <<w>>, none, p, r)
    BY DEF none
  <2>2. Learns(Way(w), w, PAUSED, none, none, [do |-> "readPause", op |-> 0, arg |-> 1], p, r)
    BY <1>5, <2>1 DEF Learns, Stays
  <2> QED BY <1>1, <1>2, <1>3, <2>2, AnswerAims, Zenon
<1>8. Place(UNKNOWN, w, UNKNOWN, none, none, m \o (a \o p), r) \in Way(w)
  <2>1. Goes(Way(w), w, UNKNOWN, none, none, [do |-> "write", op |-> 0, arg |-> 0],
             a \o p, m \o (a \o p), r)
    BY <1>2, <1>6, <1>7 DEF Goes, none
  <2> QED BY <1>1, <1>2, <1>3, <1>4, <2>1, StepAims, Zenon
<1>9. Place(UNKNOWN, w, UNKNOWN, none, none, b \o p, r) \in Way(w)
  <2>1. ToState("readPause", PAUSED) = m \o a
    BY <1>2 DEF ToState, Write
  <2>2. (m \o a) \o p = m \o (a \o p)
    BY <1>4, StepsRegroup, ZenonT(60)
  <2>3. Goes(Way(w), w, UNKNOWN, none, none, [do |-> "pause", op |-> 0, arg |-> 0], p, b \o p, r)
    BY <1>2, <1>8, <2>1, <2>2 DEF Goes
  <2> QED BY <1>1, <1>2, <1>3, <2>3, StepAims, Zenon
<1> QED BY <1>2, <1>9 DEF BERI2_PAUSE, none

Aimed(w, p) == Place(UNKNOWN, w, UNKNOWN, << >>, << >>, p, "SUCCESS") \in Way(w)

(* The macros are sequences of steps.                                      *)
LEMMA BoundariesType == BERI2_PAUSE \in Seq(Steps) /\ BERI2_RESUME \in Seq(Steps) /\ Excepted \in Seq(Steps)
<1>1. {"pause", "restore", "excepted"} \subseteq Kinds /\ 0 \in Int /\ PAUSED \in Int
  BY StateFacts DEF Kinds
<1>2. << >> \in Seq(Steps)
  BY EmptySeq
<1> QED BY <1>1, <1>2, FirstStep, Zenon DEF BERI2_PAUSE, BERI2_RESUME, Excepted

(* A command between BERI2_PAUSE and BERI2_RESUME.                         *)
LEMMA PausedAims ==
  ASSUME NEW w \in States, NEW s, Steady(w, s)
  PROVE  Aimed(w, Paused(s))
<1>1. s \in Seq(Steps) /\ "SUCCESS" \in Outcomes /\ << >> \in Seq(Frames)
  BY EmptySeq DEF Steady, Outcomes
<1>2. <<w>> \in Seq(0 .. 255) /\ PAUSED \in States /\ PAUSED \in Known
  BY StateFacts, OneElement
<1>3. Stays(w, <<w>>, << >>, s \o BERI2_RESUME, "SUCCESS")
  <2>1. Stays(w, <<w>>, << >>, BERI2_RESUME, "SUCCESS") /\ FailuresAim(w, PAUSED, PAUSED, << >>)
    BY <1>1, <1>2, BackAims, FailureEnds
  <2> QED BY <1>1, <1>2, <2>1, BoundariesType, Zenon DEF Steady
<1>4. s \o BERI2_RESUME \in Seq(Steps)
  BY <1>1, BoundariesType, ConcatProperties
<1>5. Place(UNKNOWN, w, UNKNOWN, << >>, << >>, BERI2_PAUSE \o (s \o BERI2_RESUME), "SUCCESS") \in Way(w)
  BY <1>1, <1>3, <1>4, BeginAims
<1>6. (BERI2_PAUSE \o s) \o BERI2_RESUME = BERI2_PAUSE \o (s \o BERI2_RESUME)
  BY <1>1, BoundariesType, StepsRegroup, ZenonT(60)
<1> QED BY <1>5, <1>6 DEF Aimed, Paused

(* A command whose exceptions are caught before BERI2_RESUME.              *)
LEMMA GuardedAims ==
  ASSUME NEW w \in States, NEW s, Steady(w, s)
  PROVE  Aimed(w, Guarded(s))
<1> DEFINE z == BERI2_RESUME
           x == Step("excepted", 0, 0)
           i == x \o z
           y == <<w>>
           r == "SUCCESS"
           h == [rest |-> i, saved |-> y, ret |-> r]
           hs == <<h>>
<1>1. /\ s \in Seq(Steps) /\ r \in Outcomes /\ << >> \in Seq(Frames) /\ "excepted" \in Kinds
      /\ "try" \in Kinds /\ 0 \in Int
  BY EmptySeq DEF Steady, Outcomes, Kinds
<1>2. y \in Seq(0 .. 255) /\ PAUSED \in States /\ PAUSED \in Known
  BY StateFacts, OneElement
<1>3. z \in Seq(Steps) /\ x \in Seq(Steps) /\ BERI2_PAUSE \in Seq(Steps)
  BY BoundariesType DEF Excepted
<1>4. i \in Seq(Steps) /\ s \o i \in Seq(Steps)
  <2>1. i \in Seq(Steps)
    BY <1>3, ConcatProperties
  <2> QED BY <1>1, <2>1, ConcatProperties
<1>5. h \in Frames /\ h.rest = i /\ h.saved = y /\ h.ret = r
  BY <1>1, <1>2, <1>4 DEF Frames
<1> HIDE DEF z, i, y, h
<1>6. /\ hs \in Seq(Frames) /\ hs # << >> /\ hs \o << >> = hs /\ hs[1] = h /\ Tail(hs) = << >>
  BY <1>5, OneElement
<1>7. \A q \in Outcomes : Stays(w, y, << >>, z, q)
  BY BackAims DEF z, y
<1>8. ASSUME NEW q \in Outcomes PROVE Stays(w, y, hs, i, q)
  <2>1. (IF q = "EXCEPTION" THEN "SUCCESS" ELSE q) \in Outcomes
    BY <1>1
  <2>2. Goes(Way(w), PAUSED, PAUSED, y, hs, [do |-> "excepted", op |-> 0, arg |-> 0], z, x \o z, q)
    BY <1>6, <1>7, <2>1 DEF Goes, Stays
  <2> HIDE DEF hs
  <2>3. Place(UNKNOWN, PAUSED, PAUSED, y, hs, x \o z, q) \in Way(w)
    BY <1>1, <1>2, <1>3, <1>6, <2>2, StepAims, Zenon
  <2> QED BY <2>3 DEF Stays, i
<1> HIDE DEF hs
<1>9. FailuresAim(w, PAUSED, PAUSED, hs)
  <2> SUFFICES ASSUME NEW e \in Errors PROVE FailedAt(e, PAUSED, PAUSED, hs) \in Way(w)
    BY DEF FailuresAim
  <2>1. e \in Outcomes
    BY DEF Errors, Outcomes
  <2>2. Stays(w, y, hs, i, e)
    BY <1>8, <2>1
  <2> QED BY <1>5, <1>6, <2>2 DEF FailedAt, Stays
<1>10. Stays(w, y, hs, s \o i, r)
  BY <1>1, <1>2, <1>4, <1>6, <1>8, <1>9, Zenon DEF Steady
<1>11. Stays(w, y, << >>, Attempt(s, x) \o z, r)
  <2> DEFINE t == Step("try", Len(s), 0)
  <2>1. Attempt(s, x) \o z = t \o (s \o i)
        /\ SubSeq(t \o (s \o i), Len(s) + 2, Len(t \o (s \o i))) = i
    BY <1>1, <1>3, AttemptIs, ZenonT(60) DEF i
  <2>2. <<h>> \o << >> = hs
    BY <1>6 DEF hs
  <2>3. Goes(Way(w), PAUSED, PAUSED, y, << >>, [do |-> "try", op |-> Len(s), arg |-> 0],
             s \o i, t \o (s \o i), r)
    BY <1>10, <2>1, <2>2 DEF Goes, Stays, h
  <2>4. Len(s) \in Int
    BY <1>1, LenProperties
  <2>5. Place(UNKNOWN, PAUSED, PAUSED, y, << >>, t \o (s \o i), r) \in Way(w)
    BY <1>1, <1>2, <1>4, <2>3, <2>4, StepAims, Zenon
  <2> QED BY <2>1, <2>5 DEF Stays
<1>12. Attempt(s, x) \in Seq(Steps) /\ Attempt(s, x) \o z \in Seq(Steps)
  <2>1. Attempt(s, x) \in Seq(Steps)
    BY <1>1, <1>3, AttemptIs
  <2> QED BY <1>3, <2>1, ConcatProperties
<1>13. Place(UNKNOWN, w, UNKNOWN, << >>, << >>, BERI2_PAUSE \o (Attempt(s, x) \o z), r) \in Way(w)
  BY <1>1, <1>11, <1>12, BeginAims DEF y
<1>14. (BERI2_PAUSE \o Attempt(s, x)) \o z = BERI2_PAUSE \o (Attempt(s, x) \o z)
  BY <1>3, <1>12, StepsRegroup, Zenon
<1> QED BY <1>13, <1>14 DEF Aimed, Guarded, Excepted, z

(* A request and the reply to it.                                          *)
LEMMA SteadyAsk ==
  ASSUME NEW w, NEW op \in Stills, NEW len \in Int
  PROVE  Steady(w, Write(op)) /\ Steady(w, Read(op, len)) /\ Steady(w, Ask(op, len))
<1>1. 0 \in Int
  OBVIOUS
<1>2. Steady(w, Write(op))
  BY <1>1, SteadySteps, Zenon DEF Write
<1>3. Steady(w, Read(op, len))
  BY SteadySteps, Zenon
<1> QED BY <1>2, <1>3, SteadyJoined, Zenon DEF Ask

(* The ops of the operations on registers, memory, breakpoints and traces. *)
LEMMA OpsAreStill ==
  {SETPC, GETPC, SETBYTE, GETBYTE, SETHALFWORD, GETHALFWORD, SETWORD, GETWORD, SETDOUBLEWORD,
   GETDOUBLEWORD, SETREGISTER, GETREGISTER, GETC2REGISTER, EXECUTESINGLEINST, SETBREAKPOINT,
   SETTRACEMASK, SETTRACEFILTER, SETTHREAD, MEM_TRACE} \subseteq Stills
BY DEF Stills, SetOps, PAUSEPIPELINE, RESUMEPIPELINE, RESUMEUNPIPELINED, RESUMESTREAMING, SETPC, GETPC,
   SETBYTE, GETBYTE, SETHALFWORD, GETHALFWORD, SETWORD, GETWORD, SETDOUBLEWORD, GETDOUBLEWORD,
   SETREGISTER, GETREGISTER, GETC2REGISTER, EXECUTESINGLEINST, SETBREAKPOINT, SETTRACEMASK,
   SETTRACEFILTER, SETTHREAD, MEM_TRACE

(* The operations that need a paused pipeline and leave it so.             *)
LEMMA OperationsSteady ==
  ASSUME NEW w
  PROVE  /\ Steady(w, operands(TRUE)) /\ Steady(w, get_pc(TRUE)) /\ Steady(w, set_pc(TRUE))
         /\ Steady(w, set_reg(TRUE)) /\ Steady(w, step_execution(TRUE)) /\ Steady(w, set_thread(TRUE))
         /\ Steady(w, lbu(TRUE)) /\ Steady(w, lhu(TRUE)) /\ Steady(w, lwu(TRUE)) /\ Steady(w, ld(TRUE))
         /\ Steady(w, sb(TRUE)) /\ Steady(w, sh(TRUE)) /\ Steady(w, sw(TRUE)) /\ Steady(w, sd(TRUE))
         /\ Steady(w, pause_execution(TRUE)) /\ Steady(w, breakpoint_set(TRUE))
         /\ Steady(w, trace_filter_set(TRUE)) /\ Steady(w, trace_filter_mask_set(TRUE))
         /\ Steady(w, get_c2reg(TRUE)) /\ Steady(w, get_c0reg_pipelined_send(TRUE))
         /\ Steady(w, get_reg_pipelined_send(TRUE)) /\ Steady(w, get_reg_pipelined_response(TRUE))
         /\ Steady(w, sd_pipelined_send(TRUE)) /\ Steady(w, sd_pipelined_response(TRUE))
<1> DEFINE S(s) == Steady(w, s)
<1>1. \A s, t : S(s) /\ S(t) => S(s \o t)
  BY SteadyJoined, Zenon
<1>2. S(Usage) /\ S(NeedPaused) /\ S(set_pipeline_state(PAUSED)) /\ S(Step("write", SETBREAKPOINT, 1))
  <2>1. SETBREAKPOINT \in Stills /\ 1 \in Int
    BY OpsAreStill
  <2> QED BY <2>1, SteadySteps, Zenon
<1>3. S(<< >>)
  BY SteadyNothing
<1>4. /\ S(Ask(EXECUTESINGLEINST, 0)) /\ S(Ask(SETTHREAD, 0)) /\ S(Ask(SETTRACEFILTER, 0))
      /\ S(Ask(SETTRACEMASK, 0)) /\ S(Ask(SETPC, 0)) /\ S(Ask(SETREGISTER, 0))
      /\ S(Ask(SETBYTE, 0)) /\ S(Ask(SETHALFWORD, 0)) /\ S(Ask(SETWORD, 0))
      /\ S(Ask(SETDOUBLEWORD, 0)) /\ S(Ask(GETDOUBLEWORD, 8)) /\ S(Ask(GETPC, 8))
      /\ S(Ask(GETBYTE, 1)) /\ S(Ask(GETHALFWORD, 2)) /\ S(Ask(GETWORD, 4))
      /\ S(Ask(GETC2REGISTER, 32)) /\ S(Write(GETREGISTER)) /\ S(Read(GETREGISTER, 8))
      /\ S(Write(SETDOUBLEWORD)) /\ S(Read(SETDOUBLEWORD, 0)) /\ S(Read(SETBREAKPOINT, 0))
  <2>1. \A op \in Stills, len \in {0, 1, 2, 4, 8, 32} : S(Write(op)) /\ S(Read(op, len)) /\ S(Ask(op, len))
    <3>1. {0, 1, 2, 4, 8, 32} \subseteq Int
      OBVIOUS
    <3> QED BY <3>1, SteadyAsk
  <2> HIDE DEF S
  <2>2. {0, 1, 2, 4, 8, 32} = {0, 1, 2, 4, 8, 32} /\ 0 \in {0, 1, 2, 4, 8, 32} /\ 1 \in {0, 1, 2, 4, 8, 32}
        /\ 2 \in {0, 1, 2, 4, 8, 32} /\ 4 \in {0, 1, 2, 4, 8, 32} /\ 8 \in {0, 1, 2, 4, 8, 32}
        /\ 32 \in {0, 1, 2, 4, 8, 32}
    OBVIOUS
  <2>3. /\ SETPC \in Stills /\ GETPC \in Stills /\ SETBYTE \in Stills /\ GETBYTE \in Stills
        /\ SETHALFWORD \in Stills /\ GETHALFWORD \in Stills /\ SETWORD \in Stills /\ GETWORD \in Stills
        /\ SETDOUBLEWORD \in Stills /\ GETDOUBLEWORD \in Stills /\ SETREGISTER \in Stills
        /\ GETREGISTER \in Stills /\ GETC2REGISTER \in Stills /\ EXECUTESINGLEINST \in Stills
        /\ SETBREAKPOINT \in Stills /\ SETTRACEMASK \in Stills /\ SETTRACEFILTER \in Stills
        /\ SETTHREAD \in Stills
    BY OpsAreStill
  <2> QED BY <2>1, <2>2, <2>3, Zenon
<1> HIDE DEF S
<1>5. /\ S(NeedPaused \o Ask(GETPC, 8)) /\ S(NeedPaused \o Ask(SETPC, 0))
      /\ S(NeedPaused \o Ask(SETREGISTER, 0)) /\ S(NeedPaused \o Ask(GETBYTE, 1))
      /\ S(NeedPaused \o Ask(GETHALFWORD, 2)) /\ S(NeedPaused \o Ask(GETWORD, 4))
      /\ S(NeedPaused \o Ask(GETDOUBLEWORD, 8)) /\ S(NeedPaused \o Ask(SETBYTE, 0))
      /\ S(NeedPaused \o Ask(SETHALFWORD, 0)) /\ S(NeedPaused \o Ask(SETWORD, 0))
      /\ S(NeedPaused \o Ask(SETDOUBLEWORD, 0)) /\ S(NeedPaused \o Ask(EXECUTESINGLEINST, 0))
      /\ S(NeedPaused \o Ask(GETC2REGISTER, 32)) /\ S(NeedPaused \o Write(GETREGISTER))
      /\ S(NeedPaused \o Read(GETREGISTER, 8)) /\ S(NeedPaused \o Write(SETDOUBLEWORD))
      /\ S(Step("write", SETBREAKPOINT, 1) \o Read(SETBREAKPOINT, 0))
  BY <1>1, <1>2, <1>4, Zenon
<1>6. /\ S(get_pc(TRUE)) /\ S(set_pc(TRUE)) /\ S(set_reg(TRUE)) /\ S(lbu(TRUE)) /\ S(lhu(TRUE))
      /\ S(lwu(TRUE)) /\ S(ld(TRUE)) /\ S(sb(TRUE)) /\ S(sh(TRUE)) /\ S(sw(TRUE)) /\ S(sd(TRUE))
      /\ S(get_c2reg(TRUE)) /\ S(step_execution(TRUE))
  BY <1>5, Zenon DEF get_pc, set_pc, set_reg, lbu, lhu, lwu, ld, sb, sh, sw, sd, load, store,
     get_c2reg, step_execution, Both
<1>7. /\ S(set_thread(TRUE)) /\ S(trace_filter_set(TRUE)) /\ S(trace_filter_mask_set(TRUE))
      /\ S(pause_execution(TRUE))
  BY <1>2, <1>4, Zenon DEF set_thread, trace_filter_set, trace_filter_mask_set, pause_execution
<1>8. /\ S(get_reg_pipelined_send(TRUE)) /\ S(get_reg_pipelined_response(TRUE))
      /\ S(sd_pipelined_send(TRUE)) /\ S(sd_pipelined_response(TRUE))
      /\ S(get_c0reg_pipelined_send(TRUE))
  BY <1>2, <1>4, <1>5, Zenon DEF get_reg_pipelined_send, get_reg_pipelined_response,
     sd_pipelined_send, sd_pipelined_response, get_c0reg_pipelined_send, OnlyBeri
<1>9. S(operands(TRUE))
  BY <1>1, <1>3, Zenon DEF operands, load_operand_a, load_operand_b
<1>10. S(breakpoint_set(TRUE))
  BY <1>5 DEF breakpoint_set, breakpoint_to
<1> QED BY <1>6, <1>7, <1>8, <1>9, <1>10, Zenon DEF S

(* The commands made of them, between BERI2_PAUSE and BERI2_RESUME.        *)
LEMMA CommandsSteady ==
  ASSUME NEW w \in States
  PROVE  /\ Aimed(w, berictl_pc(TRUE)) /\ Aimed(w, berictl_step(TRUE)) /\ Aimed(w, berictl_setpc(TRUE))
         /\ Aimed(w, berictl_setreg(TRUE)) /\ Aimed(w, berictl_setthread(TRUE))
         /\ Aimed(w, berictl_breakpoint(TRUE)) /\ Aimed(w, berictl_set_trace_filter(TRUE))
         /\ Aimed(w, berictl_lbu(TRUE)) /\ Aimed(w, berictl_lhu(TRUE))
         /\ Aimed(w, berictl_lwu(TRUE)) /\ Aimed(w, berictl_ld(TRUE))
         /\ Aimed(w, berictl_sb(TRUE)) /\ Aimed(w, berictl_sh(TRUE))
         /\ Aimed(w, berictl_sw(TRUE)) /\ Aimed(w, berictl_sd(TRUE))
         /\ Aimed(w, berictl_regs(TRUE)) /\ Aimed(w, berictl_c0regs(TRUE)) /\ Aimed(w, berictl_c2regs(TRUE))
         /\ Aimed(w, berictl_loadbin(TRUE))
<1> DEFINE S(s) == Steady(w, s)
           A(s) == Aimed(w, s)
<1>1. \A s, t : S(s) /\ S(t) => S(s \o t)
  BY SteadyJoined, Zenon
<1>2. \A s : S(s) => A(Paused(s)) /\ A(Guarded(s))
  BY PausedAims, GuardedAims, Zenon
<1>3. \A s : S(s) => S(Paused(s))
  BY SteadyPaused, Zenon
<1>4. \A s : S(s) => \A n \in Nat : S(Times(n, s))
  BY SteadyRepeats
<1>5. /\ S(operands(TRUE)) /\ S(get_pc(TRUE)) /\ S(set_pc(TRUE))
      /\ S(set_reg(TRUE)) /\ S(step_execution(TRUE)) /\ S(set_thread(TRUE))
      /\ S(lbu(TRUE)) /\ S(lhu(TRUE)) /\ S(lwu(TRUE)) /\ S(ld(TRUE))
      /\ S(sb(TRUE)) /\ S(sh(TRUE)) /\ S(sw(TRUE)) /\ S(sd(TRUE))
      /\ S(pause_execution(TRUE)) /\ S(breakpoint_set(TRUE))
      /\ S(trace_filter_set(TRUE)) /\ S(trace_filter_mask_set(TRUE))
      /\ S(get_c2reg(TRUE)) /\ S(get_c0reg_pipelined_send(TRUE))
      /\ S(get_reg_pipelined_send(TRUE)) /\ S(get_reg_pipelined_response(TRUE))
      /\ S(sd_pipelined_send(TRUE)) /\ S(sd_pipelined_response(TRUE))
  BY OperationsSteady, Zenon
<1> HIDE DEF S, A
<1>6. NRegs \in Nat /\ NC0Regs \in Nat /\ NCapRegs \in Nat /\ Window \in Nat
      /\ FileWords - Window \in Nat /\ FileTail \in Nat
  BY CountAssumption DEF Window
<1>7. /\ A(berictl_lbu(TRUE)) /\ A(berictl_lhu(TRUE)) /\ A(berictl_lwu(TRUE)) /\ A(berictl_ld(TRUE))
      /\ A(berictl_sb(TRUE)) /\ A(berictl_sh(TRUE)) /\ A(berictl_sw(TRUE)) /\ A(berictl_sd(TRUE))
  BY <1>2, <1>5, Zenon DEF berictl_lbu, berictl_lhu, berictl_lwu, berictl_ld, berictl_sb, berictl_sh,
     berictl_sw, berictl_sd
<1>8. /\ A(berictl_pc(TRUE)) /\ A(berictl_setreg(TRUE)) /\ A(berictl_setthread(TRUE))
      /\ A(berictl_breakpoint(TRUE))
  BY <1>2, <1>5, Zenon DEF berictl_pc, berictl_setreg, berictl_setthread, berictl_breakpoint
<1>9. A(berictl_step(TRUE)) /\ A(berictl_setpc(TRUE)) /\ A(berictl_set_trace_filter(TRUE))
  <2>1. S((get_pc(TRUE) \o step_execution(TRUE)) \o get_pc(TRUE)) /\ S(set_pc(TRUE) \o get_pc(TRUE))
        /\ S(trace_filter_mask_set(TRUE) \o trace_filter_set(TRUE))
    BY <1>1, <1>5, Zenon
  <2> QED BY <1>2, <2>1, Zenon DEF berictl_step, berictl_setpc, berictl_set_trace_filter
<1>10. A(berictl_regs(TRUE))
  <2>1. S(berictl_pc(TRUE))
    BY <1>3, <1>5, Zenon DEF berictl_pc
  <2>2. S(Times(NRegs, get_reg_pipelined_send(TRUE))) /\ S(Times(NRegs, get_reg_pipelined_response(TRUE)))
    BY <1>4, <1>5, <1>6, Zenon
  <2>3. S((((pause_execution(TRUE) \o berictl_pc(TRUE)) \o operands(TRUE))
            \o Times(NRegs, get_reg_pipelined_send(TRUE))) \o Times(NRegs, get_reg_pipelined_response(TRUE)))
    BY <1>1, <1>5, <2>1, <2>2, Zenon
  <2> QED BY <1>2, <2>3, Zenon DEF berictl_regs
<1>11. A(berictl_c0regs(TRUE))
  <2>1. S(Times(NC0Regs, get_c0reg_pipelined_send(TRUE)))
        /\ S(Times(NC0Regs, get_reg_pipelined_response(TRUE)))
    BY <1>4, <1>5, <1>6, Zenon
  <2>2. S(((pause_execution(TRUE) \o operands(TRUE)) \o Times(NC0Regs, get_c0reg_pipelined_send(TRUE)))
            \o Times(NC0Regs, get_reg_pipelined_response(TRUE)))
    BY <1>1, <1>5, <2>1, Zenon
  <2> QED BY <1>2, <2>2, Zenon DEF berictl_c0regs
<1>12. A(berictl_c2regs(TRUE))
  <2>1. S(Times(NCapRegs, get_c2reg(TRUE)))
    BY <1>4, <1>5, <1>6, Zenon
  <2>2. S(pause_execution(TRUE) \o Times(NCapRegs, get_c2reg(TRUE)))
    BY <1>1, <1>5, <2>1, Zenon
  <2> QED BY <1>2, <2>2, Zenon DEF berictl_c2regs
<1>13. A(berictl_loadbin(TRUE))
  <2>1. S(sd_pipelined_response(TRUE) \o sd_pipelined_send(TRUE))
    BY <1>1, <1>5, Zenon
  <2>2. /\ S(Times(Window, sd_pipelined_send(TRUE)))
        /\ S(Times(FileWords - Window, sd_pipelined_response(TRUE) \o sd_pipelined_send(TRUE)))
        /\ S(Times(Window, sd_pipelined_response(TRUE))) /\ S(Times(FileTail, sb(TRUE)))
    BY <1>4, <1>5, <1>6, <2>1, Zenon
  <2>3. S(((Times(Window, sd_pipelined_send(TRUE))
             \o Times(FileWords - Window, sd_pipelined_response(TRUE) \o sd_pipelined_send(TRUE)))
            \o Times(Window, sd_pipelined_response(TRUE))) \o Times(FileTail, sb(TRUE)))
    BY <1>1, <2>2, Zenon
  <2> QED BY <1>2, <2>3, Zenon DEF berictl_loadbin
<1> QED BY <1>7, <1>8, <1>9, <1>10, <1>11, <1>12, <1>13, Zenon DEF A

(* Without a state known to be set, an operation refuses to begin.         *)
LEMMA RefusedAims ==
  ASSUME NEW w \in States, NEW p \in Seq(Steps)
  PROVE  /\ Aimed(w, NeedPaused \o p) /\ Aimed(w, Usage \o p) /\ Aimed(w, << >>)
         /\ Aimed(w, Write(MEM_TRACE)) /\ Aimed(w, Step("drain", 0, 0))
<1> DEFINE none == << >>
           r == "SUCCESS"
           Begins(what, op, x) ==
             Goes(Way(w), w, UNKNOWN, none, none, [do |-> what, op |-> op, arg |-> 0], x,
                  Step(what, op, 0) \o x, r)
<1>1. /\ none \in Seq(0 .. 255) /\ none \in Seq(Frames) /\ none \in Seq(Steps) /\ r \in Outcomes
      /\ UNKNOWN \in Known /\ UNKNOWN # PAUSED /\ 0 \in Int
  BY StateFacts, EmptySeq DEF Outcomes
<1>2. Place(UNKNOWN, w, UNKNOWN, none, none, none, r) \in Way(w)
  BY <1>1, EndAims
<1>3. MEM_TRACE \in Int /\ MEM_TRACE \notin SetOps \cup {RESUMESTREAMING}
  BY OpsAreStill DEF Stills
<1>4. {"NOTPAUSED", "USAGE_ERROR"} \subseteq Errors /\ {"needPaused", "usage", "write", "drain"} \subseteq Kinds
  BY DEF Errors, Kinds
<1>5. FailuresAim(w, w, UNKNOWN, none)
  BY <1>1, FailureEnds
<1> HIDE DEF none
<1>6. \A q \in Seq(Steps) : Begins("needPaused", 0, q) /\ Begins("usage", 0, q)
  BY <1>1, <1>4, <1>5 DEF Goes, FailuresAim
<1>7. Begins("write", MEM_TRACE, none) /\ Begins("drain", 0, none)
  BY <1>2, <1>3 DEF Goes
<1>8. ASSUME NEW what \in Kinds, NEW op \in Int, NEW x \in Seq(Steps), Begins(what, op, x)
      PROVE  Place(UNKNOWN, w, UNKNOWN, none, none, Step(what, op, 0) \o x, r) \in Way(w)
  BY <1>1, <1>8, StepAims, Zenon
<1> HIDE DEF Begins, r
<1>9. /\ Place(UNKNOWN, w, UNKNOWN, none, none, Step("needPaused", 0, 0) \o p, r) \in Way(w)
      /\ Place(UNKNOWN, w, UNKNOWN, none, none, Step("usage", 0, 0) \o p, r) \in Way(w)
  BY <1>1, <1>4, <1>6, <1>8
<1>10. /\ Place(UNKNOWN, w, UNKNOWN, none, none, Step("write", MEM_TRACE, 0) \o none, r) \in Way(w)
       /\ Place(UNKNOWN, w, UNKNOWN, none, none, Step("drain", 0, 0) \o none, r) \in Way(w)
  BY <1>1, <1>3, <1>4, <1>7, <1>8
<1>11. /\ Step("write", MEM_TRACE, 0) \o none = Step("write", MEM_TRACE, 0)
       /\ Step("drain", 0, 0) \o none = Step("drain", 0, 0)
  <2>1. Step("write", MEM_TRACE, 0) \in Seq(Steps) /\ Step("drain", 0, 0) \in Seq(Steps)
    BY <1>1, <1>3, <1>4, FirstStep, Zenon
  <2> QED BY <2>1, ConcatEmptySeq DEF none
<1> QED BY <1>2, <1>9, <1>10, <1>11 DEF Aimed, NeedPaused, Usage, Write, none, r

(* The commands that never pause the pipeline.                             *)
LEMMA CommandsRefused ==
  ASSUME NEW w \in States
  PROVE  /\ Aimed(w, get_reg(TRUE)) /\ Aimed(w, get_c0reg(TRUE)) /\ Aimed(w, pcc_to_cr26(TRUE))
         /\ Aimed(w, get_c2reg_pipelined_send(TRUE) \o get_reg_pipelined_response(TRUE))
         /\ Aimed(w, nop_pipelined_send(TRUE) \o nop_pipelined_response(TRUE))
         /\ Aimed(w, invalidateicache(TRUE)) /\ Aimed(w, berictl_reset(TRUE)) /\ Aimed(w, Usage)
         /\ Aimed(w, break_on_trace_filter(TRUE)) /\ Aimed(w, berictl_mem_trace(TRUE))
         /\ Aimed(w, berictl_drain(TRUE))
<1>1. /\ Steady(w, get_reg_pipelined_response(TRUE)) /\ Steady(w, Usage) /\ Steady(w, NeedPaused)
      /\ Steady(w, Write(GETREGISTER))
  <2>1. GETREGISTER \in Stills /\ 0 \in Int
    BY OpsAreStill
  <2> QED BY <2>1, OperationsSteady, SteadySteps, SteadyAsk, Zenon
<1>2. get_reg_pipelined_response(TRUE) \in Seq(Steps) /\ Usage \in Seq(Steps) /\ << >> \in Seq(Steps)
      /\ NeedPaused \in Seq(Steps) /\ Write(GETREGISTER) \in Seq(Steps)
  BY <1>1, EmptySeq DEF Steady
<1>3. Write(GETREGISTER) \o get_reg_pipelined_response(TRUE) \in Seq(Steps)
  BY <1>2, ConcatProperties
<1>4. Usage \o << >> = Usage
  BY <1>2, ConcatEmptySeq
<1>5. get_reg(TRUE) = NeedPaused \o (Write(GETREGISTER) \o get_reg_pipelined_response(TRUE))
  <2>1. get_reg(TRUE) = (NeedPaused \o Write(GETREGISTER)) \o get_reg_pipelined_response(TRUE)
    BY Zenon DEF get_reg, get_reg_pipelined_send
  <2> QED BY <1>2, <2>1, StepsRegroup, Zenon
<1>6. Aimed(w, get_reg(TRUE))
  BY <1>3, <1>5, RefusedAims, Zenon
<1>7. /\ Aimed(w, Usage \o get_reg_pipelined_response(TRUE)) /\ Aimed(w, Usage \o Usage)
      /\ Aimed(w, Usage \o << >>) /\ Aimed(w, << >>) /\ Aimed(w, Write(MEM_TRACE))
      /\ Aimed(w, Step("drain", 0, 0))
  BY <1>2, RefusedAims, Zenon
<1>8. Aimed(w, get_c2reg_pipelined_send(TRUE) \o get_reg_pipelined_response(TRUE))
      /\ Aimed(w, nop_pipelined_send(TRUE) \o nop_pipelined_response(TRUE))
  BY <1>7, Zenon DEF get_c2reg_pipelined_send, nop_pipelined_send, nop_pipelined_response, OnlyBeri
<1>9. Aimed(w, get_c0reg(TRUE)) /\ Aimed(w, invalidateicache(TRUE)) /\ Aimed(w, berictl_reset(TRUE))
      /\ Aimed(w, Usage)
  BY <1>4, <1>7, Zenon DEF get_c0reg, invalidateicache, berictl_reset, reset, OnlyBeri
<1> QED
  BY <1>6, <1>7, <1>8, <1>9, Zenon DEF pcc_to_cr26, break_on_trace_filter, berictl_mem_trace,
     berictl_drain

(* Every command that is about something else begins on the way to the     *)
(* state that it finds.                                                    *)
LEMMA CommandAimed ==
  ASSUME NEW w \in States, NEW c \in Names \ ChangesState, c # "control test"
  PROVE  Aimed(w, Command(c, TRUE))
<1> DEFINE A(s) == Aimed(w, s)
<1>1. CASE c \in Loads \cup Stores
  <2>1. \A s \in {berictl_lbu(TRUE), berictl_lhu(TRUE), berictl_lwu(TRUE), berictl_ld(TRUE),
                  berictl_sb(TRUE), berictl_sh(TRUE), berictl_sw(TRUE), berictl_sd(TRUE)} : A(s)
    BY CommandsSteady
  <2>2. Command(c, TRUE) \in {berictl_lbu(TRUE), berictl_lhu(TRUE), berictl_lwu(TRUE), berictl_ld(TRUE),
                  berictl_sb(TRUE), berictl_sh(TRUE), berictl_sw(TRUE), berictl_sd(TRUE)}
    BY <1>1 DEF Command, Loads, Stores, SetAddrs, Traces, ZeroArgs, Devices, Files, run_load, run_store
  <2> QED BY <2>1, <2>2
<1>2. CASE c \in (SetAddrs \ {"breakpoint -w"}) \cup {"boot"}
  <2>1. \A s \in {berictl_setreg(TRUE), berictl_breakpoint(TRUE), berictl_setpc(TRUE),
                  berictl_setthread(TRUE)} : A(s)
    BY CommandsSteady
  <2>2. Command(c, TRUE) \in {berictl_setreg(TRUE), berictl_breakpoint(TRUE), berictl_setpc(TRUE),
                  berictl_setthread(TRUE)}
    BY <1>2 DEF Command, Loads, Stores, SetAddrs, Devices, Traces, ZeroArgs, Files, run_setaddr, run_boot
  <2> QED BY <2>1, <2>2
<1>3. CASE c \in {"c0regs", "c2regs", "regs", "pc", "settracefilter", "step", "loadbin"}
  <2>1. \A s \in {berictl_c0regs(TRUE), berictl_c2regs(TRUE), berictl_regs(TRUE), berictl_pc(TRUE),
                  berictl_set_trace_filter(TRUE), berictl_step(TRUE), berictl_loadbin(TRUE)} : A(s)
    BY CommandsSteady
  <2>2. Command(c, TRUE) \in {berictl_c0regs(TRUE), berictl_c2regs(TRUE), berictl_regs(TRUE),
                  berictl_pc(TRUE), berictl_set_trace_filter(TRUE), berictl_step(TRUE),
                  berictl_loadbin(TRUE)}
    BY <1>3 DEF Command, Loads, Stores, SetAddrs, Traces, ZeroArgs, Devices, Files, run_zeroargs,
                run_loadfile
  <2> QED BY <2>1, <2>2
<1>4. CASE c \in {"drain", "reset", "breakontracefilter", "memtrace", "streamtrace usage", "loadbin usage"}
                  \cup Library
  <2>1. \A s \in {berictl_drain(TRUE), berictl_reset(TRUE), break_on_trace_filter(TRUE),
                  berictl_mem_trace(TRUE), Usage, invalidateicache(TRUE), pcc_to_cr26(TRUE), get_reg(TRUE),
                  get_c0reg(TRUE), get_c2reg_pipelined_send(TRUE) \o get_reg_pipelined_response(TRUE),
                  nop_pipelined_send(TRUE) \o nop_pipelined_response(TRUE)} : A(s)
    BY CommandsRefused
  <2>2. Command(c, TRUE) \in {berictl_drain(TRUE), berictl_reset(TRUE), break_on_trace_filter(TRUE),
                  berictl_mem_trace(TRUE), Usage, invalidateicache(TRUE), pcc_to_cr26(TRUE), get_reg(TRUE),
                  get_c0reg(TRUE), get_c2reg_pipelined_send(TRUE) \o get_reg_pipelined_response(TRUE),
                  nop_pipelined_send(TRUE) \o nop_pipelined_response(TRUE)}
    BY <1>4 DEF Command, Loads, Stores, SetAddrs, Traces, ZeroArgs, Devices, Files, Library,
                run_zeroargs, run_loadfile, run_trace
  <2> QED BY <2>1, <2>2
<1>5. \/ c \in Loads \cup Stores
      \/ c \in (SetAddrs \ {"breakpoint -w"}) \cup {"boot"}
      \/ c \in {"c0regs", "c2regs", "regs", "pc", "settracefilter", "step", "loadbin"}
      \/ c \in {"drain", "reset", "breakontracefilter", "memtrace", "streamtrace usage", "loadbin usage"}
                  \cup Library
  BY DEF Names, ChangesState, Loads, Stores, SetAddrs, Traces, ZeroArgs, Devices, Files, Library
<1> QED BY <1>1, <1>2, <1>3, <1>4, <1>5

-----------------------------------------------------------------------------
(* The place that a session is at.                                         *)

(* The types of a place that the session is at.                            *)
LEMMA HereIs ==
  ASSUME NEW o, NEW st, Here(o, st)
  PROVE  /\ o \in Known /\ st \in States /\ cached \in Known /\ saved \in Seq(0 .. 255)
         /\ handlers \in Seq(Frames) /\ prog \in Seq(Steps) /\ ret \in Outcomes
         /\ Aims(was, Way(was), o, st, cached, saved, handlers, prog, ret)
<1>1. Place(o, st, cached, saved, handlers, prog, ret) \in Way(was)
  BY DEF Here
<1>2. /\ Place(o, st, cached, saved, handlers, prog, ret) \in Places
      /\ Aims(was, Way(was), o, st, cached, saved, handlers, prog, ret)
  BY <1>1, WayIs, Zenon
<1>3. /\ o \in Known /\ st \in States /\ cached \in Known /\ saved \in Seq(0 .. 255)
      /\ handlers \in Seq(Frames) /\ prog \in Seq(Steps) /\ ret \in Outcomes
  <2>1. LET z == Place(o, st, cached, saved, handlers, prog, ret) IN
        z \in Places <=> /\ o \in Known /\ st \in States /\ cached \in Known /\ saved \in Seq(0 .. 255)
                         /\ handlers \in Seq(Frames) /\ prog \in Seq(Steps) /\ ret \in Outcomes
    BY PlaceIs, ZenonT(60)
  <2> QED BY <1>2, <2>1, Zenon
<1> QED BY <1>2, <1>3

(* The next step is one that goes on from the place.                       *)
LEMMA HereGoes ==
  ASSUME NEW o, NEW st, Here(o, st), prog # << >>
  PROVE  \/ /\ o = UNKNOWN /\ Unchanging(st)
            /\ Head(prog).do \notin {"readSet", "readPause", "popTrace", "wait", "caught"}
            /\ Goes(Way(was), st, cached, saved, handlers, Head(prog), Tail(prog), prog, ret)
         \/ /\ o # UNKNOWN /\ (Changing(o, st) \/ Changed(o, st))
            /\ Head(prog).do \in {"readSet", "readPause"}
            /\ Learns(Way(was), o, st, saved, handlers, Head(prog), Tail(prog), ret)
<1>1. Aims(was, Way(was), o, st, cached, saved, handlers, prog, ret)
  BY HereIs, Zenon
<1>2. Settled(o, st)
  BY DEF Here
<1>3. CASE o = UNKNOWN
  <2>1. Goes(Way(was), st, cached, saved, handlers, Head(prog), Tail(prog), prog, ret)
    BY <1>1, <1>3, Zenon DEF Aims
  <2>2. Head(prog).do \notin {"readSet", "readPause", "popTrace", "wait", "caught"}
    BY <2>1 DEF Goes
  <2> QED BY <1>2, <1>3, <2>1, <2>2, Zenon DEF Settled
<1>4. CASE o # UNKNOWN
  <2>1. Learns(Way(was), o, st, saved, handlers, Head(prog), Tail(prog), ret)
    BY <1>1, <1>4, Zenon DEF Aims
  <2>2. Head(prog).do \in {"readSet", "readPause"}
    BY <2>1 DEF Learns
  <2> QED BY <1>2, <1>4, <2>1, <2>2, Zenon DEF Settled
<1> QED BY <1>3, <1>4

(* A step after which nothing else is under way.                           *)
LEMMA HereStays ==
  ASSUME NEW st, Unchanging(st), UNCHANGED <<net, out, unit, was>>,
         Place(UNKNOWN, st, cached', saved', handlers', prog', ret') \in Way(was)
  PROVE  Here(UNKNOWN, st)'
<1>1. Unchanging(st)'
  BY DEF Unchanging
<1>2. was' = was
  OBVIOUS
<1> QED BY <1>1, <1>2 DEF Here, Settled

(* A failure.                                                              *)
LEMMA FailHere ==
  ASSUME NEW st, NEW e, Fail(e), handlers \in Seq(Frames),
         FailedAt(e, st, cached, handlers) \in Way(was)
  PROVE  Place(UNKNOWN, st, cached', saved', handlers', prog', ret') \in Way(was)
<1>1. /\ ret' = e /\ prog' = Handler.rest /\ saved' = Handler.saved /\ handlers' = handlers
      /\ cached' = cached
  BY DEF Fail
<1>2. CASE handlers = << >>
  <2>1. prog' = << >> /\ saved' = << >>
    BY <1>1, <1>2 DEF Handler
  <2>2. Place(UNKNOWN, st, cached, << >>, handlers, << >>, e) \in Way(was)
    BY <1>2 DEF FailedAt
  <2> QED BY <1>1, <2>1, <2>2
<1>3. CASE handlers # << >>
  <2>1. Handler = Head(handlers) /\ Head(handlers) = handlers[1]
    BY <1>3, HeadTailProperties DEF Handler
  <2>2. Place(UNKNOWN, st, cached, handlers[1].saved, handlers, handlers[1].rest, e) \in Way(was)
    BY <1>3 DEF FailedAt
  <2> QED BY <1>1, <2>1, <2>2
<1> QED BY <1>2, <1>3

-----------------------------------------------------------------------------
(* The steps of the host that neither send nor read.                       *)
LEMMA QuietHere ==
  ASSUME IInv, QuietStep, beri2, NEW o, NEW st, Here(o, st)
  PROVE  Here(UNKNOWN, st)'
<1> DEFINE s == Head(prog)
           t == Tail(prog)
           W == Way(was)
<1>1. /\ open /\ prog # << >> /\ UNCHANGED <<net, out, unit, was>>
      /\ s.do \in {"needPaused", "usage", "set", "pause", "restore", "try", "caught", "excepted",
                   "ignored", "wait"}
  BY DEF QuietStep, needPaused, usage, beri_debug_client_set_pipeline_state, Beri2Pause, Beri2Resume,
         attempt, forget, breakpoint_check, At, stepUnchanged
<1>2. /\ o = UNKNOWN /\ Unchanging(st) /\ s.do \notin {"popTrace", "wait", "caught"}
      /\ Goes(W, st, cached, saved, handlers, s, t, prog, ret)
  BY <1>1, HereGoes
<1>3. handlers \in Seq(Frames)
  BY HereIs, Zenon
<1> SUFFICES Place(UNKNOWN, st, cached', saved', handlers', prog', ret') \in W
  BY <1>1, <1>2, HereStays, Zenon
<1>4. CASE needPaused
  <2>1. s.do = "needPaused"
    BY <1>4 DEF needPaused, At
  <2>2. IF cached = PAUSED THEN Place(UNKNOWN, st, cached, saved, handlers, t, ret) \in W
                           ELSE FailedAt("NOTPAUSED", st, cached, handlers) \in W
    BY <1>2, <2>1 DEF Goes
  <2>3. CASE cached = PAUSED
    <3>1. prog' = t /\ UNCHANGED <<handlers, ret, cached, saved>>
      BY <1>4, <2>3 DEF needPaused, Continue
    <3> QED BY <2>2, <2>3, <3>1
  <2>4. CASE cached # PAUSED
    <3>1. Fail("NOTPAUSED")
      BY <1>4, <2>4 DEF needPaused
    <3> QED BY <1>3, <2>2, <2>4, <3>1, FailHere
  <2> QED BY <2>3, <2>4
<1>5. CASE usage
  <2>1. s.do = "usage" /\ Fail("USAGE_ERROR")
    BY <1>5 DEF usage, At
  <2>2. FailedAt("USAGE_ERROR", st, cached, handlers) \in W
    BY <1>2, <2>1 DEF Goes
  <2> QED BY <1>3, <2>1, <2>2, FailHere
<1>6. CASE beri_debug_client_set_pipeline_state
  <2>1. /\ s.do = "set" /\ UNCHANGED <<handlers, ret, cached, saved>>
        /\ prog' = (IF cached # s.op THEN ToState("readSet", s.op) ELSE << >>) \o t
    BY <1>6 DEF beri_debug_client_set_pipeline_state, At
  <2>2. Place(UNKNOWN, st, cached, saved, handlers,
              (IF cached # s.op THEN ToState("readSet", s.op) ELSE << >>) \o t, ret) \in W
    BY <1>2, <2>1 DEF Goes
  <2> HIDE DEF s, t, W
  <2> QED BY <2>1, <2>2
<1>7. CASE Beri2Pause
  <2>1. /\ s.do = "pause" /\ UNCHANGED <<handlers, ret, cached>>
        /\ IF cached # PAUSED THEN prog' = ToState("readPause", PAUSED) \o t /\ saved' = saved
                              ELSE prog' = t /\ saved' = <<PAUSED>> \o saved
    BY <1>7 DEF Beri2Pause, At, Continue
  <2>2. IF cached # PAUSED
        THEN Place(UNKNOWN, st, cached, saved, handlers, ToState("readPause", PAUSED) \o t, ret) \in W
        ELSE Place(UNKNOWN, st, cached, <<PAUSED>> \o saved, handlers, t, ret) \in W
    BY <1>2, <2>1 DEF Goes
  <2> HIDE DEF s, t, W
  <2> QED BY <2>1, <2>2
<1>8. CASE Beri2Resume
  <2>1. /\ s.do = "restore" /\ UNCHANGED <<handlers, ret, cached>>
        /\ prog' = SetAgain(Head(saved)) \o t /\ saved' = Tail(saved)
    BY <1>8 DEF Beri2Resume, At
  <2>2. Place(UNKNOWN, st, cached, Tail(saved), handlers, SetAgain(Head(saved)) \o t, ret) \in W
    BY <1>2, <2>1 DEF Goes
  <2> HIDE DEF s, t, W
  <2> QED BY <2>1, <2>2
<1>9. CASE attempt
  <2>1. /\ s.do = "try" /\ UNCHANGED <<ret, cached, saved>> /\ prog' = t
        /\ handlers' = <<[rest |-> SubSeq(prog, s.op + 2, Len(prog)), saved |-> saved, ret |-> ret]>>
                       \o handlers
    BY <1>9 DEF attempt, At, Continue
  <2>2. Place(UNKNOWN, st, cached, saved,
              <<[rest |-> SubSeq(prog, s.op + 2, Len(prog)), saved |-> saved, ret |-> ret]>> \o handlers,
              t, ret) \in W
    BY <1>2, <2>1 DEF Goes
  <2> HIDE DEF s, t, W
  <2> QED BY <2>1, <2>2
<1>10. CASE forget
  <2>1. /\ s.do \in {"excepted", "ignored"} /\ UNCHANGED <<cached, saved>> /\ prog' = t
        /\ handlers' = Tail(handlers)
    BY <1>2, <1>10 DEF forget, At, Continue
  <2>2. CASE s.do = "excepted"
    <3>1. ret' = IF ret = "EXCEPTION" THEN "SUCCESS" ELSE ret
      BY <1>10, <2>2 DEF forget, At
    <3>2. Place(UNKNOWN, st, cached, saved, Tail(handlers), t,
                IF ret = "EXCEPTION" THEN "SUCCESS" ELSE ret) \in W
      BY <1>2, <2>2 DEF Goes
    <3> HIDE DEF s, t, W
    <3> QED BY <2>1, <3>1, <3>2
  <2>3. CASE s.do = "ignored"
    <3>1. ret' = Head(handlers).ret
      BY <1>1, <1>10, <2>3 DEF forget, At
    <3>2. Place(UNKNOWN, st, cached, saved, Tail(handlers), t, Head(handlers).ret) \in W
      BY <1>2, <2>3 DEF Goes
    <3> HIDE DEF s, t, W
    <3> QED BY <2>1, <3>1, <3>2
  <2> QED BY <2>1, <2>2, <2>3
<1>11. ~breakpoint_check
  BY <1>2 DEF breakpoint_check, At
<1> QED BY <1>4, <1>5, <1>6, <1>7, <1>8, <1>9, <1>10, <1>11 DEF QuietStep

(* Those that read.                                                        *)
LEMMA ReadHere ==
  ASSUME IInv, ReadStep, beri2, ~sloppy', NEW o, NEW st, Here(o, st)
  PROVE  Here(UNKNOWN, st)'
<1> DEFINE s == Head(prog)
           t == Tail(prog)
           W == Way(was)
<1>1. /\ Reading /\ UNCHANGED <<net, out, unit, was>>
  BY DEF ReadStep, ReadException, ReadInvalid, ReadUnexpected, ReadReply,
         beri_debug_client_breakpoint_fired, readUnchanged
<1>2. open /\ prog # << >> /\ s.do \in {"read", "readSet", "readPause", "popTrace", "wait"}
  BY <1>1 DEF Reading, At
<1>3. handlers \in Seq(Frames) /\ o \in Known /\ st \in States
  BY HereIs, Zenon
<1>4. breakpointFiredOp = 46 /\ exceptionOp = 47 /\ invalidOp = exceptionOp
  BY DEF breakpointFiredOp, exceptionOp, invalidOp
<1>5. ~ReadInvalid
  BY <1>4 DEF ReadInvalid
<1>6. ~ReadUnexpected
  <2>1. ASSUME ReadUnexpected PROVE sloppy' = TRUE
    BY <2>1 DEF ReadUnexpected, Fail, LeavesReplies
  <2> QED BY <2>1
<1>7. CASE o = UNKNOWN
  <2>1. s.do = "read" /\ Unchanging(st) /\ Goes(W, st, cached, saved, handlers, s, t, prog, ret)
    BY <1>2, <1>7, HereGoes
  <2>2. /\ Place(UNKNOWN, st, cached, saved, handlers, t, ret) \in W
        /\ FailedAt("EXCEPTION", st, cached, handlers) \in W
    BY <2>1 DEF Goes
  <2> SUFFICES Place(UNKNOWN, st, cached', saved', handlers', prog', ret') \in W
    BY <1>1, <2>1, HereStays, Zenon
  <2>3. CASE ReadException
    <3>1. Fail("EXCEPTION")
      BY <2>3 DEF ReadException
    <3> QED BY <1>3, <2>2, <3>1, FailHere
  <2>4. CASE ReadReply
    <3>1. /\ prog' = t /\ UNCHANGED <<handlers, ret, cached, saved>>
      BY <2>1, <2>4 DEF ReadReply, At
    <3> QED BY <2>2, <3>1
  <2>5. CASE beri_debug_client_breakpoint_fired
    <3>1. UNCHANGED <<prog, handlers, ret, cached, saved>>
      BY <2>5 DEF beri_debug_client_breakpoint_fired
    <3>2. Place(UNKNOWN, st, cached, saved, handlers, prog, ret) \in W
      BY <1>7 DEF Here
    <3> HIDE DEF W
    <3> QED BY <3>1, <3>2
  <2> QED BY <1>5, <1>6, <2>3, <2>4, <2>5 DEF ReadStep
<1>8. CASE o # UNKNOWN
  <2>1. /\ s.do \in {"readSet", "readPause"} /\ Learns(W, o, st, saved, handlers, s, t, ret)
        /\ Changing(o, st) \/ Changed(o, st)
    BY <1>2, <1>8, HereGoes
  <2>2. Reported \/ (Changed(o, st) /\ Answered(o))
    BY <2>1 DEF Changing, Changed
  <2>3. back # << >>
    <3>1. back \in Seq(Bytes)
      BY DEF IInv, Types
    <3> SUFFICES ASSUME back = << >> PROVE FALSE
      OBVIOUS
    <3>2. Len(back) = 0
      BY EmptySeq
    <3>3. Len(back) >= 1
      <4>1. ASSUME ReadReply PROVE Len(back) >= 1
        <5>1. Len(back) >= 2 + Head(prog).arg
          BY <4>1 DEF ReadReply, Arrived, Length
        <5>2. Head(prog).arg = 1
          <6>1. PICK q \in Seq(Nat), k \in BOOLEAN :
              StepFits(beri2, cmd, Good(beri2, cmd), q, k, Len(saved), handlers,
                          Head(prog), Tail(prog), prog)
            BY <1>2, StepIs, Zenon
          <6> QED BY <2>1, <6>1 DEF StepFits, ReadSetFits, ReadPauseFits
        <5> QED BY <3>2, <5>1, <5>2
      <4> QED
        BY <1>5, <1>6, <3>2, <4>1 DEF ReadStep, ReadException, beri_debug_client_breakpoint_fired, Arrived
    <3> QED BY <3>2, <3>3
  <2>4. ~ReadException
    BY <1>4, <2>2, <2>3 DEF ReadException, Reported, Answered
  <2>5. ~beri_debug_client_breakpoint_fired
    BY <1>4, <2>2, <2>3 DEF beri_debug_client_breakpoint_fired, Reported, Answered, IsReport
  <2>6. ReadReply
    BY <1>5, <1>6, <2>4, <2>5 DEF ReadStep
  <2>7. back[1] # 46
    BY <1>4, <2>6 DEF ReadReply, IsReply, IsReport, At
  <2>8. Changed(o, st) /\ back[3] = o
    BY <2>2, <2>3, <2>7 DEF Reported, Answered
  <2>9. prog' = t /\ UNCHANGED <<handlers, ret>>
    BY <2>1, <2>6 DEF ReadReply, At
  <2>10. Place(UNKNOWN, st, cached', saved', handlers', prog', ret') \in W
    <3>1. CASE s.do = "readSet"
      <4>1. cached' = s.op \div 2 /\ saved' = saved
        BY <1>2, <2>6, <3>1 DEF ReadReply, At
      <4>2. s.op \div 2 = st /\ Place(UNKNOWN, st, st, saved, handlers, t, ret) \in W
        BY <2>1, <3>1 DEF Learns
      <4> HIDE DEF s, t, W
      <4> QED BY <2>9, <4>1, <4>2
    <3>2. CASE s.do = "readPause"
      <4>1. cached' = PAUSED /\ saved' = <<back[3]>> \o saved
        BY <1>2, <2>6, <3>2 DEF ReadReply, At
      <4>2. Place(UNKNOWN, st, PAUSED, <<o>> \o saved, handlers, t, ret) \in W
        BY <2>1, <3>2 DEF Learns
      <4> HIDE DEF s, t, W
      <4> QED BY <2>8, <2>9, <4>1, <4>2
    <3> QED BY <2>1, <3>1, <3>2
  <2>11. Unchanging(st)
    <3>1. Len(net \o out) = 0
      BY <2>8, EmptySeq DEF Changed
    <3> QED BY <2>8, <3>1 DEF Unchanging, Changed
  <2> QED BY <1>1, <2>10, <2>11, HereStays, Zenon
<1> QED BY <1>7, <1>8

(* A report in front stays there when more arrives.                        *)
LEMMA ReportsInFront ==
  ASSUME NEW x, ReportsOnly(TRUE, x), x # << >>
  PROVE  Len(x) >= 2 /\ x[1] = 46 /\ x[2] = 9
<1> DEFINE R == ReportOf(TRUE)
<1>1. R \in Seq(Bytes) /\ Len(R) = 11 /\ R[1] = 46 /\ R[2] = 9
  BY ReportType
<1>2. PICK n \in Nat : x = Repeated(n, R)
  BY DEF ReportsOnly
<1> HIDE DEF R
<1>3. n # 0
  BY <1>1, <1>2, RepeatedLast
<1>4. n - 1 \in Nat /\ (n - 1) + 1 = n
  BY <1>3
<1>5. Repeated((n - 1) + 1, R) = R \o Repeated(n - 1, R) /\ Repeated(n - 1, R) \in Seq(Bytes)
  BY <1>1, <1>4, RepeatedFirst, RepeatedLast
<1> DEFINE y == Repeated(n - 1, R)
<1>6. x = R \o y /\ y \in Seq(Bytes)
  BY <1>2, <1>4, <1>5
<1> HIDE DEF y
<1>7. Len(x) = Len(R) + Len(y) /\ \A i \in 1 .. Len(R) : x[i] = R[i]
  BY <1>1, <1>6, Fronted, ZenonT(60)
<1>8. 1 \in 1 .. Len(R) /\ 2 \in 1 .. Len(R) /\ Len(y) \in Nat
  BY <1>1, <1>6, LenProperties
<1> QED BY <1>1, <1>7, <1>8

(* A BERI2 owes a reply for every request.                                 *)
LEMMA OpsOwe == \A op \in Ops(TRUE) : Owes(TRUE, op) \in Seq(Nat) /\ Owes(TRUE, op) # << >>
<1> SUFFICES ASSUME NEW op \in Ops(TRUE) PROVE Owes(TRUE, op) \in Seq(Nat) /\ Owes(TRUE, op) # << >>
  OBVIOUS
<1>1. op \in Nat /\ op # RESET
  BY DEF Ops
<1>2. Owes(TRUE, op) = <<op, Streamed>> \/ Owes(TRUE, op) = <<op>>
  BY <1>1, Zenon DEF Owes
<1>3. <<op, Streamed>> \in Seq(Nat) /\ <<op>> \in Seq(Nat) /\ <<op, Streamed>> # << >> /\ <<op>> # << >>
  BY <1>1 DEF Streamed
<1> QED BY <1>2, <1>3, Zenon

(* When a BERI2 owes nothing, nothing is under way.                        *)
LEMMA NothingUnderWay ==
  ASSUME IInv, beri2, NEW t \in Seq(Nat), NEW u \in Known, Flows(<< >>, t, u)
  PROVE  net \o out = << >> /\ unit.state # RUNSTREAMING /\ Reported
<1>1. Types /\ beri2 = TRUE /\ (unit.lost => ~beri2)
  BY DEF IInv, Types, Shape
<1>2. Tokens(beri2, net \o out) = << >> /\ Mode = "idle" /\ ReportsOnly(beri2, back)
  BY <1>1, NothingOwed
<1>3. net \o out \in Seq(Reqs(beri2))
  BY <1>1, FlowTypes
<1> DEFINE v == net \o out
<1>4. v = << >>
  <2>1. v \in Seq(Reqs(TRUE)) /\ Tokens(TRUE, v) = << >>
    BY <1>1, <1>2, <1>3
  <2> HIDE DEF v
  <2> SUFFICES ASSUME v # << >> PROVE FALSE
    OBVIOUS
  <2>2. 1 \in 1 .. Len(v)
    BY <2>1, EmptySeq
  <2>3. v[1].op \in Ops(TRUE)
    <3> DEFINE R == Reqs(TRUE)
    <3>1. v \in Seq(R)
      BY <2>1
    <3> HIDE DEF R
    <3>2. v[1] \in R
      BY <2>2, <3>1
    <3> QED BY <3>2 DEF R, Reqs
  <2>4. PICK a, b \in Seq(Nat) : Tokens(TRUE, v) = a \o (Owes(TRUE, v[1].op) \o b)
    BY <2>1, <2>2, TokensHas
  <2>5. Owes(TRUE, v[1].op) \in Seq(Nat) /\ Owes(TRUE, v[1].op) # << >>
    BY <2>3, OpsOwe
  <2> DEFINE y == Owes(TRUE, v[1].op)
  <2>6. y \in Seq(Nat) /\ y # << >> /\ << >> = a \o (y \o b)
    BY <2>1, <2>4, <2>5
  <2> HIDE DEF y
  <2>7. y \o b \in Seq(Nat)
    BY <2>6, ConcatProperties
  <2> DEFINE w == y \o b
  <2>8. w = << >>
    <3>1. w \in Seq(Nat) /\ a \o w = << >>
      BY <2>6, <2>7
    <3> HIDE DEF w
    <3> QED BY <3>1, ConcatEqualIffEmpty
  <2> QED BY <2>6, <2>8, ConcatEqualIffEmpty
<1>5. Reported
  BY <1>1, <1>2, ReportsInFront DEF Reported
<1> QED BY <1>1, <1>2, <1>4, <1>5 DEF Mode

(* A change of the state is written when nothing is under way.             *)
LEMMA ChangeAlone ==
  ASSUME IInv, ~sloppy, open, prog # << >>, beri2, Head(prog).do = "write",
         Tail(prog) # << >>, Head(Tail(prog)).do \in {"readSet", "readPause"}
  PROVE  net \o out = << >> /\ Reported
<1> DEFINE s == Head(prog)
           t == Tail(prog)
           G == Good(beri2, cmd)
           d == Len(saved)
<1>1. PICK q \in Seq(Nat), k \in BOOLEAN :
        /\ StepFits(beri2, cmd, G, q, k, d, handlers, s, t, prog)
        /\ ~sloppy => \E w \in Seq(Nat), u \in Known : Flows(q, w, u)
  BY StepIs, Zenon
<1>2. WriteFits(beri2, G, q, k, d, handlers, s, t)
  BY <1>1 DEF StepFits
<1> DEFINE z == q \o Owes(beri2, s.op)
<1>3. <<z, k, d, handlers, t>> \in G /\ Owes(beri2, s.op) \in Seq(Nat)
      /\ Owes(beri2, s.op) # << >>
  <2>1. s.op \in Ops(beri2) /\ <<z, k, d, handlers, t>> \in G
    BY <1>2 DEF WriteFits
  <2>2. beri2 = TRUE
    BY DEF IInv, Types
  <2> QED BY <2>1, <2>2, OpsOwe
<1>4. \E j \in BOOLEAN : StepFits(beri2, cmd, G, z, j, d, handlers, Head(t), Tail(t), t)
  <2>1. /\ Fits(beri2, cmd, G, z, k, d, handlers, t)
        /\ (<<z, FALSE, d, handlers, t>> \in G => Fits(beri2, cmd, G, z, FALSE, d, handlers, t))
    BY <1>3, GoodIs, Zenon
  <2> HIDE DEF z, t, G, d
  <2>2. t # << >>
    BY DEF t
  <2> QED BY <2>1, <2>2 DEF Fits
<1>5. PICK y : z = <<y>>
  BY <1>4 DEF StepFits, ReadSetFits, ReadPauseFits
<1>6. q = << >>
  <2> DEFINE x == Owes(beri2, s.op)
  <2>1. x \in Seq(Nat) /\ x # << >> /\ q \o x = <<y>>
    BY <1>3, <1>5
  <2> HIDE DEF x
  <2>2. Len(q) + Len(x) = 1 /\ Len(x) # 0
    <3>1. Len(q \o x) = Len(q) + Len(x) /\ Len(<<y>>) = 1
      BY <2>1, ConcatProperties
    <3> QED BY <2>1, <3>1, EmptySeq
  <2>3. Len(q) = 0
    BY <2>1, <2>2, LenProperties
  <2> QED BY <2>3, EmptySeq
<1>7. PICK w \in Seq(Nat), u \in Known : Flows(<< >>, w, u)
  BY <1>1, <1>6
<1> QED BY <1>7, NothingUnderWay

(* A request is written: if it changes the state, its reply is waited for. *)
LEMMA WriteHere ==
  ASSUME IInv, beri_debug_client_packet_write, beri2, ~sloppy, NEW o, NEW st, Here(o, st)
  PROVE  \E p, z : Here(p, z)'
<1> DEFINE s == Head(prog)
           t == Tail(prog)
           W == Way(was)
           r == [op |-> s.op, arg |-> s.arg]
<1>1. /\ open /\ prog # << >> /\ s.do = "write" /\ prog' = t
      /\ UNCHANGED <<handlers, ret, cached, saved, unit, was, back>>
  BY DEF beri_debug_client_packet_write, At, Continue
<1>2. o = UNKNOWN /\ Unchanging(st) /\ Goes(W, st, cached, saved, handlers, s, t, prog, ret)
  BY <1>1, HereGoes
<1>3. prog \in Seq(Steps) /\ st \in States
  BY HereIs, Zenon
<1>4. s.op \in Ops(beri2) /\ s.arg \in {0, 1}
  <2>1. PICK q \in Seq(Nat), k \in BOOLEAN :
          StepFits(beri2, cmd, Good(beri2, cmd), q, k, Len(saved), handlers, s, t, prog)
    BY <1>1, StepIs, Zenon
  <2> QED BY <1>1, <2>1 DEF StepFits, WriteFits
<1>5. net' \o out' = Append(net \o out, r)
  <2>1. Types
    BY DEF IInv
  <2> QED BY <1>1, <1>3, <1>4, <2>1, PacketWritten
<1>6. CASE s.op \notin SetOps \cup {RESUMESTREAMING}
  <2>1. Place(UNKNOWN, st, cached, saved, handlers, t, ret) \in W
    BY <1>1, <1>2, <1>6 DEF Goes
  <2>2. Unchanging(st)'
    <3> DEFINE v == net \o out
               R == Reqs(beri2)
    <3>1. v \in Seq(R) /\ r \in R
      BY <1>4, FlowTypes DEF IInv, Reqs
    <3>2. unit.state = st /\ \A i \in 1 .. Len(v) : v[i].op \notin SetOps \cup {RESUMESTREAMING}
      BY <1>2 DEF Unchanging
    <3>3. r.op \notin SetOps \cup {RESUMESTREAMING}
      BY <1>6
    <3> HIDE DEF v, r, R
    <3>4. \A i \in 1 .. Len(Append(v, r)) : Append(v, r)[i].op \notin SetOps \cup {RESUMESTREAMING}
      <4>1. /\ Len(Append(v, r)) = Len(v) + 1 /\ Len(v) \in Nat
            /\ \A i \in 1 .. Len(v) : Append(v, r)[i] = v[i]
            /\ Append(v, r)[Len(v) + 1] = r
        BY <3>1, AppendProperties, LenProperties
      <4> SUFFICES ASSUME NEW i \in 1 .. Len(v) + 1
                   PROVE  Append(v, r)[i].op \notin SetOps \cup {RESUMESTREAMING}
        BY <4>1
      <4>2. CASE i = Len(v) + 1
        BY <3>3, <4>1, <4>2
      <4>3. CASE i # Len(v) + 1
        <5>1. i \in 1 .. Len(v)
          BY <4>1, <4>3
        <5> QED BY <3>2, <4>1, <5>1
      <4> QED BY <4>2, <4>3
    <3>5. net' \o out' = Append(v, r)
      BY <1>5 DEF v
    <3> QED BY <1>1, <3>2, <3>4, <3>5 DEF Unchanging
  <2>3. Here(UNKNOWN, st)'
    <3> HIDE DEF t, W
    <3>1. was' = was /\ Place(UNKNOWN, st, cached', saved', handlers', prog', ret') \in W
      BY <1>1, <2>1
    <3> QED BY <2>2, <3>1 DEF Here, Settled, W
  <2> QED BY <2>3
<1>7. CASE s.op \in SetOps \cup {RESUMESTREAMING}
  <2>1. /\ s.op \in SetOps /\ t # << >> /\ Head(t).do \in {"readSet", "readPause"}
        /\ Place(st, s.op \div 2, cached, saved, handlers, t, ret) \in W
    BY <1>1, <1>2, <1>7 DEF Goes
  <2>2. net \o out = << >> /\ Reported
    BY <1>1, <2>1, ChangeAlone
  <2>3. net' \o out' = <<r>>
    <3> HIDE DEF r
    <3> QED BY <1>5, <2>2
  <2>4. PICK z, x, a : z = x \div 2 /\ x = s.op /\ a = s.arg
    OBVIOUS
  <2>5. Changing(st, z)'
    <3>1. Reported' /\ unit'.state = st
      BY <1>1, <1>2, <2>2 DEF Reported, Unchanging
    <3>2. x \in SetOps /\ a \in {0, 1} /\ net' \o out' = <<[op |-> x, arg |-> a]>>
      BY <1>4, <2>1, <2>3, <2>4
    <3> QED BY <2>4, <3>1, <3>2, Zenon DEF Changing
  <2>6. st # UNKNOWN
    BY <1>3, StateFacts
  <2>7. Here(st, z)'
    <3>1. Place(st, z, cached, saved, handlers, t, ret) \in W
      BY <2>1, <2>4
    <3> HIDE DEF t, W
    <3>2. was' = was /\ Place(st, z, cached', saved', handlers', prog', ret') \in W
      BY <1>1, <3>1
    <3>3. Settled(st, z)'
      BY <2>5, <2>6 DEF Settled
    <3> QED BY <3>2, <3>3 DEF Here, W
  <2> QED BY <2>7
<1> QED BY <1>6, <1>7

(* The out ring is emptied into the stream.                                *)
LEMMA FlushHere ==
  ASSUME IInv, circular_buffer_flush, NEW o, NEW st, Here(o, st)
  PROVE  Here(o, st)'
<1>1. UNCHANGED <<handlers, prog, ret, cached, saved, back, unit, was>> /\ net' = net \o out /\ out' = << >>
  BY DEF circular_buffer_flush, hostVars
<1>2. net' \o out' = net \o out
  <2> DEFINE R == Reqs(beri2)
             v == net \o out
  <2>1. v \in Seq(R)
    BY FlowTypes DEF IInv
  <2>2. net' = v
    BY <1>1
  <2> HIDE DEF R, v
  <2>3. net' \o out' = v
    BY <1>1, <2>1, <2>2, ConcatEmptySeq
  <2> QED BY <2>3 DEF v
<1>3. Unchanging(st) => Unchanging(st)'
  BY <1>1, <1>2 DEF Unchanging
<1>4. Changing(o, st) => Changing(o, st)'
  BY <1>1, <1>2 DEF Changing, Reported
<1>5. Changed(o, st) => Changed(o, st)'
  BY <1>1, <1>2 DEF Changed, Reported, Answered
<1> QED BY <1>1, <1>3, <1>4, <1>5 DEF Here, Settled

(* A drain forgets requests, none of which changes the state.              *)
LEMMA DrainHere ==
  ASSUME IInv, beri_debug_client_drain, NEW o, NEW st, Here(o, st)
  PROVE  Here(UNKNOWN, st)'
<1> DEFINE s == Head(prog)
           t == Tail(prog)
           W == Way(was)
<1>1. /\ open /\ prog # << >> /\ s.do = "drain" /\ out' = << >> /\ net' = net /\ prog' = t
      /\ UNCHANGED <<handlers, ret, cached, saved, unit, was>>
  BY DEF beri_debug_client_drain, At, Continue
<1>2. o = UNKNOWN /\ Unchanging(st) /\ Goes(W, st, cached, saved, handlers, s, t, prog, ret)
  BY <1>1, HereGoes
<1>3. Place(UNKNOWN, st, cached, saved, handlers, t, ret) \in W
  BY <1>1, <1>2 DEF Goes
<1>4. Unchanging(st)'
  <2> DEFINE R == Reqs(beri2)
  <2>1. net \in Seq(R) /\ out \in Seq(R)
    BY DEF IInv, Types
  <2> HIDE DEF R
  <2>2. net' \o out' = net
    BY <1>1, <2>1, ConcatEmptySeq
  <2>3. \A i \in 1 .. Len(net) : i \in 1 .. Len(net \o out) /\ (net \o out)[i] = net[i]
    <3>1. /\ Len(net \o out) = Len(net) + Len(out) /\ Len(net) \in Nat /\ Len(out) \in Nat
          /\ \A i \in 1 .. Len(net) + Len(out) :
               (net \o out)[i] = IF i <= Len(net) THEN net[i] ELSE out[i - Len(net)]
      BY <2>1, ConcatProperties, LenProperties
    <3> QED BY <3>1
  <2>4. \A i \in 1 .. Len(net) : net[i].op \notin SetOps \cup {RESUMESTREAMING}
    BY <1>2, <2>3 DEF Unchanging
  <2> QED BY <1>1, <1>2, <2>2, <2>4 DEF Unchanging
<1> HIDE DEF t, W
<1>5. was' = was /\ Place(UNKNOWN, st, cached', saved', handlers', prog', ret') \in W
  BY <1>1, <1>3
<1> QED BY <1>4, <1>5 DEF Here, Settled, W

-----------------------------------------------------------------------------
(* The steps of the unit.                                                  *)
LEMMA TailInFront ==
  ASSUME NEW R, NEW x \in Seq(R), NEW y \in Seq(R), x # << >>
  PROVE  /\ Len(x \o y) = Len(Tail(x) \o y) + 1 /\ Len(Tail(x) \o y) \in Nat
         /\ \A i \in 1 .. Len(Tail(x) \o y) : (Tail(x) \o y)[i] = (x \o y)[i + 1]
         /\ (x \o y)[1] = x[1]
<1>1. /\ Tail(x) \in Seq(R) /\ Len(Tail(x)) = Len(x) - 1 /\ Len(x) \in Nat /\ Len(x) # 0 /\ Len(y) \in Nat
      /\ \A i \in 1 .. Len(Tail(x)) : Tail(x)[i] = x[i + 1]
  BY HeadTailProperties, LenProperties, EmptySeq
<1> DEFINE t == Tail(x)
<1>2. t \in Seq(R) /\ Len(t) = Len(x) - 1 /\ \A i \in 1 .. Len(t) : t[i] = x[i + 1]
  BY <1>1
<1> HIDE DEF t
<1>3. /\ Len(x \o y) = Len(x) + Len(y) /\ Len(t \o y) = Len(t) + Len(y)
      /\ \A i \in 1 .. Len(x) + Len(y) : (x \o y)[i] = IF i <= Len(x) THEN x[i] ELSE y[i - Len(x)]
      /\ \A i \in 1 .. Len(t) + Len(y) : (t \o y)[i] = IF i <= Len(t) THEN t[i] ELSE y[i - Len(t)]
  BY <1>2, ConcatProperties
<1>4. ASSUME NEW i \in 1 .. Len(t \o y) PROVE (t \o y)[i] = (x \o y)[i + 1]
  <2>1. i \in 1 .. Len(t) + Len(y) /\ i + 1 \in 1 .. Len(x) + Len(y)
    BY <1>1, <1>2, <1>3, <1>4
  <2>2. CASE i <= Len(t)
    <3>1. i \in 1 .. Len(t) /\ i + 1 <= Len(x)
      BY <1>1, <1>2, <2>1, <2>2
    <3>2. (t \o y)[i] = t[i] /\ (x \o y)[i + 1] = x[i + 1] /\ t[i] = x[i + 1]
      BY <1>2, <1>3, <2>1, <2>2, <3>1
    <3> QED BY <3>2
  <2>3. CASE ~(i <= Len(t))
    <3>1. ~(i + 1 <= Len(x)) /\ i - Len(t) = (i + 1) - Len(x)
      BY <1>1, <1>2, <2>1, <2>3
    <3>2. (t \o y)[i] = y[i - Len(t)] /\ (x \o y)[i + 1] = y[(i + 1) - Len(x)]
      BY <1>3, <2>1, <2>3, <3>1
    <3> QED BY <3>1, <3>2
  <2> QED BY <2>2, <2>3
<1>5. (x \o y)[1] = x[1]
  <2>1. 1 \in 1 .. Len(x) + Len(y) /\ 1 <= Len(x)
    BY <1>1
  <2> QED BY <1>3, <2>1
<1> QED BY <1>1, <1>2, <1>3, <1>4, <1>5 DEF t

(* The unit takes the first of all requests under way.                     *)
LEMMA Taken ==
  ASSUME IInv, Take, out' = out
  PROVE  /\ Op \in Ops(beri2) /\ net \o out # << >> /\ (net \o out)[1].op = Op
         /\ Len(net \o out) = Len(net' \o out') + 1 /\ Len(net' \o out') \in Nat
         /\ \A i \in 1 .. Len(net' \o out') : (net' \o out')[i] = (net \o out)[i + 1]
         /\ net' \o out' \in Seq(Reqs(beri2))
<1> DEFINE R == Reqs(beri2)
<1>1. Op \in Ops(beri2) /\ net' \in Seq(R)
  BY TakeTokens DEF IInv
<1>2. net \in Seq(R) /\ out \in Seq(R) /\ net # << >> /\ net' = Tail(net) /\ out' = out
  BY DEF IInv, Types, Take
<1> HIDE DEF R
<1>3. /\ Len(net \o out) = Len(Tail(net) \o out) + 1 /\ Len(Tail(net) \o out) \in Nat
      /\ \A i \in 1 .. Len(Tail(net) \o out) : (Tail(net) \o out)[i] = (net \o out)[i + 1]
      /\ (net \o out)[1] = net[1]
  BY <1>2, TailInFront
<1>4. net' \o out' \in Seq(R)
  BY <1>1, <1>2, ConcatProperties
<1>5. net \o out # << >>
  <2>1. net \o out \in Seq(R)
    BY <1>2, ConcatProperties
  <2> QED BY <1>3, <2>1, EmptySeq
<1> QED BY <1>1, <1>2, <1>3, <1>4, <1>5 DEF Op, R

(* The reply to a change of the state arrives behind at most a report.     *)
LEMMA Replied ==
  ASSUME back \in Seq(Bytes), NEW p \in Seq(Bytes), Len(p) >= 3, p[1] \notin {46, 47}, Reported,
         NEW o, p[3] = o, back' = back \o p
  PROVE  Reported' \/ Answered(o)'
<1>1. /\ Len(back \o p) = Len(back) + Len(p) /\ Len(back) \in Nat /\ Len(p) \in Nat
      /\ \A i \in 1 .. Len(back) : (back \o p)[i] = back[i]
  BY Fronted
<1>2. CASE back = << >>
  <2>1. back' = p
    BY <1>2, ConcatEmptySeq
  <2>2. Answered(o)'
    BY <2>1 DEF Answered
  <2> QED BY <2>2
<1>3. CASE back # << >>
  <2>1. Len(back) >= 2 /\ back[1] = 46 /\ back[2] = 9
    BY <1>3 DEF Reported
  <2>2. 1 \in 1 .. Len(back) /\ 2 \in 1 .. Len(back)
    BY <1>1, <2>1
  <2>3. Len(back') >= 2 /\ back'[1] = 46 /\ back'[2] = 9
    BY <1>1, <2>1, <2>2
  <2> QED BY <2>3 DEF Reported
<1> QED BY <1>2, <1>3

(* It serves the change of the state that was waited for.                  *)
LEMMA ChangeServed ==
  ASSUME IInv, Serve, beri2, NEW o, NEW st, Changing(o, st)
  PROVE  Changed(o, st)'
<1>1. PICK x \in SetOps, a \in {0, 1} :
         net \o out = <<[op |-> x, arg |-> a]>> /\ st = x \div 2 /\ unit.state = o /\ Reported
  BY DEF Changing
<1>2. Take /\ out' = out /\ Types /\ beri2' = beri2
  BY DEF Serve, unitUnchanged, IInv
<1>3. Op = x /\ net' \o out' = << >>
  <2>1. /\ (net \o out)[1].op = Op /\ Len(net \o out) = Len(net' \o out') + 1
        /\ Len(net' \o out') \in Nat /\ net' \o out' \in Seq(Reqs(beri2))
    BY <1>2, Taken
  <2>2. (net \o out)[1].op = x /\ Len(net \o out) = 1
    BY <1>1
  <2>3. Len(net' \o out') = 0
    BY <2>1, <2>2
  <2> DEFINE v == net' \o out'
             R == Reqs(beri2)
  <2>4. v \in Seq(R) /\ Len(v) = 0
    BY <2>1, <2>3
  <2> HIDE DEF v, R
  <2>5. v = << >>
    BY <2>4, EmptySeq
  <2> QED BY <2>1, <2>2, <2>5 DEF v
<1>4. x \in {0, 2, 4} /\ Op \in Ops(beri2)
  BY <1>2, Taken DEF SetOps, PAUSEPIPELINE, RESUMEPIPELINE, RESUMEUNPIPELINED
<1>5. SetsState = {0, 2, 4, 50} /\ NoReply = {}
  BY DEF SetsState, NoReply, PAUSEPIPELINE, RESUMEPIPELINE, RESUMEUNPIPELINED, RESUMESTREAMING
<1>6. NewState = x \div 2
  <2>1. NewState = (CASE Op \in {0, 112} -> 0 [] Op \in {2, 114} -> 1 [] Op \in {4, 117} -> 2 [] OTHER -> 3)
    BY DEF NewState, PAUSEPIPELINE, RESUMEPIPELINE, RESUMEUNPIPELINED, PAUSE_EXECUTION, RESUME_EXECUTION,
           UNPIPELINE_EXECUTION, PAUSED, RUNPIPELINED, RUNUNPIPELINED, RUNSTREAMING
  <2>2. CASE x = 0
    BY <1>3, <2>1, <2>2
  <2>3. CASE x = 2
    BY <1>3, <2>1, <2>3
  <2>4. CASE x = 4
    BY <1>3, <2>1, <2>4
  <2> QED BY <1>4, <2>2, <2>3, <2>4
<1>7. unit'.state = st
  <2>1. unit \in [state : PAUSED .. RUNSTREAMING, breakpoint : BOOLEAN, lost : BOOLEAN]
    BY <1>2 DEF Types
  <2>2. Op \in SetsState
    BY <1>3, <1>4, <1>5
  <2>3. unit'.state = NewState
    BY <2>1, <2>2 DEF Serve
  <2> QED BY <1>1, <1>6, <2>3
<1>8. Reported' \/ Answered(o)'
  <2> DEFINE p == Packet(ReplyOp(Op), ReplyData)
  <2>1. back' = back \o p
    BY <1>5 DEF Serve
  <2>2. ReplyOp(Op) = x + 1 /\ ReplyOp(Op) \in Bytes /\ ReplyOp(Op) \notin {46, 47}
    BY <1>3, <1>4 DEF ReplyOp, Bytes
  <2>3. ReplyData = <<o>>
    <3>1. Op \in {0, 2, 4, 50}
      BY <1>3, <1>4
    <3> DEFINE v == <<unit.state>>
               z1 == Zeros(1)
               z2 == Zeros(2)
               z4 == Zeros(4)
               z8 == Zeros(8)
               z32 == Zeros(32)
    <3>2. ReplyData = CASE Op \in {0, 2, 4, 50} -> v
             [] Op \in {GETPC, GETDOUBLEWORD, GETREGISTER} -> z8
             [] Op = GETWORD       -> z4
             [] Op = GETHALFWORD   -> z2
             [] Op = GETBYTE       -> z1
             [] Op = GETC2REGISTER -> z32
             [] OTHER              -> << >>
      BY <1>5 DEF ReplyData
    <3> HIDE DEF v, z1, z2, z4, z8, z32
    <3>3. ReplyData = v
      BY <3>1, <3>2 DEF GETPC, GETDOUBLEWORD, GETREGISTER, GETWORD, GETHALFWORD, GETBYTE, GETC2REGISTER
    <3> QED BY <1>1, <3>3 DEF v
  <2>4. <<o>> \in Seq(Bytes) /\ Len(<<o>>) = 1 /\ 1 \in Bytes
    <3>1. unit.state \in 0 .. 3
      BY <1>2 DEF Types, PAUSED, RUNSTREAMING
    <3> QED BY <1>1, <3>1 DEF Bytes
  <2> DEFINE d == <<o>>
             n == ReplyOp(Op)
             m == 1
  <2>5. d \in Seq(Bytes) /\ Len(d) = m /\ n \in Bytes /\ p = Packet(n, d) /\ d[1] = o
        /\ m = 1 /\ m \in Bytes
    BY <2>2, <2>3, <2>4
  <2> HIDE DEF d, n, m, p
  <2>6. /\ Packet(n, d) \in Seq(Bytes) /\ Len(Packet(n, d)) = m + 2
        /\ Packet(n, d)[1] = n
        /\ \A i \in 1 .. m : Packet(n, d)[i + 2] = d[i]
    <3>1. d \in Seq(Bytes) /\ Len(d) = m /\ n \in Bytes /\ m \in Bytes
      BY <2>5
    <3>2. Packet(n, d) \in Seq(Bytes) /\ Len(Packet(n, d)) = m + 2 /\ Packet(n, d)[1] = n
      BY <3>1, PacketType
    <3>3. \A i \in 1 .. m : Packet(n, d)[i + 2] = d[i]
      BY <3>1, PacketType
    <3> QED BY <3>2, <3>3
  <2>7. p \in Seq(Bytes) /\ Len(p) >= 3 /\ p[1] \notin {46, 47} /\ p[3] = o
    <3>1. Packet(n, d)[1 + 2] = d[1]
      BY <2>5, <2>6
    <3> QED BY <2>2, <2>5, <2>6, <3>1 DEF n
  <2>8. back \in Seq(Bytes)
    BY <1>2 DEF Types
  <2> QED BY <1>1, <2>1, <2>7, <2>8, Replied
<1> QED BY <1>3, <1>7, <1>8 DEF Changed

(* Whatever the unit serves or refuses.                                    *)
LEMMA UnitHere ==
  ASSUME Unsupported \cap SetOps = {}, IInv, UnitStep, beri2, NEW o, NEW st, Here(o, st)
  PROVE  Here(o, st)'
<1>1. /\ Take /\ UNCHANGED <<beri2, open, handlers, prog, ret, cached, saved, out, was>>
  BY DEF UnitStep, Serve, ServeException, ServeInvalid, ServeReset, LoseStep, unitUnchanged, hostVars
<1>2. /\ Op \in Ops(beri2) /\ net \o out # << >> /\ (net \o out)[1].op = Op
      /\ Len(net \o out) = Len(net' \o out') + 1 /\ Len(net' \o out') \in Nat
      /\ \A i \in 1 .. Len(net' \o out') : (net' \o out')[i] = (net \o out)[i + 1]
  BY <1>1, Taken
<1>3. /\ ~ServeReset /\ ~LoseStep
  <2>1. beri2 = TRUE
    BY DEF IInv, Types
  <2>2. Op # RESET
    BY <1>2, <2>1 DEF Ops
  <2> QED BY <2>2 DEF ServeReset, LoseStep, StepsRunning
<1>4. Serve \/ (unit' = unit /\ Op \notin SetOps)
  <2>1. ServeException => Op \notin SetOps /\ unit' = unit
    BY DEF ServeException, MayExcept, SetOps, SETBYTE, GETDOUBLEWORD, PAUSEPIPELINE, RESUMEPIPELINE,
           RESUMEUNPIPELINED
  <2>2. ServeInvalid => Op \notin SetOps /\ unit' = unit
    BY DEF ServeInvalid, Unknown
  <2> QED
    <3>1. Serve \/ ServeException \/ ServeInvalid
      BY <1>3 DEF UnitStep
    <3> QED BY <2>1, <2>2, <3>1
<1>5. ASSUME Unchanging(st) PROVE Unchanging(st)'
  <2> DEFINE X == SetOps \cup {RESUMESTREAMING}
  <2>1. unit.state = st /\ \A i \in 1 .. Len(net \o out) : (net \o out)[i].op \notin X
    BY <1>5 DEF Unchanging
  <2>2. Op \notin X
    <3>1. 1 \in 1 .. Len(net \o out)
      BY <1>2
    <3> QED BY <1>2, <2>1, <3>1
  <2>3. \A i \in 1 .. Len(net' \o out') : (net' \o out')[i].op \notin X
    <3>1. \A i \in 1 .. Len(net' \o out') : i + 1 \in 1 .. Len(net \o out)
      BY <1>2
    <3> HIDE DEF X
    <3> QED BY <1>2, <2>1, <3>1
  <2>4. unit'.state = unit.state
    <3>1. unit \in [state : PAUSED .. RUNSTREAMING, breakpoint : BOOLEAN, lost : BOOLEAN]
      BY DEF IInv, Types
    <3>2. X = SetsState
      BY DEF SetsState, SetOps
    <3> HIDE DEF X
    <3>3. Serve => unit'.state = unit.state
      BY <2>2, <3>1, <3>2 DEF Serve
    <3> QED BY <1>4, <3>3
  <2> QED BY <2>1, <2>3, <2>4 DEF Unchanging
<1>6. ASSUME Changing(o, st) PROVE Changed(o, st)'
  <2>1. PICK x \in SetOps, a \in {0, 1} : net \o out = <<[op |-> x, arg |-> a]>>
    BY <1>6 DEF Changing
  <2>2. Op \in SetOps
    BY <1>2, <2>1
  <2> QED BY <1>4, <1>6, <2>2, ChangeServed
<1>7. ~Changed(o, st)
  BY <1>2 DEF Changed
<1>8. Settled(o, st)'
  BY <1>5, <1>6, <1>7 DEF Here, Settled
<1> QED BY <1>1, <1>8 DEF Here

-----------------------------------------------------------------------------
(* The states but that of a trace; no number is up to 0.                   *)
LEMMA NotStreaming == \A x \in 0 .. 3 : x # 3 => x \in {0, 1, 2}
OBVIOUS

LEMMA UpToNone == \A n : n = 0 => \A i \in 1 .. n : FALSE
OBVIOUS

(* A session begins with nothing under way.                                *)
LEMMA OpenHere ==
  ASSUME IInv, NEW c \in Names, Open(c), beri2 => c # "control test", Tracked'
  PROVE  \E o, st : Here(o, st)'
<1>1. /\ ~open /\ beri2' = beri2 /\ sloppy' = sloppy /\ was' = (IF sloppy THEN UNKNOWN ELSE unit.state)
      /\ cmd' = c /\ prog' = Command(c, beri2) /\ handlers' = << >> /\ ret' = "SUCCESS"
      /\ cached' = UNKNOWN /\ saved' = << >> /\ UNCHANGED <<out, net, back, unit>>
  BY DEF Open, Begin, InitialPipelineState
<1>2. beri2 = TRUE /\ ~sloppy /\ c \in Names \ ChangesState /\ c # "control test" /\ Types
  BY <1>1 DEF Tracked, IInv, Types
<1>3. \E t \in Seq(Nat), u \in Known : Flows(<< >>, t, u)
  <2>1. PICK q \in Seq(Nat), k \in BOOLEAN :
          /\ Knows(q, k) /\ NextFits(q, k)
          /\ ~open => q = << >>
          /\ ~sloppy => \E t \in Seq(Nat), u \in Known : Flows(q, t, u)
    BY Agreeing
  <2> QED BY <1>1, <1>2, <2>1
<1>4. net \o out = << >> /\ unit.state # RUNSTREAMING
  <2>1. PICK t \in Seq(Nat), u \in Known : Flows(<< >>, t, u)
    BY <1>3
  <2> QED BY <1>2, <2>1, NothingUnderWay
<1>5. PICK w \in States : w = unit.state
  <2>1. unit.state \in PAUSED .. RUNSTREAMING
    BY <1>2 DEF Types
  <2>2. unit.state \in 0 .. 3 /\ unit.state # 3
    BY <1>4, <2>1 DEF PAUSED, RUNSTREAMING
  <2>3. unit.state \in {0, 1, 2}
    BY <2>2, NotStreaming, Zenon
  <2> QED BY <2>3, StateFacts
<1>6. Aimed(w, Command(c, TRUE))
  BY <1>2, CommandAimed
<1>7. was' = w /\ prog' = Command(c, TRUE)
  BY <1>1, <1>2, <1>5
<1>8. Place(UNKNOWN, w, cached', saved', handlers', prog', ret') \in Way(w)
  BY <1>1, <1>6, <1>7, Zenon DEF Aimed
<1>9. Unchanging(w)'
  <2>1. net' \o out' = << >> /\ unit'.state = w
    BY <1>1, <1>4, <1>5
  <2> DEFINE v == net' \o out'
  <2>2. \A i \in 1 .. Len(v) : v[i].op \notin SetOps \cup {RESUMESTREAMING}
    <3>1. v = << >>
      BY <2>1
    <3> HIDE DEF v
    <3>2. Len(v) = 0
      BY <3>1
    <3> QED BY <3>2, UpToNone, Zenon
  <2> QED BY <2>1, <2>2 DEF Unchanging
<1>10. Here(UNKNOWN, w)'
  BY <1>7, <1>8, <1>9 DEF Here, Settled
<1> QED BY <1>10

(* A drain has a single step.                                              *)
LEMMA DrainAlone ==
  ASSUME IInv, open, cmd = "drain"
  PROVE  /\ ~QuietStep /\ ~ReadStep /\ ~beri_debug_client_packet_write /\ ~circular_buffer_flush
         /\ beri_debug_client_drain => prog' = << >>
<1>1. prog = << >> \/ prog = <<[do |-> "drain", op |-> 0, arg |-> 0]>>
  BY DEF IInv, Shape, Step
<1>2. prog # << >> => Head(prog).do = "drain" /\ Tail(prog) = << >>
  <2> SUFFICES ASSUME prog # << >> PROVE Head(prog).do = "drain" /\ Tail(prog) = << >>
    OBVIOUS
  <2> DEFINE r == [do |-> "drain", op |-> 0, arg |-> 0]
  <2>1. prog = <<r>> /\ r.do = "drain"
    BY <1>1
  <2> HIDE DEF r
  <2>2. prog \in Seq({r}) /\ Len(prog) = 1 /\ prog[1] = r
    BY <2>1
  <2>3. Head(prog) = prog[1] /\ Tail(prog) \in Seq({r}) /\ Len(Tail(prog)) = Len(prog) - 1
    BY <2>2, HeadTailProperties
  <2>4. Tail(prog) = << >>
    <3>1. Len(Tail(prog)) = 0
      BY <2>2, <2>3
    <3> QED BY <2>3, <3>1, EmptySeq
  <2> QED BY <2>1, <2>2, <2>3, <2>4
<1>3. \A what : At(what) => what = "drain"
  BY <1>2 DEF At
<1>4. ~Reading
  BY <1>3 DEF Reading
<1>5. ~ReadStep /\ ~circular_buffer_flush
  BY <1>4 DEF ReadStep, ReadException, ReadInvalid, ReadUnexpected, ReadReply,
              beri_debug_client_breakpoint_fired, circular_buffer_flush
<1>6. ~QuietStep /\ ~beri_debug_client_packet_write
  <2>1. ~At("needPaused") /\ ~At("usage") /\ ~At("set") /\ ~At("pause") /\ ~At("restore") /\ ~At("try")
        /\ ~At("caught") /\ ~At("excepted") /\ ~At("ignored") /\ ~At("wait") /\ ~At("write")
    BY <1>3
  <2> QED
    BY <2>1 DEF QuietStep, needPaused, usage, beri_debug_client_set_pipeline_state, Beri2Pause, Beri2Resume,
       attempt, forget, breakpoint_check, beri_debug_client_packet_write
<1>7. beri_debug_client_drain => prog' = << >>
  BY <1>2 DEF beri_debug_client_drain, At, Continue
<1> QED BY <1>5, <1>6, <1>7

(* The unit streams nothing meanwhile.                                     *)
LEMMA NoEntries ==
  ASSUME NEW o, NEW st, Here(o, st), NEW last, StreamEntry(last)
  PROVE  FALSE
<1>1. o \in Known /\ st \in States
  BY HereIs, Zenon
<1>2. unit.state = o \/ unit.state = st
  BY DEF Here, Settled, Unchanging, Changing, Changed
<1>3. unit.state = RUNSTREAMING
  BY DEF StreamEntry
<1> QED
  BY <1>1, <1>2, <1>3 DEF Known, States, UNKNOWN, PAUSED, RUNPIPELINED, RUNUNPIPELINED, RUNSTREAMING

(* What the steps of the host leave alone.                                 *)
LEMMA FailOnly ==
  ASSUME NEW e, Fail(e)
  PROVE  UNCHANGED <<open, cmd>> /\ (sloppy => sloppy')
<1>1. sloppy' = (sloppy \/ LeavesReplies(e)) /\ open' = open /\ cmd' = cmd
  BY DEF Fail
<1> QED BY <1>1

LEMMA QuietOnly ==
  ASSUME QuietStep
  PROVE  UNCHANGED <<open, beri2, cmd, was>> /\ (sloppy => sloppy')
<1>1. beri2' = beri2 /\ was' = was
  BY DEF QuietStep, needPaused, usage, beri_debug_client_set_pipeline_state, Beri2Pause, Beri2Resume,
         attempt, forget, breakpoint_check, stepUnchanged
<1>2. CASE needPaused
  <2>1. CASE cached = PAUSED
    <3>1. UNCHANGED <<open, cmd, sloppy>>
      BY <1>2, <2>1 DEF needPaused
    <3> QED BY <1>1, <3>1
  <2>2. CASE cached # PAUSED
    <3>1. Fail("NOTPAUSED")
      BY <1>2, <2>2 DEF needPaused
    <3> QED BY <1>1, <3>1, FailOnly
  <2> QED BY <2>1, <2>2
<1>3. CASE usage
  <2>1. Fail("USAGE_ERROR")
    BY <1>3 DEF usage
  <2> QED BY <1>1, <2>1, FailOnly
<1>4. ASSUME ~needPaused, ~usage PROVE UNCHANGED <<open, cmd, sloppy>>
  BY <1>4 DEF QuietStep, beri_debug_client_set_pipeline_state, Beri2Pause, Beri2Resume,
              attempt, forget, breakpoint_check
<1> QED BY <1>1, <1>2, <1>3, <1>4

LEMMA ReadOnly ==
  ASSUME ReadStep
  PROVE  UNCHANGED <<open, beri2, cmd, was>> /\ (sloppy => sloppy')
<1>1. beri2' = beri2 /\ was' = was
  BY DEF ReadStep, ReadException, ReadInvalid, ReadUnexpected, ReadReply,
         beri_debug_client_breakpoint_fired, readUnchanged
<1>2. (\E e : Fail(e)) \/ UNCHANGED <<open, cmd, sloppy>>
  BY DEF ReadStep, ReadException, ReadInvalid, ReadUnexpected, ReadReply,
         beri_debug_client_breakpoint_fired
<1> QED BY <1>1, <1>2, FailOnly

(* The steps of the host and of the unit during a session.                 *)
LEMMA FollowedOn ==
  ASSUME Unsupported \cap SetOps = {}, IInv, StateInv, HostStep \/ UnitStep, Tracked'
  PROVE  \E o, st : Here(o, st)'
<1>1. /\ open' = open /\ beri2' = beri2 /\ cmd' = cmd /\ was' = was
      /\ beri_debug_client_drain \/ (sloppy => sloppy')
  <2>1. HostStep <=> \/ QuietStep \/ ReadStep \/ beri_debug_client_packet_write \/ circular_buffer_flush
                     \/ beri_debug_client_drain
    BY DEF HostStep, QuietStep, ReadStep
  <2>2. QuietStep => UNCHANGED <<open, beri2, cmd, was>> /\ (sloppy => sloppy')
    BY QuietOnly
  <2>3. ReadStep => UNCHANGED <<open, beri2, cmd, was>> /\ (sloppy => sloppy')
    BY ReadOnly
  <2>4. /\ beri_debug_client_packet_write => UNCHANGED <<open, beri2, cmd, was, sloppy>>
        /\ circular_buffer_flush => UNCHANGED <<open, beri2, cmd, was, sloppy>>
        /\ beri_debug_client_drain => UNCHANGED <<open, beri2, cmd, was>>
    BY DEF beri_debug_client_packet_write, circular_buffer_flush, beri_debug_client_drain, hostVars
  <2>5. UnitStep => UNCHANGED <<open, beri2, cmd, was, sloppy>>
    BY DEF UnitStep, Serve, ServeException, ServeInvalid, ServeReset, LoseStep, unitUnchanged, hostVars
  <2> QED BY <2>1, <2>2, <2>3, <2>4, <2>5
<1>2. open /\ beri2 /\ was # UNKNOWN /\ cmd \notin ChangesState /\ ~sloppy'
  BY <1>1 DEF Tracked
<1>3. ~sloppy
  <2> SUFFICES ASSUME sloppy PROVE FALSE
    OBVIOUS
  <2>1. beri_debug_client_drain /\ prog # << >> /\ Head(prog).do = "drain"
    BY <1>1, <1>2 DEF beri_debug_client_drain, At
  <2>2. cmd = "drain"
    <3>1. PICK q \in Seq(Nat), k \in BOOLEAN :
            StepFits(beri2, cmd, Good(beri2, cmd), q, k, Len(saved), handlers,
                     Head(prog), Tail(prog), prog)
      BY <1>2, <2>1, StepIs, Zenon
    <3> QED BY <2>1, <3>1 DEF StepFits, DrainFits
  <2> QED BY <1>2, <2>1, <2>2 DEF StateInv
<1>4. PICK o, st : Here(o, st)
  BY <1>2, <1>3 DEF StateInv, Tracked
<1>5. CASE QuietStep
  BY <1>2, <1>4, <1>5, QuietHere
<1>6. CASE ReadStep
  BY <1>2, <1>4, <1>6, ReadHere
<1>7. CASE beri_debug_client_packet_write
  <2>1. \E p, z : Here(p, z)'
    BY <1>2, <1>3, <1>4, <1>7, WriteHere
  <2> QED BY <2>1
<1>8. CASE circular_buffer_flush
  BY <1>4, <1>8, FlushHere
<1>9. CASE beri_debug_client_drain
  BY <1>2, <1>4, <1>9, DrainHere
<1>10. CASE UnitStep
  BY <1>2, <1>4, <1>10, UnitHere
<1> QED BY <1>5, <1>6, <1>7, <1>8, <1>9, <1>10 DEF HostStep, QuietStep, ReadStep

(* A step that changes nothing of this.                                    *)
LEMMA StaysHere ==
  ASSUME StateInv, UNCHANGED <<beri2, open, cmd, prog, handlers, ret, cached, saved, out, net, back, unit,
                               was, sloppy>>
  PROVE  StateInv'
<1>1. Tracked' => Tracked
  BY DEF Tracked
<1>2. ASSUME NEW o, NEW st, Here(o, st) PROVE Here(o, st)'
  BY <1>2 DEF Here, Settled, Unchanging, Changing, Changed, Reported, Answered
<1> QED BY <1>1, <1>2 DEF StateInv

(* Every step.                                                             *)
LEMMA StateFollowed ==
  Unsupported \cap SetOps = {} => (IInv /\ StateInv /\ [Next]_vars => StateInv')
<1> SUFFICES ASSUME Unsupported \cap SetOps = {}, IInv, StateInv, [Next]_vars PROVE StateInv'
  OBVIOUS
<1>1. ASSUME NEW c \in Names, Open(c) PROVE StateInv'
  <2>1. /\ beri2' = beri2 /\ cmd' = c /\ (beri2 => c # "control test")
        /\ sloppy' = sloppy /\ (sloppy => was' = UNKNOWN)
    BY <1>1 DEF Open, Begin
  <2>2. Tracked' => \E o, st : Here(o, st)'
    BY <1>1, <2>1, OpenHere
  <2> QED BY <2>1, <2>2 DEF StateInv
<1>2. ASSUME NEW c \in Names, NextCommand(c) PROVE StateInv'
  <2>1. ~beri2 /\ beri2' = beri2 /\ cmd' = c /\ c \in ControlNames
    BY <1>2 DEF NextCommand, Begin
  <2>2. c # "drain"
    BY <2>1 DEF ControlNames
  <2>3. ~Tracked'
    BY <2>1 DEF Tracked
  <2> QED BY <2>1, <2>2, <2>3 DEF StateInv
<1>3. CASE beri_debug_client_close \/ Kill
  <2>1. ~open'
    BY <1>3 DEF beri_debug_client_close, Kill, Leave
  <2> QED BY <2>1 DEF StateInv, Tracked
<1>4. CASE HostStep \/ UnitStep
  <2>1. Tracked' => \E o, st : Here(o, st)'
    BY <1>4, FollowedOn
  <2>2. open' = open /\ beri2' = beri2 /\ cmd' = cmd
    <3>1. HostStep <=> \/ QuietStep \/ ReadStep \/ beri_debug_client_packet_write \/ circular_buffer_flush
                       \/ beri_debug_client_drain
      BY DEF HostStep, QuietStep, ReadStep
    <3>2. QuietStep => UNCHANGED <<open, beri2, cmd>>
      BY QuietOnly
    <3>3. ReadStep => UNCHANGED <<open, beri2, cmd>>
      BY ReadOnly
    <3>4. beri_debug_client_packet_write \/ circular_buffer_flush \/ beri_debug_client_drain
            => UNCHANGED <<open, beri2, cmd>>
      BY DEF beri_debug_client_packet_write, circular_buffer_flush, beri_debug_client_drain, hostVars
    <3>5. UnitStep => UNCHANGED <<open, beri2, cmd>>
      BY DEF UnitStep, Serve, ServeException, ServeInvalid, ServeReset, LoseStep, unitUnchanged, hostVars
    <3> QED BY <1>4, <3>1, <3>2, <3>3, <3>4, <3>5
  <2>3. ASSUME open, cmd = "drain", prog' # << >>, sloppy' PROVE was' = UNKNOWN
    <3>1. UnitStep
      BY <1>4, <2>3, DrainAlone DEF HostStep, QuietStep, ReadStep
    <3>2. UNCHANGED <<prog, sloppy, was>>
      BY <3>1 DEF UnitStep, Serve, ServeException, ServeInvalid, ServeReset, LoseStep, unitUnchanged, hostVars
    <3> QED BY <2>3, <3>2 DEF StateInv
  <2> QED BY <2>1, <2>2, <2>3 DEF StateInv
<1>5. ASSUME NEW last \in BOOLEAN, StreamEntry(last) PROVE StateInv'
  <2>1. UNCHANGED <<beri2, open, cmd, prog, was, sloppy>>
    BY <1>5 DEF StreamEntry, unitUnchanged, hostVars
  <2>2. ~Tracked
    BY <1>5, NoEntries DEF StateInv
  <2> QED BY <2>1, <2>2 DEF StateInv, Tracked
<1>6. CASE BreakpointFires
  <2>1. was' = UNKNOWN /\ UNCHANGED <<beri2, open, cmd>>
    BY <1>6 DEF BreakpointFires, hostVars
  <2> QED BY <2>1 DEF StateInv, Tracked
<1>7. CASE UNCHANGED vars
  BY <1>7, StaysHere DEF vars, hostVars
<1> QED BY <1>1, <1>2, <1>3, <1>4, <1>5, <1>6, <1>7, Zenon DEF Next

(* At the end of a command that succeeded, its state is back.              *)
LEMMA StateArrived == StateInv => StateRestored
<1> SUFFICES ASSUME StateInv, open, beri2, prog = << >>, ret = "SUCCESS", ~sloppy,
                    cmd \notin ChangesState, was # UNKNOWN
             PROVE  unit.state = was
  BY DEF StateRestored
<1>1. PICK o, st : Here(o, st)
  BY DEF StateInv, Tracked
<1>2. Aims(was, Way(was), o, st, cached, saved, handlers, prog, ret)
  BY <1>1, HereIs, Zenon
<1>3. o = UNKNOWN /\ st = was
  BY <1>2 DEF Aims
<1> QED BY <1>1, <1>3 DEF Here, Settled, Unchanging

(* A command of berictl that is about something else than the state of the *)
(* pipeline, and that succeeds, leaves a BERI2 in the state in which it    *)
(* found it, unless a breakpoint fired meanwhile: BERI2_PAUSE reads the    *)
(* state that it replaces, however often it is nested, and BERI2_RESUME    *)
(* sets it again on every path of the command, that of an exception        *)
(* included.  The unit has to know the three ops that set the state:       *)
(* BERI2_RESUME only warns when setting it again fails.                    *)
THEOREM StateIsRestored ==
  ASSUME Unsupported \cap SetOps = {}
  PROVE  Spec => []StateRestored
<1>1. IInv /\ StateInv /\ [Next]_vars => StateInv'
  BY StateFollowed
<1>2. Init => StateInv
  BY DEF Init, StateInv, Tracked
<1>3. StateInv => StateRestored
  BY StateArrived
<1> QED BY <1>1, <1>2, <1>3, Invariance, PTL DEF Spec
=============================================================================
