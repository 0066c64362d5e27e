--------------------------- MODULE SequenceLemmas ---------------------------
(***************************************************************************)
(* Facts about numbers and sequences that the proofs about components      *)
(* share: induction without a predicate as parameter, and what FlattenSeq, *)
(* a recursive function, yields for sequences of any length.               *)
(***************************************************************************)
EXTENDS Integers, SequencesExt, SequenceTheorems, WellFoundedInduction, TLAPS

-----------------------------------------------------------------------------
(* Induction: a set of numbers that is not empty has a least element; and  *)
(* a set that holds 0, and with a number the next, holds all.              *)
LEMMA LeastNumber ==
  ASSUME NEW T \in SUBSET Nat, T # {}
  PROVE  \E n \in T : \A m \in T : n <= m
<1>1. IsWellFoundedOn(OpToRel(<, Nat), Nat)
  BY NatLessThanWellFounded
<1>2. PICK n \in T : \A m \in T : <<m, n>> \notin OpToRel(<, Nat)
  BY <1>1, WFMin, Zenon
<1>3. \A m \in T : ~(m < n)
  <2> SUFFICES ASSUME NEW m \in T, m < n PROVE FALSE
    OBVIOUS
  <2>1. <<m, n>> \in Nat \X Nat /\ <<m, n>>[1] < <<m, n>>[2]
    OBVIOUS
  <2>2. <<m, n>> \in OpToRel(<, Nat)
    BY <2>1, Zenon DEF OpToRel
  <2> QED BY <1>2, <2>2, Zenon
<1>4. \A m \in T : n <= m
  BY <1>3
<1> QED BY <1>4

LEMMA InductiveSet ==
  ASSUME NEW T, 0 \in T, \A n \in Nat : n \in T => n + 1 \in T
  PROVE  \A n \in Nat : n \in T
<1> DEFINE U == Nat \ T
<1> SUFFICES ASSUME U # {} PROVE FALSE
  OBVIOUS
<1>1. U \in SUBSET Nat
  OBVIOUS
<1> HIDE DEF U
<1>2. PICK n \in U : \A m \in U : n <= m
  BY <1>1, LeastNumber, Zenon
<1>3. n \in Nat /\ n \notin T
  BY <1>2 DEF U
<1>4. n # 0 /\ n - 1 \in Nat /\ (n - 1) + 1 = n
  BY <1>3
<1>5. n - 1 \in T
  BY <1>2, <1>4 DEF U
<1> QED BY <1>3, <1>4, <1>5

-----------------------------------------------------------------------------
LEMMA Regroup == \A S : \A s, t, u \in Seq(S) : (s \o t) \o u = s \o (t \o u)
BY ConcatAssociative, Zenon

(* What is left of a sequence when its beginning is dropped.               *)
LEMMA Dropped ==
  ASSUME NEW S, NEW s \in Seq(S), NEW t \in Seq(S)
  PROVE  SubSeq(s \o t, Len(s) + 1, Len(s \o t)) = t
<1> DEFINE u == s \o t
           v == SubSeq(u, Len(s) + 1, Len(u))
<1>1. /\ u \in Seq(S) /\ Len(u) = Len(s) + Len(t) /\ Len(s) \in Nat /\ Len(t) \in Nat
      /\ \A i \in 1 .. Len(s) + Len(t) : u[i] = IF i <= Len(s) THEN s[i] ELSE t[i - Len(s)]
  BY ConcatProperties, LenProperties
<1> HIDE DEF u
<1>2. \A i \in Len(s) + 1 .. Len(u) : u[i] \in S
  BY <1>1, ElementOfSeq
<1>3. /\ v \in Seq(S)
      /\ Len(v) = IF Len(s) + 1 <= Len(u) THEN Len(u) - (Len(s) + 1) + 1 ELSE 0
      /\ \A i \in 1 .. Len(u) - (Len(s) + 1) + 1 : v[i] = u[(Len(s) + 1) + i - 1]
  BY <1>1, <1>2, SubSeqProperties
<1> HIDE DEF v
<1>4. Len(v) = Len(t) /\ \A i \in 1 .. Len(t) : v[i] = t[i]
  <2>1. Len(v) = Len(t)
    BY <1>1, <1>3
  <2>2. \A i \in 1 .. Len(t) : v[i] = t[i]
    <3> TAKE i \in 1 .. Len(t)
    <3>1. v[i] = u[Len(s) + i]
      BY <1>1, <1>3
    <3>2. /\ Len(s) + i \in 1 .. Len(s) + Len(t) /\ ~(Len(s) + i <= Len(s))
          /\ (Len(s) + i) - Len(s) = i
      BY <1>1
    <3>3. u[Len(s) + i] = t[i]
      BY <1>1, <3>2
    <3> QED BY <3>1, <3>3
  <2> QED BY <2>1, <2>2
<1>5. v = t
  BY <1>3, <1>4, SeqEqual
<1> QED BY <1>5 DEF u, v

LEMMA Pair == \A x, y : <<x>> \o <<y>> = <<x, y>>
<1> TAKE x, y
<1> DEFINE S == {x, y}
           p == <<x>> \o <<y>>
<1>1. <<x>> \in Seq(S) /\ <<y>> \in Seq(S) /\ <<x, y>> \in Seq(S) /\ Len(<<x, y>>) = 2
  OBVIOUS
<1>2. /\ p \in Seq(S) /\ Len(p) = 2
      /\ \A i \in 1 .. 2 : p[i] = IF i <= 1 THEN <<x>>[i] ELSE <<y>>[i - 1]
  BY <1>1, ConcatProperties
<1> HIDE DEF p, S
<1>3. \A i \in 1 .. 2 : p[i] = <<x, y>>[i]
  <2> TAKE i \in 1 .. 2
  <2>1. i = 1 \/ i = 2
    OBVIOUS
  <2> QED BY <1>2, <2>1
<1>4. p = <<x, y>>
  BY <1>1, <1>2, <1>3, SeqEqual
<1> QED BY <1>4 DEF p

-----------------------------------------------------------------------------
(* The function by which FlattenSeq is defined, up to n.                   *)
Flattens(f, s, n) ==
  \A i \in 1 .. n : f[i] = IF i = 1 THEN s[i] ELSE f[i - 1] \o s[i]

LEMMA FlattensExists ==
  ASSUME NEW S, NEW s \in Seq(Seq(S))
  PROVE  \A n \in Nat : n <= Len(s) => \E f \in [1 .. n -> Seq(S)] : Flattens(f, s, n)
<1> DEFINE T == {n \in Nat : n <= Len(s) => \E f \in [1 .. n -> Seq(S)] : Flattens(f, s, n)}
<1>1. 0 \in T
  <2> DEFINE f == [i \in 1 .. 0 |-> << >>]
  <2>1. f \in [1 .. 0 -> Seq(S)]
    OBVIOUS
  <2>2. Flattens(f, s, 0)
    BY DEF Flattens
  <2> HIDE DEF f
  <2> QED BY <2>1, <2>2
<1>2. ASSUME NEW n \in Nat, n \in T PROVE n + 1 \in T
  <2> SUFFICES ASSUME n + 1 <= Len(s)
               PROVE  \E g \in [1 .. n + 1 -> Seq(S)] : Flattens(g, s, n + 1)
    OBVIOUS
  <2>1. PICK f \in [1 .. n -> Seq(S)] : Flattens(f, s, n)
    BY <1>2
  <2>2. \A i \in 1 .. n + 1 : s[i] \in Seq(S)
    OBVIOUS
  <2> DEFINE g == [i \in 1 .. n + 1 |-> IF i <= n THEN f[i]
                                        ELSE IF i = 1 THEN s[i] ELSE f[i - 1] \o s[i]]
  <2>3. \A i \in 1 .. n + 1 : g[i] \in Seq(S)
    <3> SUFFICES ASSUME NEW i \in 1 .. n + 1 PROVE g[i] \in Seq(S)
      OBVIOUS
    <3>1. CASE i <= n
      BY <2>1, <3>1
    <3>2. CASE ~(i <= n) /\ i = 1
      BY <2>2, <3>2
    <3>3. CASE ~(i <= n) /\ i # 1
      <4>1. i - 1 \in 1 .. n
        BY <3>3
      <4>2. f[i - 1] \in Seq(S) /\ s[i] \in Seq(S)
        BY <2>1, <2>2, <4>1
      <4>3. f[i - 1] \o s[i] \in Seq(S)
        BY <4>2, ConcatProperties
      <4> QED BY <3>3, <4>3
    <3> QED BY <3>1, <3>2, <3>3
  <2>4. Flattens(g, s, n + 1)
    <3> SUFFICES ASSUME NEW i \in 1 .. n + 1
                 PROVE  g[i] = IF i = 1 THEN s[i] ELSE g[i - 1] \o s[i]
      BY DEF Flattens
    <3>1. i # 1 => i - 1 \in 1 .. n /\ i - 1 \in 1 .. n + 1 /\ g[i - 1] = f[i - 1]
      OBVIOUS
    <3>2. CASE i <= n
      <4>1. g[i] = f[i] /\ i \in 1 .. n
        BY <3>2
      <4> QED BY <2>1, <3>1, <4>1 DEF Flattens
    <3>3. CASE ~(i <= n)
      BY <3>1, <3>3
    <3> QED BY <3>2, <3>3
  <2>5. g \in [1 .. n + 1 -> Seq(S)]
    BY <2>3
  <2> QED BY <2>4, <2>5
<1> HIDE DEF T
<1>3. \A n \in Nat : n \in T
  BY <1>1, <1>2, InductiveSet
<1> QED BY <1>3 DEF T

LEMMA FlattensUnique ==
  ASSUME NEW s, NEW f, NEW g, NEW n \in Nat, Flattens(f, s, n), Flattens(g, s, n)
  PROVE  \A i \in 1 .. n : f[i] = g[i]
<1> DEFINE T == {i \in Nat : i \in 1 .. n => f[i] = g[i]}
<1>1. 0 \in T
  OBVIOUS
<1>2. ASSUME NEW i \in Nat, i \in T PROVE i + 1 \in T
  <2> SUFFICES ASSUME i + 1 \in 1 .. n PROVE f[i + 1] = g[i + 1]
    OBVIOUS
  <2>1. CASE i = 0
    BY <2>1 DEF Flattens
  <2>2. CASE i # 0
    <3>1. i \in 1 .. n /\ (i + 1) - 1 = i /\ i + 1 # 1
      BY <2>2
    <3>2. f[i] = g[i]
      BY <1>2, <3>1
    <3>3. f[i + 1] = f[i] \o s[i + 1] /\ g[i + 1] = g[i] \o s[i + 1]
      BY <3>1 DEF Flattens
    <3> QED BY <3>2, <3>3
  <2> QED BY <2>1, <2>2
<1> HIDE DEF T
<1>3. \A i \in Nat : i \in T
  BY <1>1, <1>2, InductiveSet
<1> QED BY <1>3 DEF T

LEMMA FlattenIs ==
  ASSUME NEW S, NEW s \in Seq(Seq(S)), s # << >>, NEW f, Flattens(f, s, Len(s))
  PROVE  FlattenSeq(s) = f[Len(s)]
<1> DEFINE n == Len(s)
           Is(g) == g = [i \in 1 .. Len(s) |-> IF i = 1 THEN s[i] ELSE g[i - 1] \o s[i]]
<1>1. n \in Nat /\ n # 0
  BY EmptySeq
<1>2. \E g : Is(g)
  <2>1. n \in Nat /\ n <= Len(s)
    BY <1>1
  <2>2. \E g \in [1 .. n -> Seq(S)] : Flattens(g, s, n)
    BY <2>1, FlattensExists, Zenon
  <2>3. PICK g \in [1 .. n -> Seq(S)] : Flattens(g, s, n)
    BY <2>2
  <2>4. Is(g)
    BY <2>3 DEF Flattens
  <2> QED BY <2>4
<1>3. Is(CHOOSE g : Is(g))
  BY <1>2
<1> DEFINE h == CHOOSE g : Is(g)
<1>4. Flattens(h, s, n)
  BY <1>3 DEF Flattens
<1>5. FlattenSeq(s) = h[n]
  BY <1>1 DEF FlattenSeq
<1> HIDE DEF h
<1>6. h[n] = f[n]
  BY <1>1, <1>4, FlattensUnique
<1> QED BY <1>5, <1>6

LEMMA FlattenAppend ==
  ASSUME NEW S, NEW s \in Seq(Seq(S)), NEW x \in Seq(S)
  PROVE  /\ FlattenSeq(<< >>) = << >>
         /\ FlattenSeq(s) \in Seq(S)
         /\ FlattenSeq(Append(s, x)) = FlattenSeq(s) \o x
<1> DEFINE n == Len(s)
           t == Append(s, x)
<1>1. FlattenSeq(<< >>) = << >>
  BY DEF FlattenSeq
<1>2. /\ t \in Seq(Seq(S)) /\ t # << >> /\ Len(t) = n + 1 /\ n \in Nat
      /\ \A i \in 1 .. n : t[i] = s[i]
      /\ t[n + 1] = x
  BY AppendProperties, LenProperties
<1> HIDE DEF t
<1>3. PICK f \in [1 .. n + 1 -> Seq(S)] : Flattens(f, t, n + 1)
  <2>1. n + 1 \in Nat /\ n + 1 <= Len(t)
    BY <1>2
  <2>2. \E f \in [1 .. n + 1 -> Seq(S)] : Flattens(f, t, n + 1)
    BY <1>2, <2>1, FlattensExists, Zenon
  <2> QED BY <2>2
<1>4. FlattenSeq(t) = f[n + 1]
  BY <1>2, <1>3, FlattenIs
<1>5. CASE n = 0
  <2>1. s = << >> /\ f[n + 1] = x
    BY <1>2, <1>3, <1>5, EmptySeq DEF Flattens
  <2>2. << >> \o x = x /\ << >> \in Seq(S)
    BY ConcatEmptySeq, EmptySeq
  <2> QED BY <1>1, <1>4, <2>1, <2>2 DEF t
<1>6. CASE n # 0
  <2>1. s # << >>
    BY <1>6, EmptySeq
  <2>2. Flattens(f, s, n)
    <3> SUFFICES ASSUME NEW i \in 1 .. n
                 PROVE  f[i] = IF i = 1 THEN s[i] ELSE f[i - 1] \o s[i]
      BY DEF Flattens
    <3>1. i \in 1 .. n + 1 /\ t[i] = s[i]
      BY <1>2
    <3> QED BY <1>3, <3>1 DEF Flattens
  <2>3. FlattenSeq(s) = f[n]
    BY <2>1, <2>2, FlattenIs
  <2>4. f[n] \in Seq(S)
    BY <1>2, <1>3, <1>6
  <2>5. f[n + 1] = f[n] \o x
    <3>1. n + 1 \in 1 .. n + 1 /\ n + 1 # 1 /\ (n + 1) - 1 = n
      BY <1>2, <1>6
    <3> QED BY <1>2, <1>3, <3>1 DEF Flattens
  <2> QED BY <1>1, <1>4, <2>3, <2>4, <2>5 DEF t
<1> QED BY <1>5, <1>6

(* n times the same.                                                       *)
Repeated(n, x) == FlattenSeq([i \in 1 .. n |-> x])

LEMMA RepeatedLast ==
  ASSUME NEW S, NEW x \in Seq(S), NEW n \in Nat
  PROVE  /\ Repeated(0, x) = << >>
         /\ Repeated(n, x) \in Seq(S)
         /\ Repeated(n + 1, x) = Repeated(n, x) \o x
<1> DEFINE s == [i \in 1 .. n |-> x]
           t == [i \in 1 .. n + 1 |-> x]
<1>1. s \in Seq(Seq(S)) /\ Len(s) = n /\ t \in Seq(Seq(S)) /\ Len(t) = n + 1
  OBVIOUS
<1>2. t = Append(s, x)
  <2>1. Append(s, x) \in Seq(Seq(S)) /\ Len(Append(s, x)) = n + 1
    BY <1>1, AppendProperties
  <2>2. \A i \in 1 .. n + 1 : t[i] = Append(s, x)[i]
    <3> TAKE i \in 1 .. n + 1
    <3>1. i \in 1 .. n \/ i = n + 1
      OBVIOUS
    <3>2. (\A j \in 1 .. n : Append(s, x)[j] = s[j]) /\ Append(s, x)[n + 1] = x
      BY <1>1, AppendProperties
    <3> QED BY <3>1, <3>2
  <2> QED BY <1>1, <2>1, <2>2, SeqEqual
<1>3. [i \in 1 .. 0 |-> x] = << >>
  OBVIOUS
<1> HIDE DEF s, t
<1>4. /\ FlattenSeq(<< >>) = << >> /\ FlattenSeq(s) \in Seq(S)
      /\ FlattenSeq(Append(s, x)) = FlattenSeq(s) \o x
  BY <1>1, FlattenAppend
<1>5. Repeated(n, x) = FlattenSeq(s) /\ Repeated(n + 1, x) = FlattenSeq(t)
      /\ Repeated(0, x) = FlattenSeq(<< >>)
  BY <1>3 DEF Repeated, s, t
<1> QED BY <1>2, <1>4, <1>5

LEMMA RepeatedFirst ==
  ASSUME NEW S, NEW x \in Seq(S)
  PROVE  \A n \in Nat : Repeated(n + 1, x) = x \o Repeated(n, x)
<1> DEFINE T == {n \in Nat : Repeated(n + 1, x) = x \o Repeated(n, x)}
<1>1. 0 \in T
  <2>1. Repeated(0 + 1, x) = Repeated(0, x) \o x /\ Repeated(0, x) = << >>
    BY RepeatedLast
  <2>2. << >> \o x = x /\ x \o << >> = x
    BY ConcatEmptySeq
  <2> QED BY <2>1, <2>2
<1>2. ASSUME NEW n \in Nat, n \in T PROVE n + 1 \in T
  <2>1. /\ Repeated(n, x) \in Seq(S)
        /\ Repeated(n + 1, x) = Repeated(n, x) \o x
        /\ Repeated((n + 1) + 1, x) = Repeated(n + 1, x) \o x
    <3>1. n + 1 \in Nat
      OBVIOUS
    <3>2. \A m \in Nat : /\ Repeated(m, x) \in Seq(S)
                         /\ Repeated(m + 1, x) = Repeated(m, x) \o x
      BY RepeatedLast, Zenon
    <3> QED BY <3>1, <3>2
  <2>2. Repeated(n + 1, x) = x \o Repeated(n, x)
    BY <1>2
  <2>3. (x \o Repeated(n, x)) \o x = x \o (Repeated(n, x) \o x)
    BY <2>1, ConcatAssociative
  <2>4. Repeated((n + 1) + 1, x) = x \o Repeated(n + 1, x)
    BY <2>1, <2>2, <2>3
  <2> QED BY <2>4
<1> HIDE DEF T
<1>3. \A n \in Nat : n \in T
  BY <1>1, <1>2, InductiveSet
<1> QED BY <1>3 DEF T

(* A set that holds the empty sequence and with a sequence those that are  *)
(* one longer holds every sequence.                                        *)
LEMMA InductiveSequences ==
  ASSUME NEW S, NEW T, << >> \in T, \A s \in Seq(S), x \in S : s \in T => Append(s, x) \in T
  PROVE  \A s \in Seq(S) : s \in T
<1> DEFINE N == {n \in Nat : \A s \in Seq(S) : Len(s) = n => s \in T}
<1>1. 0 \in N
  <2>1. \A s \in Seq(S) : Len(s) = 0 => s = << >>
    BY EmptySeq
  <2> QED BY <2>1
<1>2. ASSUME NEW n \in Nat, n \in N PROVE n + 1 \in N
  <2> SUFFICES ASSUME NEW s \in Seq(S), Len(s) = n + 1 PROVE s \in T
    OBVIOUS
  <2>1. s # << >>
    <3> SUFFICES ASSUME s = << >> PROVE FALSE
      OBVIOUS
    <3>1. Len(s) = 0
      OBVIOUS
    <3> QED BY <3>1
  <2>2. PICK r \in Seq(S), x \in S : s = Append(r, x)
    BY <2>1, SequenceEmptyOrAppend
  <2>3. Len(s) = Len(r) + 1 /\ Len(r) \in Nat
    BY <2>2, AppendProperties, LenProperties
  <2>4. Len(r) = n
    BY <2>3
  <2>5. r \in T
    BY <1>2, <2>4
  <2> QED BY <2>2, <2>5
<1> HIDE DEF N
<1>3. \A n \in Nat : n \in N
  BY <1>1, <1>2, InductiveSet
<1> QED BY <1>3, LenProperties DEF N

(* The elements before, at and after a place.                              *)
LEMMA Around ==
  ASSUME NEW S, NEW s \in Seq(S), NEW i \in 1 .. Len(s)
  PROVE  /\ SubSeq(s, 1, i - 1) \in Seq(S) /\ SubSeq(s, i + 1, Len(s)) \in Seq(S)
         /\ s = SubSeq(s, 1, i - 1) \o (<<s[i]>> \o SubSeq(s, i + 1, Len(s)))
<1> DEFINE n == Len(s)
           r == SubSeq(s, 1, i - 1)
           t == SubSeq(s, i + 1, n)
<1>1. n \in Nat /\ i \in 1 .. n /\ i \in Int /\ \A j \in 1 .. n : s[j] \in S
  BY LenProperties, ElementOfSeq
<1>2. r \in Seq(S) /\ t \in Seq(S)
  <2>1. (\A j \in 1 .. i - 1 : s[j] \in S) /\ (\A j \in i + 1 .. n : s[j] \in S)
    BY <1>1
  <2>2. 1 \in Int /\ i - 1 \in Int /\ i + 1 \in Int /\ n \in Int
    BY <1>1
  <2> HIDE DEF n
  <2> QED BY <2>1, <2>2, SubSeqProperties
<1>3. <<s[i]>> \o t = SubSeq(s, i, n)
  <2>1. i \in 1 .. Len(s) /\ n \in i .. Len(s)
    BY <1>1
  <2>2. SubSeq(s, i, n) = << s[i] >> \o SubSeq(s, i + 1, n)
    BY <2>1, SubSeqRecursiveFirst
  <2> QED BY <2>2
<1>4. r \o SubSeq(s, i, n) = s
  <2>1. 1 \in 1 .. Len(s) + 1 /\ i - 1 \in 1 - 1 .. Len(s) /\ n \in i - 1 .. Len(s) /\ (i - 1) + 1 = i
    BY <1>1
  <2>2. SubSeq(s, 1, i - 1) \o SubSeq(s, (i - 1) + 1, n) = SubSeq(s, 1, n)
    BY <2>1, ConcatAdjacentSubSeq
  <2>3. SubSeq(s, 1, n) = s
    BY SubSeqFull
  <2> QED BY <2>1, <2>2, <2>3
<1> QED BY <1>2, <1>3, <1>4

(* A sequence without its first element.                                   *)
LEMMA FirstAndRest ==
  ASSUME NEW S, NEW s \in Seq(S), s # << >>
  PROVE  Head(s) \in S /\ Tail(s) \in Seq(S) /\ s = <<Head(s)>> \o Tail(s)
<1> DEFINE n == Len(s)
<1>1. n \in Nat /\ 1 \in 1 .. Len(s) /\ n \in 1 .. Len(s)
  BY EmptySeq, LenProperties
<1>2. SubSeq(s, 1, n) = << s[1] >> \o SubSeq(s, 1 + 1, n)
  BY <1>1, SubSeqRecursiveFirst
<1>3. SubSeq(s, 1, n) = s /\ Tail(s) = SubSeq(s, 2, n) /\ Head(s) = s[1] /\ 1 + 1 = 2
  BY SubSeqFull, TailIsSubSeq
<1>4. Head(s) \in S /\ Tail(s) \in Seq(S)
  BY HeadTailProperties
<1> QED BY <1>2, <1>3, <1>4

(* What no element of a sequence is, no element of a part of it is.        *)
LEMMA PartsAvoid ==
  ASSUME NEW S, NEW a \in Seq(S), NEW e \in Seq(S), NEW Z,
         \A i \in 1 .. Len(a \o e) : (a \o e)[i] \notin Z
  PROVE  /\ \A i \in 1 .. Len(a) : a[i] \notin Z
         /\ \A i \in 1 .. Len(e) : e[i] \notin Z
<1> DEFINE y == a \o e
<1>1. /\ Len(y) = Len(a) + Len(e) /\ Len(a) \in Nat /\ Len(e) \in Nat
      /\ \A i \in 1 .. Len(a) + Len(e) : y[i] = IF i <= Len(a) THEN a[i] ELSE e[i - Len(a)]
  BY ConcatProperties, LenProperties
<1>2. \A i \in 1 .. Len(y) : y[i] \notin Z
  OBVIOUS
<1> HIDE DEF y
<1>3. ASSUME NEW i \in 1 .. Len(a) PROVE a[i] \notin Z
  <2>1. i \in 1 .. Len(y) /\ i \in 1 .. Len(a) + Len(e) /\ i <= Len(a)
    BY <1>1, <1>3
  <2>2. y[i] = a[i]
    BY <1>1, <2>1
  <2> QED BY <1>2, <2>1, <2>2
<1>4. ASSUME NEW i \in 1 .. Len(e) PROVE e[i] \notin Z
  <2>1. /\ i + Len(a) \in 1 .. Len(y) /\ i + Len(a) \in 1 .. Len(a) + Len(e)
        /\ ~(i + Len(a) <= Len(a)) /\ (i + Len(a)) - Len(a) = i
    BY <1>1, <1>4
  <2>2. y[i + Len(a)] = e[i]
    BY <1>1, <2>1
  <2> QED BY <1>2, <2>1, <2>2
<1> QED BY <1>3, <1>4

-----------------------------------------------------------------------------
(* A sequence that is followed by others loses its first element, or gives *)
(* it to the one before it.                                                *)
LEMMA FirstTyped ==
  ASSUME NEW S, NEW v \in Seq(S), v # <<>>
  PROVE  v[1] \in S
OBVIOUS

LEMMA ConcatAppend ==
  ASSUME NEW S, NEW w \in Seq(S), NEW v \in Seq(S), NEW x \in S
  PROVE  w \o Append(v, x) = Append(w \o v, x) /\ Append(w, x) \o v = w \o (<<x>> \o v)
<1>1. <<x>> \in Seq(S) /\ w \o v \in Seq(S)
  BY ConcatProperties
<1>2. Append(v, x) = v \o <<x>> /\ Append(w, x) = w \o <<x>>
  BY AppendIsConcat
<1>3. Append(w \o v, x) = (w \o v) \o <<x>>
  BY <1>1, AppendIsConcat
<1>4. (w \o v) \o <<x>> = w \o (v \o <<x>>) /\ (w \o <<x>>) \o v = w \o (<<x>> \o v)
  BY <1>1, ConcatAssociative
<1> QED
  BY <1>2, <1>3, <1>4

LEMMA TailConcat ==
  ASSUME NEW S, NEW b \in Seq(S), b # <<>>, NEW z \in Seq(S)
  PROVE  /\ b \o z \in Seq(S) /\ b \o z # <<>> /\ Head(b) \in S /\ Tail(b) \in Seq(S)
         /\ (b \o z)[1] = Head(b) /\ Tail(b \o z) = Tail(b) \o z
<1>1. /\ b \o z \in Seq(S) /\ Len(b \o z) = Len(b) + Len(z)
      /\ \A i \in 1 .. Len(b) + Len(z) :
           (b \o z)[i] = IF i <= Len(b) THEN b[i] ELSE z[i - Len(b)]
  BY ConcatProperties
<1>2. /\ Len(b) \in Nat /\ Len(b) >= 1 /\ Len(z) \in Nat /\ Head(b) = b[1]
      /\ Head(b) \in S /\ Tail(b) \in Seq(S) /\ Len(Tail(b)) = Len(b) - 1
      /\ \A i \in 1 .. Len(b) - 1 : Tail(b)[i] = b[i + 1]
  OBVIOUS
<1>3. b \o z # <<>>
  BY <1>1, <1>2, EmptySeq
<1>4. (b \o z)[1] = Head(b)
  BY <1>1, <1>2
<1>5. /\ Tail(b \o z) \in Seq(S) /\ Len(Tail(b \o z)) = Len(b \o z) - 1
      /\ \A i \in 1 .. Len(Tail(b \o z)) : Tail(b \o z)[i] = (b \o z)[i + 1]
  BY <1>1, <1>3, HeadTailProperties
<1>6. /\ Tail(b) \o z \in Seq(S) /\ Len(Tail(b) \o z) = Len(Tail(b)) + Len(z)
      /\ \A i \in 1 .. Len(Tail(b)) + Len(z) :
           (Tail(b) \o z)[i] = IF i <= Len(Tail(b)) THEN Tail(b)[i] ELSE z[i - Len(Tail(b))]
  BY <1>2, ConcatProperties
<1>7. Len(Tail(b \o z)) = Len(Tail(b) \o z)
  BY <1>1, <1>2, <1>5, <1>6
<1>8. ASSUME NEW i \in 1 .. Len(Tail(b \o z)) PROVE Tail(b \o z)[i] = (Tail(b) \o z)[i]
  <2> DEFINE n == Len(b)
             m == Len(z)
  <2>1. /\ n \in Nat /\ n >= 1 /\ m \in Nat /\ i \in 1 .. n + m - 1 /\ i + 1 \in 1 .. n + m
        /\ i \in 1 .. (n - 1) + m
    BY <1>1, <1>2, <1>5
  <2>2. Tail(b \o z)[i] = IF i + 1 <= n THEN b[i + 1] ELSE z[i + 1 - n]
    BY <1>1, <1>5, <2>1
  <2>3. (Tail(b) \o z)[i] = IF i <= n - 1 THEN Tail(b)[i] ELSE z[i - (n - 1)]
    BY <1>2, <1>6, <2>1
  <2> HIDE DEF n, m
  <2>4. i <= n - 1 => Tail(b)[i] = b[i + 1]
    BY <1>2, <2>1 DEF n
  <2>5. (i + 1 <= n <=> i <= n - 1) /\ i + 1 - n = i - (n - 1)
    BY <2>1
  <2> QED
    BY <2>2, <2>3, <2>4, <2>5
<1>9. Tail(b \o z) = Tail(b) \o z
  BY <1>5, <1>6, <1>7, <1>8, SeqEqual
<1> QED
  BY <1>1, <1>2, <1>3, <1>4, <1>9

(* The first of b moves, as u, to the end of a.                            *)
LEMMA HeadMoves ==
  ASSUME NEW S, NEW a \in Seq(S), NEW b \in Seq(S), b # <<>>, NEW u \in S,
         NEW i, i = Len(a) + 1
  PROVE  /\ i \in 1 .. Len(a \o b) /\ (a \o b)[i] = b[1] /\ a \o b \in Seq(S)
         /\ Append(a, u) \o Tail(b) = [a \o b EXCEPT ![i] = u]
         /\ u = b[1] => Append(a, u) \o Tail(b) = a \o b
<1> DEFINE x == a \o b
           y == Append(a, u) \o Tail(b)
           n == Len(a)
           m == Len(b)
<1>1. /\ n \in Nat /\ m \in Nat /\ m >= 1 /\ i \in 1 .. n + m /\ i = n + 1
      /\ Tail(b) \in Seq(S) /\ Len(Tail(b)) = m - 1
      /\ \A j \in 1 .. m - 1 : Tail(b)[j] = b[j + 1]
      /\ Append(a, u) \in Seq(S) /\ Len(Append(a, u)) = n + 1 /\ Append(a, u)[n + 1] = u
      /\ \A j \in 1 .. n : Append(a, u)[j] = a[j]
  OBVIOUS
<1>2. /\ x \in Seq(S) /\ Len(x) = n + m
      /\ \A j \in 1 .. n + m : x[j] = IF j <= n THEN a[j] ELSE b[j - n]
  BY ConcatProperties
<1>3. /\ y \in Seq(S) /\ Len(y) = Len(Append(a, u)) + Len(Tail(b))
      /\ \A j \in 1 .. Len(Append(a, u)) + Len(Tail(b)) :
           y[j] = IF j <= Len(Append(a, u)) THEN Append(a, u)[j] ELSE Tail(b)[j - Len(Append(a, u))]
  BY <1>1, ConcatProperties
<1> HIDE DEF x, n, m, y
<1>4. Len(y) = n + m /\ Len(Append(a, u)) + Len(Tail(b)) = n + m
  <2>1. n \in Nat /\ m \in Nat /\ (n + 1) + (m - 1) = n + m
    BY <1>1
  <2>2. Len(y) = (n + 1) + (m - 1) /\ Len(Append(a, u)) + Len(Tail(b)) = (n + 1) + (m - 1)
    BY <1>1, <1>3, Zenon
  <2> QED
    BY <2>1, <2>2, Zenon
<1>5. \A j \in 1 .. n + m : y[j] = IF j = i THEN u ELSE x[j]
  <2> SUFFICES ASSUME NEW j \in 1 .. n + m PROVE y[j] = IF j = i THEN u ELSE x[j]
    OBVIOUS
  <2>1. y[j] = IF j <= n + 1 THEN Append(a, u)[j] ELSE Tail(b)[j - (n + 1)]
    BY <1>1, <1>3, <1>4
  <2>2. CASE j <= n
    BY <1>1, <1>2, <2>1, <2>2
  <2>3. CASE j = n + 1
    BY <1>1, <2>1, <2>3
  <2>4. CASE j > n + 1
    <3>1. j - (n + 1) \in 1 .. m - 1 /\ (j - (n + 1)) + 1 = j - n /\ ~(j <= n) /\ ~(j <= n + 1) /\ j # i
      BY <1>1, <2>4
    <3>2. Tail(b)[j - (n + 1)] = b[j - n]
      BY <1>1, <3>1
    <3> QED
      BY <1>2, <2>1, <3>1, <3>2
  <2> QED
    BY <1>1, <2>2, <2>3, <2>4
<1>6. x[i] = b[1]
  <2>1. ~(i <= n) /\ i - n = 1
    BY <1>1
  <2> QED
    BY <1>1, <1>2, <2>1
<1>7. y = [x EXCEPT ![i] = u]
  <2> DEFINE w == [x EXCEPT ![i] = u]
  <2>1. /\ w \in Seq(S) /\ Len(w) = n + m
        /\ \A j \in 1 .. n + m : w[j] = IF j = i THEN u ELSE x[j]
    BY <1>1, <1>2, ExceptSeq
  <2> HIDE DEF w
  <2>2. \A j \in 1 .. Len(y) : y[j] = w[j]
    BY <1>4, <1>5, <2>1
  <2>3. y = w
    BY <1>3, <1>4, <2>1, <2>2, SeqEqual
  <2> QED
    BY <2>3 DEF w
<1>8. ASSUME u = b[1] PROVE y = x
  <2>1. \A j \in 1 .. Len(y) : y[j] = x[j]
    BY <1>4, <1>5, <1>6, <1>8
  <2> QED
    BY <1>2, <1>3, <1>4, <2>1, SeqEqual
<1> QED
  BY <1>1, <1>2, <1>6, <1>7, <1>8 DEF x, y

(* Concatenation, for steps that only regroup. *)
Joined(x, y) == x \o y

LEMMA JoinedOne ==
  ASSUME NEW S, NEW x \in Seq(S), NEW y \in Seq(S), NEW z \in Seq(S)
  PROVE  Joined(Joined(x, y), z) = Joined(x, Joined(y, z))
<1>1. (x \o y) \o z = x \o (y \o z)
  BY ConcatAssociative
<1> QED
  BY <1>1 DEF Joined

LEMMA JoinedTyped ==
  ASSUME NEW S, NEW x \in Seq(S), NEW y \in Seq(S)
  PROVE  Joined(x, y) \in Seq(S)
BY ConcatProperties DEF Joined

LEMMA RegroupJoined ==
  ASSUME NEW S, NEW a \in Seq(S), NEW b \in Seq(S), NEW c \in Seq(S), NEW d \in Seq(S),
         NEW e \in Seq(S), NEW f \in Seq(S)
  PROVE  LET s == Joined(a, Joined(b, Joined(c, Joined(d, Joined(e, f))))) IN
         /\ Joined(Joined(a, b), Joined(c, Joined(d, Joined(e, f)))) = s
         /\ Joined(Joined(a, Joined(b, c)), Joined(d, Joined(e, f))) = s
         /\ Joined(Joined(a, Joined(b, Joined(c, d))), Joined(e, f)) = s
         /\ Joined(Joined(a, Joined(b, Joined(c, Joined(d, e)))), f) = s
<1>1. \A x, y, z \in Seq(S) : Joined(Joined(x, y), z) = Joined(x, Joined(y, z))
  BY JoinedOne
<1>2. \A x, y \in Seq(S) : Joined(x, y) \in Seq(S)
  BY JoinedTyped
<1>3. \A x, y, z, w \in Seq(S) :
        Joined(Joined(x, Joined(y, z)), w) = Joined(x, Joined(y, Joined(z, w)))
  BY <1>1, <1>2
<1>4. \A x, y, z, v, w \in Seq(S) :
        Joined(Joined(x, Joined(y, Joined(z, v))), w) = Joined(x, Joined(y, Joined(z, Joined(v, w))))
  <2> SUFFICES ASSUME NEW x \in Seq(S), NEW y \in Seq(S), NEW z \in Seq(S),
                      NEW v \in Seq(S), NEW w \in Seq(S)
               PROVE  Joined(Joined(x, Joined(y, Joined(z, v))), w)
                      = Joined(x, Joined(y, Joined(z, Joined(v, w))))
    OBVIOUS
  <2>1. Joined(z, v) \in Seq(S)
    BY <1>2
  <2>2. Joined(Joined(x, Joined(y, Joined(z, v))), w) = Joined(x, Joined(y, Joined(Joined(z, v), w)))
    BY <1>3, <2>1
  <2>3. Joined(Joined(z, v), w) = Joined(z, Joined(v, w))
    BY <1>1
  <2> QED
    BY <2>2, <2>3
<1>5. Joined(e, f) \in Seq(S) /\ Joined(d, e) \in Seq(S)
  BY <1>2
<1>6. Joined(d, Joined(e, f)) \in Seq(S)
  BY <1>2, <1>5
<1>7. Joined(c, Joined(d, Joined(e, f))) \in Seq(S)
  BY <1>2, <1>6
<1>8. Joined(Joined(a, Joined(b, Joined(c, Joined(d, e)))), f)
      = Joined(a, Joined(b, Joined(c, Joined(Joined(d, e), f))))
  BY <1>4, <1>5
<1>9. Joined(Joined(d, e), f) = Joined(d, Joined(e, f))
  BY <1>1
<1>10. Joined(Joined(a, Joined(b, Joined(c, Joined(d, e)))), f)
       = Joined(a, Joined(b, Joined(c, Joined(d, Joined(e, f)))))
  BY <1>8, <1>9
<1>11. Joined(Joined(a, b), Joined(c, Joined(d, Joined(e, f))))
       = Joined(a, Joined(b, Joined(c, Joined(d, Joined(e, f)))))
  BY <1>1, <1>7
<1>12. Joined(Joined(a, Joined(b, c)), Joined(d, Joined(e, f)))
       = Joined(a, Joined(b, Joined(c, Joined(d, Joined(e, f)))))
  BY <1>3, <1>6
<1>13. Joined(Joined(a, Joined(b, Joined(c, d))), Joined(e, f))
       = Joined(a, Joined(b, Joined(c, Joined(d, Joined(e, f)))))
  BY <1>4, <1>5
<1> QED
  BY <1>10, <1>11, <1>12, <1>13

LEMMA JoinedLen ==
  ASSUME NEW S, NEW a \in Seq(S), NEW b \in Seq(S)
  PROVE  Len(Joined(a, b)) = Len(a) + Len(b) /\ Len(a) \in Nat /\ Len(b) \in Nat
<1>1. Len(a \o b) = Len(a) + Len(b)
  BY ConcatProperties
<1>2. Len(a) \in Nat /\ Len(b) \in Nat
  OBVIOUS
<1> QED
  BY <1>1, <1>2 DEF Joined

LEMMA JoinedAppend ==
  ASSUME NEW S, NEW a \in Seq(S), NEW b \in Seq(S), NEW u \in S
  PROVE  Append(Joined(a, b), u) = Joined(a, Append(b, u)) /\ Append(b, u) \in Seq(S)
<1>1. Append(a \o b, u) = a \o Append(b, u)
  BY ConcatAppend
<1>2. Append(b, u) \in Seq(S)
  OBVIOUS
<1> QED
  BY <1>1, <1>2 DEF Joined

LEMMA JoinedMoves ==
  ASSUME NEW S, NEW a \in Seq(S), NEW b \in Seq(S), b # <<>>, NEW u \in S,
         NEW i, i = Len(a) + 1
  PROVE  /\ i \in 1 .. Len(Joined(a, b)) /\ Joined(a, b)[i] = b[1]
         /\ Joined(Append(a, u), Tail(b)) = [Joined(a, b) EXCEPT ![i] = u]
         /\ u = b[1] => Joined(Append(a, u), Tail(b)) = Joined(a, b)
<1>1. /\ i \in 1 .. Len(a \o b) /\ (a \o b)[i] = b[1]
      /\ Append(a, u) \o Tail(b) = [a \o b EXCEPT ![i] = u]
      /\ u = b[1] => Append(a, u) \o Tail(b) = a \o b
  BY HeadMoves
<1> QED
  BY <1>1 DEF Joined

LEMMA JoinedTail ==
  ASSUME NEW S, NEW b \in Seq(S), b # <<>>, NEW z \in Seq(S)
  PROVE  /\ Joined(b, z) # <<>> /\ Head(b) \in S /\ Tail(b) \in Seq(S) /\ Head(b) = b[1]
         /\ Joined(b, z)[1] = Head(b) /\ Tail(Joined(b, z)) = Joined(Tail(b), z)
<1>1. b \o z # <<>> /\ (b \o z)[1] = Head(b) /\ Tail(b \o z) = Tail(b) \o z
  BY TailConcat
<1>2. Head(b) \in S /\ Tail(b) \in Seq(S) /\ Head(b) = b[1]
  OBVIOUS
<1> QED
  BY <1>1, <1>2 DEF Joined

MovesTo(a, b, u, i) ==
  /\ i \in 1 .. Len(Joined(a, b)) /\ Joined(a, b)[i] = b[1]
  /\ Joined(Append(a, u), Tail(b)) = [Joined(a, b) EXCEPT ![i] = u]

LEMMA MovesToEnd ==
  ASSUME NEW S, NEW a \in Seq(S), NEW b \in Seq(S), b # <<>>, NEW u \in S,
         NEW i, i = Len(a) + 1
  PROVE  MovesTo(a, b, u, i)
BY JoinedMoves DEF MovesTo

LEMMA JoinedSame ==
  ASSUME NEW S, NEW a \in Seq(S), NEW b \in Seq(S), b # <<>>
  PROVE  Joined(Append(a, Head(b)), Tail(b)) = Joined(a, b)
<1> DEFINE u == Head(b)
           i == Len(a) + 1
<1>1. u \in S /\ u = b[1] /\ i = Len(a) + 1
  OBVIOUS
<1> HIDE DEF u, i
<1>2. u = b[1] => Joined(Append(a, u), Tail(b)) = Joined(a, b)
  BY <1>1, JoinedMoves
<1> QED
  BY <1>1, <1>2 DEF u

LEMMA JoinedPair ==
  ASSUME NEW S, NEW a \in Seq(S), NEW b \in Seq(S), NEW c \in Seq(S), NEW d \in Seq(S),
         NEW z \in Seq(S), Joined(a, b) = Joined(c, d)
  PROVE  Joined(a, Joined(b, z)) = Joined(c, Joined(d, z))
<1>1. Joined(Joined(a, b), z) = Joined(a, Joined(b, z))
  BY JoinedOne
<1>2. Joined(Joined(c, d), z) = Joined(c, Joined(d, z))
  BY JoinedOne
<1> QED
  BY <1>1, <1>2

LEMMA JoinedWith ==
  ASSUME NEW S, NEW b \in Seq(S), NEW u \in S
  PROVE  Joined(b, << u >>) = Append(b, u) /\ << u >> \in Seq(S) /\ Append(b, u) \in Seq(S)
<1>1. b \o << u >> = Append(b, u)
  OBVIOUS
<1>2. << u >> \in Seq(S) /\ Append(b, u) \in Seq(S)
  OBVIOUS
<1> QED
  BY <1>1, <1>2 DEF Joined

=============================================================================
