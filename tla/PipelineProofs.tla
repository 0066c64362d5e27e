--------------------------- MODULE PipelineProofs ---------------------------
(***************************************************************************)
(* Proofs about the pipeline for every program, number of registers,       *)
(* rename registers and epochs and depth of its FIFOs.                     *)
(*                                                                         *)
(* First, the rename registers are accounted for, and therefore never      *)
(* shared.                                                                 *)
(*                                                                         *)
(* Then, a settled core implements Machine, which executes one instruction *)
(* at a time.  The FIFOs are read as one line of instructions, oldest      *)
(* first.  The register file is right when each of them is to find, or has *)
(* found, the registers that those before it leave (Values, Sources); the  *)
(* flow of control is right when the live ones follow each other in the    *)
(* program, as far as the predictions made for them are true (Control).    *)
(* FlowInv says both of the line.  Writeback is then the only rule that    *)
(* the machine sees.  PipelineInvariant defines all of these.              *)
(***************************************************************************)
EXTENDS PipelineInvariant, SequenceLemmas, FiniteSetTheorems

-----------------------------------------------------------------------------
(* The accounting of rename registers, from one writer to the next.        *)
LEMMA AheadNext ==
  ASSUME NEW s \in RenameReg, NEW c \in 1 .. RenameRegs - 1
  PROVE  NextReReg(Ahead(s, c)) = Ahead(s, c + 1)
BY RegisterFileAssumption DEF NextReReg, Ahead, RenameReg

LEMMA AheadDistinct ==
  ASSUME NEW s \in RenameReg, NEW c \in 1 .. RenameRegs, NEW d \in 1 .. RenameRegs, c < d
  PROVE  Ahead(s, c) # Ahead(s, d)
BY RegisterFileAssumption DEF Ahead, RenameReg

LEMMA WriterReport ==
  ASSUME NEW q \in Seq(WriteReport), NEW k \in Writers(q)
  PROVE  q[k] \in WriteReport /\ q[k].regNum \in RenameReg
<1>1. q[k] \in WriteReport
  BY DEF Writers
<1> QED BY <1>1 DEF WriteReport

LEMMA WritersFinite ==
  ASSUME NEW q \in Seq(WriteReport)
  PROVE  /\ IsFiniteSet(Writers(q)) /\ Cardinality(Writers(q)) \in Nat
         /\ \A k \in Writers(q) :
              /\ IsFiniteSet(From(q, k))
              /\ Cardinality(From(q, k)) \in 1 .. Cardinality(Writers(q))
<1>1. IsFiniteSet(1 .. Len(q))
  BY FS_Interval
<1>2. IsFiniteSet(Writers(q))
  <2>1. Writers(q) \in SUBSET (1 .. Len(q))
    BY DEF Writers
  <2> QED BY <1>1, <2>1, FS_Subset
<1>3. Cardinality(Writers(q)) \in Nat
  BY <1>2, FS_CardinalityType
<1>4. ASSUME NEW k \in Writers(q)
      PROVE  /\ IsFiniteSet(From(q, k))
             /\ Cardinality(From(q, k)) \in 1 .. Cardinality(Writers(q))
  <2>1. From(q, k) \in SUBSET Writers(q)
    BY DEF From
  <2>2. IsFiniteSet(From(q, k)) /\ Cardinality(From(q, k)) <= Cardinality(Writers(q))
    BY <1>2, <2>1, FS_Subset
  <2>3. k \in From(q, k)
    BY DEF From, Writers
  <2>4. Cardinality(From(q, k)) \in Nat /\ Cardinality(From(q, k)) # 0
    BY <2>2, <2>3, FS_CardinalityType, FS_EmptySet
  <2> QED BY <1>3, <2>2, <2>4
<1> QED BY <1>2, <1>3, <1>4

LEMMA AccountedAppend ==
  ASSUME NEW q \in Seq(WriteReport), NEW e \in WriteReport,
         NEW limiter \in 0 .. RenameRegs, NEW next \in RenameReg,
         Accounted(q, limiter, next),
         e.write => limiter < RenameRegs /\ e.regNum = next
  PROVE  IF e.write THEN Accounted(Append(q, e), limiter + 1, NextReReg(next))
                    ELSE Accounted(Append(q, e), limiter, next)
<1> DEFINE p == Append(q, e)
           n == Len(q) + 1
<1>1. /\ p \in Seq(WriteReport) /\ Len(p) = n /\ DOMAIN p = 1 .. n /\ p[n] = e
      /\ \A k \in 1 .. Len(q) : p[k] = q[k]
  OBVIOUS
<1>2. Writers(q) \subseteq 1 .. Len(q)
  BY DEF Writers
<1>3. CASE ~e.write
  <2>1. Writers(p) = Writers(q)
    BY <1>1, <1>3 DEF Writers
  <2>2. \A k \in Writers(p) : p[k] = q[k] /\ From(p, k) = From(q, k)
    BY <1>1, <1>2, <2>1 DEF From
  <2> QED BY <1>3, <2>1, <2>2 DEF Accounted
<1>4. CASE e.write
  <2>1. Writers(p) = Writers(q) \cup {n}
    BY <1>1, <1>4 DEF Writers
  <2>2. n \notin Writers(q)
    BY <1>2
  <2>3. Cardinality(Writers(p)) = limiter + 1
    BY <2>1, <2>2, WritersFinite, FS_AddElement DEF Accounted
  <2>4. ASSUME NEW k \in Writers(p)
        PROVE  NextReReg(next) = Ahead(p[k].regNum, Cardinality(From(p, k)))
    <3>1. CASE k = n
      <4>1. From(p, k) = {n}
        BY <1>1, <1>2, <2>1, <3>1 DEF From
      <4>2. Cardinality(From(p, k)) = 1
        BY <4>1, FS_Singleton
      <4>3. p[k].regNum = next
        BY <1>1, <1>4, <3>1
      <4> HIDE DEF p
      <4> QED BY <4>2, <4>3, RegisterFileAssumption DEF NextReReg, Ahead, RenameReg
    <3>2. CASE k \in Writers(q)
      <4>1. From(p, k) = From(q, k) \cup {n} /\ n \notin From(q, k)
        BY <1>2, <2>1, <2>2, <3>2 DEF From
      <4>2. Cardinality(From(p, k)) = Cardinality(From(q, k)) + 1
        BY <3>2, <4>1, WritersFinite, FS_AddElement
      <4>3. p[k] = q[k] /\ q[k].regNum \in RenameReg
        BY <1>1, <1>2, <3>2, WriterReport
      <4>4. next = Ahead(q[k].regNum, Cardinality(From(q, k)))
        BY <3>2 DEF Accounted
      <4>5. Cardinality(From(q, k)) \in 1 .. limiter
        BY <3>2, WritersFinite DEF Accounted
      <4>6. limiter < RenameRegs
        BY <1>4
      <4> HIDE DEF p
      <4> QED BY <4>2, <4>3, <4>4, <4>5, <4>6, AheadNext, RegisterFileAssumption
    <3> QED BY <2>1, <3>1, <3>2
  <2> QED BY <1>4, <2>3, <2>4 DEF Accounted
<1> QED BY <1>3, <1>4

(* Counting is not disturbed when the places of a sequence move by one.    *)
LEMMA Shifted ==
  ASSUME NEW S \in SUBSET (Nat \ {0}), IsFiniteSet(S), NEW T,
         T = { j \in Nat : j + 1 \in S }
  PROVE  IsFiniteSet(T) /\ Cardinality(T) = Cardinality(S)
<1> DEFINE f == [j \in S |-> j - 1]
<1>1. f \in [S -> T]
  OBVIOUS
<1>2. \A i, j \in S : f[i] = f[j] => i = j
  OBVIOUS
<1>3. \A j \in T : \E i \in S : f[i] = j
  <2> TAKE j \in T
  <2> WITNESS j + 1 \in S
  <2> QED OBVIOUS
<1>4. f \in Bijection(S, T)
  <2> HIDE DEF f
  <2> QED BY <1>1, <1>2, <1>3 DEF Bijection, Injection, Surjection, IsInjective
<1>5. ExistsBijection(S, T)
  BY <1>4 DEF ExistsBijection
<1> QED BY <1>5, FS_Bijection

LEMMA AccountedTail ==
  ASSUME NEW q \in Seq(WriteReport), q # <<>>,
         NEW limiter \in 0 .. RenameRegs, NEW next \in RenameReg,
         Accounted(q, limiter, next)
  PROVE  IF Head(q).write THEN limiter > 0 /\ Accounted(Tail(q), limiter - 1, next)
                          ELSE Accounted(Tail(q), limiter, next)
<1> DEFINE p == Tail(q)
           S == Writers(q) \ {1}
<1>1. /\ p \in Seq(WriteReport) /\ Len(p) = Len(q) - 1 /\ Head(q) = q[1] /\ 1 \in DOMAIN q
      /\ \A k \in 1 .. Len(p) : p[k] = q[k + 1]
  OBVIOUS
<1>2. Writers(q) \subseteq 1 .. Len(q)
  BY DEF Writers
<1>3. Writers(p) = { j \in Nat : j + 1 \in S }
  <2>1. ASSUME NEW j \in Writers(p)
        PROVE  j \in Nat /\ j + 1 \in S
    BY <1>1 DEF Writers
  <2>2. ASSUME NEW j \in Nat, j + 1 \in S
        PROVE  j \in Writers(p)
    BY <1>1, <1>2, <2>2 DEF Writers
  <2> QED BY <2>1, <2>2
<1>4. S \in SUBSET (Nat \ {0}) /\ IsFiniteSet(S)
      /\ Cardinality(S) = IF q[1].write THEN limiter - 1 ELSE limiter
  <2>1. 1 \in Writers(q) <=> q[1].write
    BY <1>1 DEF Writers
  <2>2. IsFiniteSet(Writers(q)) /\ Cardinality(Writers(q)) = limiter
    BY WritersFinite DEF Accounted
  <2>3. IsFiniteSet(S) /\ Cardinality(S) = IF 1 \in Writers(q) THEN limiter - 1 ELSE limiter
    BY <2>2, FS_RemoveElement
  <2> QED BY <1>2, <2>1, <2>3
<1>5. Cardinality(Writers(p)) = IF q[1].write THEN limiter - 1 ELSE limiter
  <2> HIDE DEF S, p
  <2> QED BY <1>3, <1>4, Shifted
<1>6. Cardinality(Writers(p)) \in Nat
  BY <1>1, WritersFinite
<1>7. ASSUME NEW k \in Writers(p)
      PROVE  next = Ahead(p[k].regNum, Cardinality(From(p, k)))
  <2>1. k \in Nat /\ k + 1 \in Writers(q) /\ k \in 1 .. Len(p)
    BY <1>3, <1>1 DEF Writers
  <2>2. From(p, k) = { j \in Nat : j + 1 \in From(q, k + 1) }
    <3>1. \A j \in Nat : j >= k => (j + 1 \in S <=> j + 1 \in Writers(q))
      BY <2>1, <1>1
    <3> HIDE DEF S, p
    <3> QED BY <1>3, <2>1, <3>1 DEF From
  <2>3. From(q, k + 1) \in SUBSET (Nat \ {0}) /\ IsFiniteSet(From(q, k + 1))
    BY <1>2, <2>1, WritersFinite DEF From
  <2>4. Cardinality(From(p, k)) = Cardinality(From(q, k + 1))
    <3> HIDE DEF p
    <3> QED BY <2>2, <2>3, Shifted
  <2>5. next = Ahead(q[k + 1].regNum, Cardinality(From(q, k + 1)))
    BY <2>1 DEF Accounted
  <2> QED BY <1>1, <2>1, <2>4, <2>5
<1>8. q[1].write \in BOOLEAN
  <2>1. q[1] \in WriteReport
    BY <1>1
  <2> QED BY <2>1 DEF WriteReport
<1> HIDE DEF p
<1>9. q[1].write => limiter > 0 /\ Accounted(p, limiter - 1, next)
  BY <1>5, <1>6, <1>7, RegisterFileAssumption DEF Accounted
<1>10. ~q[1].write => Accounted(p, limiter, next)
  BY <1>5, <1>6, <1>7 DEF Accounted
<1> QED BY <1>1, <1>8, <1>9, <1>10 DEF p

(* Registers that are accounted for are not shared.                        *)
LEMMA NotShared ==
  ASSUME NEW q \in Seq(WriteReport), NEW limiter \in 0 .. RenameRegs, NEW next \in RenameReg,
         Accounted(q, limiter, next), NEW j \in Writers(q), NEW k \in Writers(q), j < k
  PROVE  q[j].regNum # q[k].regNum
<1>1. From(q, k) \in SUBSET From(q, j) /\ j \in From(q, j) /\ j \notin From(q, k)
  BY DEF From, Writers
<1>2. /\ Cardinality(From(q, k)) \in 1 .. limiter /\ Cardinality(From(q, j)) \in 1 .. limiter
      /\ IsFiniteSet(From(q, j))
  BY WritersFinite DEF Accounted
<1>3. Cardinality(From(q, k)) < Cardinality(From(q, j))
  BY <1>1, <1>2, FS_Subset
<1>4. q[j].regNum \in RenameReg /\ q[k].regNum \in RenameReg
  BY WriterReport
<1>5. /\ next = Ahead(q[j].regNum, Cardinality(From(q, j)))
      /\ next = Ahead(q[k].regNum, Cardinality(From(q, k)))
  BY DEF Accounted
<1>6. /\ Cardinality(From(q, k)) \in 1 .. RenameRegs
      /\ Cardinality(From(q, j)) \in 1 .. RenameRegs
  BY <1>2, RegisterFileAssumption
<1>7. Ahead(q[j].regNum, Cardinality(From(q, k))) # Ahead(q[j].regNum, Cardinality(From(q, j)))
  BY <1>3, <1>4, <1>6, AheadDistinct
<1> QED BY <1>5, <1>7

-----------------------------------------------------------------------------
(* What the two FIFOs of the register file hold together when an element   *)
(* enters the first, moves to the second and leaves it.                    *)

LEMMA ReportTyped ==
  ASSUME NEW q \in Seq(RegReadReport)
  PROVE  /\ WriteReports(q) \in Seq(WriteReport) /\ Len(WriteReports(q)) = Len(q)
         /\ \A k \in 1 .. Len(q) : WriteReports(q)[k] = q[k].write
<1>1. \A k \in 1 .. Len(q) : q[k] \in RegReadReport
  OBVIOUS
<1>2. \A k \in 1 .. Len(q) : q[k].write \in WriteReport
  BY <1>1 DEF RegReadReport
<1>3. WriteReports(q) \in [1 .. Len(q) -> WriteReport]
  BY <1>2 DEF WriteReports
<1> QED BY <1>3 DEF WriteReports

LEMMA ReportsAppend ==
  ASSUME NEW q \in Seq(RegReadReport), NEW e \in RegReadReport
  PROVE  e.write \in WriteReport /\ WriteReports(Append(q, e)) = Append(WriteReports(q), e.write)
<1>0. Append(q, e) \in Seq(RegReadReport)
  OBVIOUS
<1>1. PICK p \in Seq(RegReadReport) : p = Append(q, e)
  BY <1>0, Zenon
<1>2. /\ Len(p) = Len(q) + 1 /\ \A k \in 1 .. Len(q) : p[k] = q[k]
      /\ p[Len(q) + 1] = e
  BY <1>1
<1>3. e.write \in WriteReport
  BY DEF RegReadReport
<1>4. PICK v \in Seq(WriteReport) : v = WriteReports(q) /\ Len(v) = Len(q)
                                    /\ \A k \in 1 .. Len(q) : v[k] = q[k].write
  BY ReportTyped
<1>5. PICK u \in Seq(WriteReport) : u = WriteReports(p) /\ Len(u) = Len(p)
                                    /\ \A k \in 1 .. Len(p) : u[k] = p[k].write
  BY ReportTyped
<1>6. PICK z \in Seq(WriteReport) : /\ z = Append(v, e.write) /\ Len(z) = Len(v) + 1
                                    /\ \A k \in 1 .. Len(v) : z[k] = v[k]
                                    /\ z[Len(v) + 1] = e.write
  <2> DEFINE y == Append(v, e.write)
  <2>1. /\ y \in Seq(WriteReport) /\ Len(y) = Len(v) + 1
        /\ \A k \in 1 .. Len(v) : y[k] = v[k]
        /\ y[Len(v) + 1] = e.write
    BY <1>3, AppendProperties
  <2> QED BY <2>1, Zenon
<1>7. \A k \in 1 .. Len(u) : u[k] = z[k]
  <2> TAKE k \in 1 .. Len(u)
  <2>1. k \in 1 .. Len(q) \/ k = Len(q) + 1
    BY <1>2, <1>5
  <2> QED BY <1>2, <1>4, <1>5, <1>6, <2>1
<1>8. u = z
  BY <1>2, <1>4, <1>5, <1>6, <1>7, SeqEqual
<1> QED BY <1>1, <1>3, <1>4, <1>5, <1>6, <1>8

LEMMA ReportsHead ==
  ASSUME NEW q \in Seq(RegReadReport), q # <<>>
  PROVE  /\ Head(q).write \in WriteReport /\ WriteReports(Tail(q)) \in Seq(WriteReport)
         /\ WriteReports(q) = <<Head(q).write>> \o WriteReports(Tail(q))
<1>0. Tail(q) \in Seq(RegReadReport)
  OBVIOUS
<1>1. PICK p \in Seq(RegReadReport) : p = Tail(q)
  BY <1>0, Zenon
<1>2. /\ Len(q) \in Nat \ {0} /\ Len(p) = Len(q) - 1
      /\ \A k \in 1 .. Len(p) : p[k] = q[k + 1]
      /\ Head(q) = q[1] /\ Head(q) \in RegReadReport
  BY <1>1
<1>3. PICK x \in WriteReport : x = Head(q).write
  BY <1>2 DEF RegReadReport
<1>4. PICK v \in Seq(WriteReport) : v = WriteReports(q) /\ Len(v) = Len(q)
                                    /\ \A k \in 1 .. Len(q) : v[k] = q[k].write
  BY ReportTyped
<1>5. PICK u \in Seq(WriteReport) : u = WriteReports(p) /\ Len(u) = Len(p)
                                    /\ \A k \in 1 .. Len(p) : u[k] = p[k].write
  BY ReportTyped
<1>6. <<x>> \in Seq(WriteReport) /\ Len(<<x>>) = 1 /\ <<x>>[1] = x
  OBVIOUS
<1>7. PICK z \in Seq(WriteReport) : /\ z = <<x>> \o u /\ Len(z) = 1 + Len(u)
                                    /\ \A k \in 1 .. 1 + Len(u) :
                                         z[k] = IF k <= 1 THEN <<x>>[k] ELSE u[k - 1]
  <2> DEFINE y == <<x>> \o u
  <2>1. PICK w \in Seq(WriteReport) : w = <<x>> /\ Len(w) = 1
    BY <1>6
  <2>2. /\ w \o u \in Seq(WriteReport) /\ Len(w \o u) = Len(w) + Len(u)
        /\ \A k \in 1 .. Len(w) + Len(u) :
             (w \o u)[k] = IF k <= Len(w) THEN w[k] ELSE u[k - Len(w)]
    BY ConcatProperties
  <2>3. /\ y \in Seq(WriteReport) /\ Len(y) = 1 + Len(u)
        /\ \A k \in 1 .. 1 + Len(u) : y[k] = IF k <= 1 THEN <<x>>[k] ELSE u[k - 1]
    BY <2>1, <2>2
  <2> QED BY <2>3, Zenon
<1>8. \A k \in 1 .. Len(v) : v[k] = z[k]
  <2> TAKE k \in 1 .. Len(v)
  <2>1. CASE k = 1
    BY <1>2, <1>3, <1>4, <1>5, <1>6, <1>7, <2>1
  <2>2. CASE k > 1
    <3>1. k - 1 \in 1 .. Len(p) /\ k - 1 + 1 = k /\ ~(k <= 1) /\ k \in 1 .. 1 + Len(u)
      BY <1>2, <1>4, <1>5, <2>2
    <3>2. v[k] = q[k].write /\ z[k] = u[k - 1] /\ u[k - 1] = p[k - 1].write
      BY <1>4, <1>5, <1>7, <3>1
    <3>3. p[k - 1] = q[k - 1 + 1]
      BY <1>2, <3>1
    <3> QED BY <3>1, <3>2, <3>3
  <2> QED BY <1>4, <2>1, <2>2
<1>9. Len(v) = Len(z)
  BY <1>2, <1>4, <1>5, <1>7
<1>10. v = z
  BY <1>8, <1>9, SeqEqual
<1> QED BY <1>1, <1>3, <1>4, <1>5, <1>7, <1>10

-----------------------------------------------------------------------------
(* Each operation of the register file keeps its invariant.                *)
LEMMA FlightTail ==
  ASSUME NEW w \in Seq(WriteReport), w # <<>>, NEW v \in Seq(WriteReport)
  PROVE  w \o v # <<>> /\ Head(w \o v) = Head(w) /\ Tail(w \o v) = Tail(w) \o v
<1>1. w \o v \in Seq(WriteReport) /\ w \o v # <<>> /\ (w \o v)[1] = Head(w)
  BY TailConcat
<1>2. Tail(w \o v) = Tail(w) \o v
  BY TailConcat
<1> QED BY <1>1, <1>2

LEMMA InFlightTyped ==
  ASSUME NEW r, RegFileOK(r)
  PROVE  /\ r.wbReRegWrite \in Seq(WriteReport) /\ r.readReport \in Seq(RegReadReport)
         /\ WriteReports(r.readReport) \in Seq(WriteReport) /\ InFlight(r) \in Seq(WriteReport)
         /\ r.limiter \in 0 .. RenameRegs /\ r.nextReReg \in RenameReg
<1>1. /\ r.wbReRegWrite \in Seq(WriteReport) /\ r.readReport \in Seq(RegReadReport)
      /\ r.limiter \in 0 .. RenameRegs /\ r.nextReReg \in RenameReg
  BY DEF RegFileOK, RegFileState
<1>2. WriteReports(r.readReport) \in Seq(WriteReport)
  BY <1>1, ReportTyped
<1> QED BY <1>1, <1>2, ConcatProperties DEF InFlight

LEMMA RegFileInit == RegFileInv(EmptyRegFile)
<1>1. RegFileOK(EmptyRegFile)
  BY CodeAssumption, RegisterFileAssumption
     DEF RegFileOK, RegFileState, EmptyRegFile, Register, Value, RenameReg, Tag, NoTag, SpecReg,
         NoValue, Epoch, WritebackSize
<1>2. InFlight(EmptyRegFile) = <<>>
  <2>1. EmptyRegFile.wbReRegWrite = <<>> /\ EmptyRegFile.readReport = <<>>
    BY DEF EmptyRegFile
  <2>2. WriteReports(<<>>) = <<>>
    BY DEF WriteReports
  <2> QED BY <2>1, <2>2 DEF InFlight
<1>3. Writers(<<>>) = {}
  BY DEF Writers
<1>4. EmptyRegFile.limiter = 0
  BY DEF EmptyRegFile
<1> QED BY <1>1, <1>2, <1>3, <1>4, FS_EmptySet DEF RegFileInv, Accounted

LEMMA RequestKeeps ==
  ASSUME NEW r, RegFileInv(r), NEW req \in ReadReq, CanRequest(r)
  PROVE  RegFileInv(reqRegs(r, req))
<1>1. RegFileOK(r)
  BY DEF RegFileInv
<1>2. Append(r.readReq, req) \in Seq(ReadReq) /\ Len(Append(r.readReq, req)) <= FifoSize
  BY <1>1, RegisterFileAssumption DEF RegFileOK, RegFileState, CanRequest
<1>3. RegFileOK(reqRegs(r, req))
  <2> DEFINE q == Append(r.readReq, req)
  <2>1. /\ q \in Seq(ReadReq) /\ Len(q) <= FifoSize
        /\ reqRegs(r, req) = [r EXCEPT !.readReq = q]
    BY <1>2 DEF reqRegs
  <2> HIDE DEF q
  <2>2. reqRegs(r, req) \in RegFileState
    BY <1>1, <2>1 DEF RegFileOK, RegFileState
  <2>3. /\ reqRegs(r, req).readReq = q
        /\ reqRegs(r, req).readReport = r.readReport
        /\ reqRegs(r, req).wbReRegWrite = r.wbReRegWrite
        /\ reqRegs(r, req).pendVal = r.pendVal
    BY <1>1, <2>1 DEF RegFileOK, RegFileState
  <2> QED BY <1>1, <2>1, <2>2, <2>3 DEF RegFileOK
<1>4. /\ InFlight(reqRegs(r, req)) = InFlight(r) /\ reqRegs(r, req).limiter = r.limiter
      /\ reqRegs(r, req).nextReReg = r.nextReReg
  BY <1>1 DEF RegFileOK, RegFileState, reqRegs, InFlight
<1> QED BY <1>3, <1>4 DEF RegFileInv

(* A set of rename registers has a greatest one.                            *)
LEMMA GreatestRegister ==
  ASSUME NEW H \in SUBSET RenameReg, H # {}
  PROVE  \E s \in H : \A u \in H : u <= s
<1> DEFINE T == { RenameRegs - s : s \in H }
<1>1. T \subseteq Nat /\ T # {}
  <2>1. \A s \in RenameReg : RenameRegs - s \in Nat
    BY RegisterFileAssumption DEF RenameReg
  <2>2. PICK h \in H : TRUE
    OBVIOUS
  <2>3. RenameRegs - h \in T
    OBVIOUS
  <2> QED BY <2>1, <2>3
<1>2. PICK x \in T : \A y \in T : ~(<<y, x>> \in OpToRel(<, Nat))
  <2> HIDE DEF T
  <2> QED BY <1>1, NatLessThanWellFounded, WFMin
<1>3. \A y \in T : ~(y < x)
  BY <1>1, <1>2 DEF OpToRel
<1>4. PICK s \in H : x = RenameRegs - s
  OBVIOUS
<1>5. ASSUME NEW u \in H
      PROVE  u <= s
  <2>1. RenameRegs - u \in T
    OBVIOUS
  <2>2. ~(RenameRegs - u < x)
    BY <1>3, <2>1
  <2> QED BY <1>4, <2>2, RegisterFileAssumption DEF RenameReg
<1> QED BY <1>5

LEMMA RenamedTyped ==
  ASSUME NEW r, RegFileOK(r), NEW e \in Epoch, NEW x \in Register
  PROVE  Renamed(r, e, x) \in RenameReport
<1> DEFINE H == Holders(r, e, x)
           s == CHOOSE t \in H : \A u \in H : u <= t
<1>1. r.rnTags \in [RenameReg -> Tag]
  BY DEF RegFileOK, RegFileState
<1>2. CASE H = {}
  BY <1>2, RegisterFileAssumption DEF Renamed, NotRenamed, RenameReport, RenameReg
<1>3. CASE H # {}
  <2>1. H \in SUBSET RenameReg
    BY DEF Holders
  <2>2. s \in H
    BY <1>3, <2>1, GreatestRegister
  <2>3. s \in RenameReg /\ r.rnTags[s].pending \in BOOLEAN
    BY <1>1, <2>1, <2>2 DEF Tag
  <2>4. Renamed(r, e, x) = [valid |-> TRUE, regNum |-> s, pending |-> r.rnTags[s].pending]
    BY <1>3 DEF Renamed
  <2> HIDE DEF s
  <2> QED BY <2>3, <2>4 DEF RenameReport
<1> QED BY <1>2, <1>3

LEMMA ReadKeeps ==
  ASSUME NEW r, RegFileInv(r), CanReadRegFiles(r)
  PROVE  RegFileInv(readRegFiles(r))
<1> DEFINE rq == Head(r.readReq)
           tags == [s \in RenameReg |-> TagAfter(r, rq, s)]
           next == IF rq.write THEN NextReReg(r.nextReReg) ELSE r.nextReReg
           lim == IF rq.write THEN r.limiter + 1 ELSE r.limiter
           w == [write |-> rq.write, conditional |-> rq.conditionalUpdate,
                 pending |-> rq.pendingWrite, regNum |-> r.nextReReg]
           srcs == [o \in Operands |-> Renamed(r, rq.epoch, rq.srcs[o])]
           old == IF rq.write THEN Renamed(r, rq.epoch, rq.dest) ELSE NotRenamed
           vals == [o \in Operands |-> ReadValue(r, rq, rq.srcs[o])]
           report == [srcs |-> srcs, old |-> old, regFileVals |-> vals, write |-> w]
           reqs == Tail(r.readReq)
           reports == Append(r.readReport, report)
           q == readRegFiles(r)
<1>1. /\ RegFileOK(r) /\ r \in RegFileState /\ r.readReq \in Seq(ReadReq)
      /\ Len(r.readReq) <= FifoSize /\ r.readReq # <<>> /\ r.limiter < RenameRegs
      /\ Len(r.readReport) < FifoSize /\ r.readReport \in Seq(RegReadReport)
      /\ r.limiter \in 0 .. RenameRegs /\ r.nextReReg \in RenameReg
      /\ r.regFile \in [Register -> Value] /\ r.rnTags \in [RenameReg -> Tag]
  BY DEF RegFileInv, RegFileOK, RegFileState, CanReadRegFiles
<1>2. rq \in ReadReq /\ reqs \in Seq(ReadReq) /\ Len(reqs) <= FifoSize
  BY <1>1, RegisterFileAssumption
<1>3. /\ rq.epoch \in Epoch /\ rq.srcs \in [Operands -> Register] /\ rq.write \in BOOLEAN
      /\ rq.pendingWrite \in BOOLEAN /\ rq.dest \in Register /\ rq.conditionalUpdate \in BOOLEAN
  BY <1>2 DEF ReadReq
<1> HIDE DEF rq
<1>4. w \in WriteReport /\ w.write = rq.write /\ w.regNum = r.nextReReg
  BY <1>1, <1>3 DEF WriteReport
<1>5. srcs \in [Operands -> RenameReport]
  BY <1>1, <1>3, RenamedTyped
<1>6. old \in RenameReport
  <2>1. NotRenamed \in RenameReport
    BY RegisterFileAssumption DEF NotRenamed, RenameReport, RenameReg
  <2> QED BY <1>1, <1>3, <2>1, RenamedTyped
<1>7. vals \in [Operands -> Value]
  BY <1>1, <1>3, CodeAssumption DEF ReadValue
<1>8. tags \in [RenameReg -> Tag]
  <2>1. NoTag \in Tag
    BY CodeAssumption, RegisterFileAssumption DEF NoTag, Tag, Epoch, Register
  <2>2. ASSUME NEW s \in RenameReg
        PROVE  TagAfter(r, rq, s) \in Tag
    <3>1. r.rnTags[s] \in Tag
      BY <1>1
    <3>2. [valid |-> TRUE, epoch |-> rq.epoch, regNum |-> rq.dest,
           pending |-> rq.pendingWrite] \in Tag
      BY <1>3 DEF Tag
    <3> QED BY <2>1, <3>1, <3>2 DEF TagAfter
  <2> QED BY <2>2
<1>9. next \in RenameReg /\ lim \in 0 .. RenameRegs
  BY <1>1, <1>3, RegisterFileAssumption DEF NextReReg, RenameReg
<1>10. report \in RegReadReport /\ report.write = w
  BY <1>4, <1>5, <1>6, <1>7 DEF RegReadReport
<1>11. q = [r EXCEPT !.readReq = reqs, !.rnTags = tags, !.nextReReg = next,
                     !.limiter = lim, !.readReport = reports]
  BY DEF readRegFiles, rq
<1> HIDE DEF tags, next, lim, w, srcs, old, vals, report, reqs, q
<1>12. reports \in Seq(RegReadReport) /\ Len(reports) <= FifoSize
  BY <1>1, <1>10, RegisterFileAssumption
<1> HIDE DEF reports
<1>13. q \in RegFileState
  BY <1>1, <1>2, <1>8, <1>9, <1>11, <1>12 DEF RegFileState
<1>14. /\ q.readReq = reqs /\ q.readReport = reports /\ q.wbReRegWrite = r.wbReRegWrite
       /\ q.pendVal = r.pendVal /\ q.limiter = lim /\ q.nextReReg = next
  BY <1>1, <1>11 DEF RegFileState
<1>15. RegFileOK(q)
  BY <1>1, <1>2, <1>12, <1>13, <1>14 DEF RegFileOK
<1>16. InFlight(q) = Append(InFlight(r), w)
  <2>1. WriteReports(reports) = Append(WriteReports(r.readReport), w)
    BY <1>1, <1>10, ReportsAppend DEF reports
  <2>2. /\ r.wbReRegWrite \in Seq(WriteReport) /\ WriteReports(r.readReport) \in Seq(WriteReport)
    BY <1>1, InFlightTyped
  <2>3. /\ InFlight(r) = r.wbReRegWrite \o WriteReports(r.readReport)
        /\ InFlight(q) = r.wbReRegWrite \o Append(WriteReports(r.readReport), w)
    BY <1>14, <2>1 DEF InFlight
  <2>4. \A a, b \in Seq(WriteReport), x \in WriteReport :
          a \o Append(b, x) = Append(a \o b, x)
    BY ConcatAppend
  <2>5. r.wbReRegWrite \o Append(WriteReports(r.readReport), w)
          = Append(r.wbReRegWrite \o WriteReports(r.readReport), w)
    BY <1>4, <2>2, <2>4, Zenon
  <2> QED BY <2>3, <2>5
<1>17. Accounted(InFlight(q), lim, next)
  <2>1. InFlight(r) \in Seq(WriteReport) /\ Accounted(InFlight(r), r.limiter, r.nextReReg)
    BY <1>1, InFlightTyped DEF RegFileInv
  <2>2. IF w.write THEN Accounted(Append(InFlight(r), w), r.limiter + 1, NextReReg(r.nextReReg))
                   ELSE Accounted(Append(InFlight(r), w), r.limiter, r.nextReReg)
    BY <1>1, <1>4, <2>1, AccountedAppend
  <2> QED BY <1>3, <1>4, <1>16, <2>2 DEF lim, next
<1> QED BY <1>14, <1>15, <1>17 DEF RegFileInv, q

LEMMA RolledInTyped ==
  ASSUME NEW r, RegFileOK(r)
  PROVE  RolledIn(r) \in [RenameReg -> SpecReg]
<1>1. /\ r.rnRegs \in [RenameReg -> SpecReg]
      /\ r.pendVal \in Seq([regNum : RenameReg, register : Value])
  BY DEF RegFileOK, RegFileState
<1>2. CASE r.pendVal = <<>>
  BY <1>1, <1>2 DEF RolledIn
<1>3. CASE r.pendVal # <<>>
  <2>1. r.pendVal[1] \in [regNum : RenameReg, register : Value]
    BY <1>1, <1>3, FirstTyped
  <2>2. [valid |-> TRUE, register |-> r.pendVal[1].register] \in SpecReg
    BY <2>1 DEF SpecReg
  <2> QED BY <1>1, <1>3, <2>1, <2>2 DEF RolledIn
<1> QED BY <1>2, <1>3

LEMMA PendingKeeps ==
  ASSUME NEW r, RegFileInv(r)
  PROVE  RegFileInv(writePending(r))
<1> DEFINE q == writePending(r)
           regs == RolledIn(r)
           none == <<>>
<1>1. RegFileOK(r) /\ r \in RegFileState
  BY DEF RegFileInv, RegFileOK
<1>2. regs \in [RenameReg -> SpecReg]
  BY <1>1, RolledInTyped
<1>3. none \in Seq([regNum : RenameReg, register : Value]) /\ Len(none) <= 1
  OBVIOUS
<1>4. q = [r EXCEPT !.rnRegs = regs, !.pendVal = none]
  BY DEF writePending
<1> HIDE DEF q, regs, none
<1>5. q \in RegFileState
  BY <1>1, <1>2, <1>3, <1>4 DEF RegFileState
<1>6. /\ q.readReq = r.readReq /\ q.readReport = r.readReport /\ q.wbReRegWrite = r.wbReRegWrite
      /\ q.pendVal = none /\ q.limiter = r.limiter /\ q.nextReReg = r.nextReReg
  BY <1>1, <1>4 DEF RegFileState
<1>7. RegFileOK(q)
  BY <1>1, <1>3, <1>5, <1>6 DEF RegFileOK
<1>8. InFlight(q) = InFlight(r)
  BY <1>6 DEF InFlight
<1> QED BY <1>6, <1>7, <1>8 DEF RegFileInv, q

LEMMA SpeculativeKeeps ==
  ASSUME NEW r, RegFileInv(r), CanWriteSpeculative(r), NEW data \in Value, NEW write \in BOOLEAN
  PROVE  RegFileInv(writeRegSpeculative(r, data, write))
<1> DEFINE q == writeRegSpeculative(r, data, write)
           report == Head(r.readReport)
           w == report.write
           rolled == RolledIn(r)
           regWrite == CASE write /\ ~w.pending -> [valid |-> TRUE, register |-> data]
                         [] ~write /\ w.write /\ report.old.valid -> rolled[report.old.regNum]
                         [] OTHER -> NoValue
           regs == [rolled EXCEPT ![w.regNum] = regWrite]
           none == <<>>
           reports == Tail(r.readReport)
           wb == Append(r.wbReRegWrite, w)
<1>1. /\ RegFileOK(r) /\ r \in RegFileState /\ r.readReport \in Seq(RegReadReport)
      /\ r.readReport # <<>> /\ Len(r.readReport) <= FifoSize
      /\ r.wbReRegWrite \in Seq(WriteReport) /\ Len(r.wbReRegWrite) < WritebackSize
  BY DEF RegFileInv, RegFileOK, RegFileState, CanWriteSpeculative
<1>2. report \in RegReadReport /\ reports \in Seq(RegReadReport) /\ Len(reports) <= FifoSize
  BY <1>1, RegisterFileAssumption
<1>3. /\ w \in WriteReport /\ report.old.regNum \in RenameReg /\ w.regNum \in RenameReg
      /\ w.pending \in BOOLEAN /\ w.write \in BOOLEAN
  BY <1>2 DEF RegReadReport, WriteReport, RenameReport
<1>4. rolled \in [RenameReg -> SpecReg]
  BY <1>1, RolledInTyped
<1>5. regs \in [RenameReg -> SpecReg]
  <2>1. NoValue \in SpecReg
    BY DEF NoValue, SpecReg, Value
  <2>2. [valid |-> TRUE, register |-> data] \in SpecReg
    BY DEF SpecReg
  <2>3. rolled[report.old.regNum] \in SpecReg
    BY <1>3, <1>4
  <2>4. regWrite \in SpecReg
    <3> HIDE DEF w, rolled, report
    <3> QED BY <2>1, <2>2, <2>3
  <2> HIDE DEF regWrite, w, rolled
  <2> QED BY <1>3, <1>4, <2>4
<1>6. none \in Seq([regNum : RenameReg, register : Value]) /\ Len(none) <= 1
  OBVIOUS
<1>7. q = [r EXCEPT !.readReport = reports, !.pendVal = none, !.rnRegs = regs,
                    !.wbReRegWrite = wb]
  BY DEF writeRegSpeculative
<1> HIDE DEF q, report, w, rolled, regWrite, regs, none, reports
<1>8. wb \in Seq(WriteReport) /\ Len(wb) <= WritebackSize
  BY <1>1, <1>3 DEF WritebackSize
<1> HIDE DEF wb
<1>9. q \in RegFileState
  BY <1>1, <1>2, <1>5, <1>6, <1>7, <1>8 DEF RegFileState
<1>10. /\ q.readReq = r.readReq /\ q.readReport = reports /\ q.wbReRegWrite = wb
       /\ q.pendVal = none /\ q.limiter = r.limiter /\ q.nextReReg = r.nextReReg
  BY <1>1, <1>7 DEF RegFileState
<1>11. RegFileOK(q)
  BY <1>1, <1>2, <1>6, <1>8, <1>9, <1>10 DEF RegFileOK
<1>12. InFlight(q) = InFlight(r)
  <2>1. /\ w \in WriteReport /\ WriteReports(reports) \in Seq(WriteReport)
        /\ WriteReports(r.readReport) = <<w>> \o WriteReports(reports)
    BY <1>1, ReportsHead DEF report, w, reports
  <2>2. \A a, b \in Seq(WriteReport), x \in WriteReport :
          Append(a, x) \o b = a \o (<<x>> \o b)
    BY ConcatAppend
  <2>3. wb \o WriteReports(reports) = r.wbReRegWrite \o (<<w>> \o WriteReports(reports))
    BY <1>1, <2>1, <2>2, Zenon DEF wb
  <2> QED BY <1>10, <2>1, <2>3 DEF InFlight
<1> QED BY <1>10, <1>11, <1>12 DEF RegFileInv, q

LEMMA WriteKeeps ==
  ASSUME NEW r, RegFileInv(r), CanWriteReg(r), NEW regW \in Register, NEW data \in Value,
         NEW write \in BOOLEAN
  PROVE  RegFileInv(writeReg(r, regW, data, write))
<1> DEFINE q == writeReg(r, regW, data, write)
           w == Head(r.wbReRegWrite)
           file == IF write THEN [r.regFile EXCEPT ![regW] = data] ELSE r.regFile
           lim == IF w.write THEN r.limiter - 1 ELSE r.limiter
           pend == IF w.pending /\ write THEN <<[regNum |-> w.regNum, register |-> data]>>
                                         ELSE r.pendVal
           wb == Tail(r.wbReRegWrite)
           v == WriteReports(r.readReport)
<1>1. /\ RegFileOK(r) /\ r \in RegFileState /\ r.regFile \in [Register -> Value]
      /\ r.wbReRegWrite \in Seq(WriteReport) /\ r.wbReRegWrite # <<>>
      /\ Len(r.wbReRegWrite) <= WritebackSize /\ r.limiter \in 0 .. RenameRegs
      /\ r.nextReReg \in RenameReg /\ r.pendVal = <<>>
      /\ r.pendVal \in Seq([regNum : RenameReg, register : Value])
      /\ Accounted(InFlight(r), r.limiter, r.nextReReg)
  BY DEF RegFileInv, RegFileOK, RegFileState, CanWriteReg
<1>2. w \in WriteReport /\ wb \in Seq(WriteReport) /\ Len(wb) <= WritebackSize
  BY <1>1 DEF WritebackSize
<1>3. w.write \in BOOLEAN /\ w.pending \in BOOLEAN /\ w.regNum \in RenameReg
  BY <1>2 DEF WriteReport
<1>4. file \in [Register -> Value]
  BY <1>1
<1>5. pend \in Seq([regNum : RenameReg, register : Value]) /\ Len(pend) <= 1
  <2>1. [regNum |-> w.regNum, register |-> data] \in [regNum : RenameReg, register : Value]
    BY <1>3
  <2>2. /\ <<[regNum |-> w.regNum, register |-> data]>>
              \in Seq([regNum : RenameReg, register : Value])
        /\ Len(<<[regNum |-> w.regNum, register |-> data]>>) = 1
    BY <2>1
  <2>3. Len(r.pendVal) = 0
    BY <1>1
  <2>4. CASE w.pending /\ write
    <3>1. pend = <<[regNum |-> w.regNum, register |-> data]>>
      BY <2>4
    <3> HIDE DEF pend
    <3> QED BY <2>2, <3>1
  <2>5. CASE ~(w.pending /\ write)
    <3>1. pend = r.pendVal
      BY <2>5
    <3> HIDE DEF pend
    <3> QED BY <1>1, <2>3, <3>1
  <2> QED BY <2>4, <2>5
<1>6. q = [r EXCEPT !.regFile = file, !.limiter = lim, !.pendVal = pend, !.wbReRegWrite = wb]
  BY DEF writeReg
<1>7. v \in Seq(WriteReport) /\ InFlight(r) \in Seq(WriteReport) /\ InFlight(r) = r.wbReRegWrite \o v
  BY <1>1, InFlightTyped DEF InFlight
<1>8. InFlight(r) # <<>> /\ Head(InFlight(r)) = w /\ Tail(InFlight(r)) = wb \o v
  <2> HIDE DEF v
  <2> QED BY <1>1, <1>7, FlightTail
<1>9. IF w.write THEN r.limiter > 0 /\ Accounted(wb \o v, r.limiter - 1, r.nextReReg)
                 ELSE Accounted(wb \o v, r.limiter, r.nextReReg)
  <2> HIDE DEF v, w, wb
  <2>1. IF Head(InFlight(r)).write
        THEN r.limiter > 0 /\ Accounted(Tail(InFlight(r)), r.limiter - 1, r.nextReReg)
        ELSE Accounted(Tail(InFlight(r)), r.limiter, r.nextReReg)
    BY <1>1, <1>7, <1>8, AccountedTail
  <2> QED BY <1>8, <2>1
<1> HIDE DEF q, w, file, pend, wb
<1>10. lim \in 0 .. RenameRegs /\ Accounted(wb \o v, lim, r.nextReReg)
  <2> HIDE DEF v
  <2> QED BY <1>1, <1>3, <1>9, RegisterFileAssumption
<1> HIDE DEF lim
<1>11. q \in RegFileState
  BY <1>1, <1>2, <1>4, <1>5, <1>6, <1>10 DEF RegFileState
<1>12. /\ q.readReq = r.readReq /\ q.readReport = r.readReport /\ q.wbReRegWrite = wb
       /\ q.pendVal = pend /\ q.limiter = lim /\ q.nextReReg = r.nextReReg
  BY <1>1, <1>6 DEF RegFileState
<1>13. RegFileOK(q)
  BY <1>1, <1>2, <1>5, <1>11, <1>12 DEF RegFileOK
<1>14. InFlight(q) = wb \o v
  BY <1>12 DEF InFlight
<1> QED BY <1>10, <1>12, <1>13, <1>14 DEF RegFileInv, q

LEMMA OperandsTyped ==
  ASSUME NEW r, RegFileOK(r), r.readReport # <<>>
  PROVE  readRegs(r) \in [Operands -> Value]
<1> DEFINE report == Head(r.readReport)
<1>1. /\ r.readReport \in Seq(RegReadReport) /\ r.rnRegs \in [RenameReg -> SpecReg]
      /\ r.pendVal \in Seq([regNum : RenameReg, register : Value])
  BY DEF RegFileOK, RegFileState
<1>2. report \in RegReadReport
  BY <1>1
<1>3. report.srcs \in [Operands -> RenameReport] /\ report.regFileVals \in [Operands -> Value]
  BY <1>2 DEF RegReadReport
<1>4. \A x \in RenameReg : r.rnRegs[x].register \in Value
  BY <1>1 DEF SpecReg
<1>5. r.pendVal # <<>> => r.pendVal[1].register \in Value
  <2>1. r.pendVal # <<>> => r.pendVal[1] \in [regNum : RenameReg, register : Value]
    BY <1>1, FirstTyped
  <2> QED BY <2>1
<1> HIDE DEF report
<1>6. ASSUME NEW o \in Operands
      PROVE  (CASE report.srcs[o].valid /\ r.rnRegs[report.srcs[o].regNum].valid ->
                     r.rnRegs[report.srcs[o].regNum].register
                [] report.srcs[o].valid /\ ~r.rnRegs[report.srcs[o].regNum].valid
                     /\ Ready(r, report.srcs[o]) -> r.pendVal[1].register
                [] OTHER -> report.regFileVals[o]) \in Value
  <2>1. report.srcs[o].regNum \in RenameReg /\ report.regFileVals[o] \in Value
    BY <1>3 DEF RenameReport
  <2>2. r.rnRegs[report.srcs[o].regNum].register \in Value
    BY <1>4, <2>1
  <2>3. Ready(r, report.srcs[o]) => r.pendVal[1].register \in Value
    BY <1>5 DEF Ready
  <2> QED BY <2>1, <2>2, <2>3
<1>7. readRegs(r) = [o \in Operands |->
        CASE report.srcs[o].valid /\ r.rnRegs[report.srcs[o].regNum].valid ->
               r.rnRegs[report.srcs[o].regNum].register
          [] report.srcs[o].valid /\ ~r.rnRegs[report.srcs[o].regNum].valid
               /\ Ready(r, report.srcs[o]) -> r.pendVal[1].register
          [] OTHER -> report.regFileVals[o]]
  BY DEF readRegs, report
<1> QED BY <1>6, <1>7

-----------------------------------------------------------------------------
(* Each rule keeps the parts of the invariant.                             *)
LEMMA InvariantImplies == IInv => TypeOK
BY DEF IInv, BranchInv, SchedulerInv, FifosInv, FifoOK, RegFileInv, DueInv, TypeOK

LEMMA FifoAppend ==
  ASSUME NEW q, FifoOK(q), NotFull(q), NEW t \in Token
  PROVE  FifoOK(Append(q, t))
BY RegisterFileAssumption DEF FifoOK, NotFull

LEMMA FifoTail ==
  ASSUME NEW q, FifoOK(q), q # <<>>
  PROVE  Head(q) \in Token /\ FifoOK(Tail(q))
BY RegisterFileAssumption DEF FifoOK

LEMMA FifoOne ==
  ASSUME NEW t \in Token
  PROVE  FifoOK(<<t>>) /\ Len(<<t>>) <= 1 /\ FifoOK(<<>>) /\ Len(<<>>) <= 1
BY RegisterFileAssumption DEF FifoOK

LEMMA PlusTyped ==
  ASSUME NEW x \in Address, NEW n \in Nat
  PROVE  Plus(x, n) \in Address
<1>1. x + n \in Nat /\ Size \in Nat \ {0}
  BY CodeAssumption DEF Address
<1> QED BY <1>1 DEF Plus, Address

LEMMA LaterTyped ==
  ASSUME NEW e \in Epoch, NEW n \in Nat
  PROVE  Later(e, n) \in Epoch
<1>1. e + n \in Nat /\ Epochs \in Nat \ {0}
  BY RegisterFileAssumption DEF Epoch
<1> QED BY <1>1 DEF Later, Epoch

LEMMA TokenTyped ==
  ASSUME NEW t \in Token
  PROVE  /\ t.pc \in Address /\ t.epoch \in Epoch /\ t.fromDebug \in BOOLEAN
         /\ t.branchDelay \in BOOLEAN /\ t.inst \in Instruction
         /\ t.a \in Value /\ t.b \in Value /\ t.result \in Value
         /\ t.inst.a \in Register /\ t.inst.b \in Register /\ t.inst.dest \in Register
         /\ t.inst.target \in Address
BY DEF Token, Instruction

LEMMA TargetTyped ==
  ASSUME NEW t \in Token
  PROVE  Target(t) \in Address
<1>1. Plus(t.pc, 1) \in Address /\ Plus(t.pc, 2) \in Address
  BY TokenTyped, PlusTyped
<1> QED BY <1>1, TokenTyped DEF Target

LEMMA ResultTyped ==
  ASSUME NEW i \in Instruction, NEW x \in Address, NEW a \in Value, NEW b \in Value
  PROVE  Result(i, x, a, b) \in Value
<1>1. (x + 2) % 2 \in 0 .. 1 /\ (a + b + 1) % 2 \in 0 .. 1
  BY DEF Address, Value
<1> QED BY <1>1 DEF Result, Value

LEMMA InitInvariant == Init => IInv
<1> SUFFICES ASSUME Init PROVE IInv
  OBVIOUS
<1>1. FifoOK(<<>>) /\ Len(<<>>) <= 1
  BY RegisterFileAssumption DEF FifoOK
<1>2. FifosInv
  BY <1>1 DEF Init, FifosInv
<1>3. 0 \in Epoch /\ 0 \in 0 .. FlushCycles
  BY RegisterFileAssumption, PipelineAssumption DEF Epoch
<1>4. /\ <<>> \in Seq(Epoch) /\ <<>> \in Seq(Prediction) /\ <<>> \in Seq(PredictionRecord)
      /\ Len(<<>>) <= 1 /\ Len(<<>>) <= PredictionsSize /\ Len(<<>>) <= CheckSize
  BY DEF PredictionsSize, CheckSize
<1>5. BranchInv
  BY <1>3, <1>4, CodeAssumption DEF Init, BranchInv
<1>6. SchedulerInv /\ DueInv /\ pause \in BOOLEAN
  BY <1>3, CodeAssumption DEF Init, SchedulerInv, DueInv
<1> QED BY <1>2, <1>5, <1>6, RegFileInit DEF Init, IInv

-----------------------------------------------------------------------------
(* The methods of the branch predictor keep its part.                      *)

LEMMA PrimeKeeps ==
  ASSUME BranchInv, primeFifo
  PROVE  BranchInv'
<1> DEFINE p == [takeTarget |-> FALSE, specTarget |-> Reset, epoch |-> epoch]
           q == Append(predictions, p)
<1>1. p \in Prediction
  BY CodeAssumption DEF BranchInv, Prediction
<1> HIDE DEF p
<1>2. q \in Seq(Prediction) /\ Len(q) <= PredictionsSize
  BY <1>1 DEF BranchInv, primeFifo, PredictionsSize
<1>3. predictions' = q
  BY DEF primeFifo, p
<1>4. /\ flushCount' \in 0 .. FlushCycles /\ state' \in { "Init", "Run" }
      /\ state' = "Init" => flushCount' <= 1
  BY PipelineAssumption DEF BranchInv, primeFifo
<1> HIDE DEF q
<1> QED BY <1>2, <1>3, <1>4 DEF BranchInv, primeFifo

LEMMA FlushKeeps ==
  ASSUME BranchInv, flushDelay
  PROVE  BranchInv'
<1>1. flushCount' \in 0 .. FlushCycles /\ flushing' \in BOOLEAN
  BY PipelineAssumption DEF BranchInv, flushDelay
<1> QED BY <1>1 DEF BranchInv, flushDelay

LEMMA GetPcKeeps ==
  ASSUME BranchInv, NEW fromDebug \in BOOLEAN, getPc(fromDebug)
  PROVE  BranchInv' /\ NextPc \in Address
<1>1. /\ predictions \in Seq(Prediction) /\ predictions # <<>>
      /\ Len(predictions) <= PredictionsSize
  BY DEF BranchInv, getPc, CanGetPc
<1>2. /\ Head(predictions) \in Prediction /\ Tail(predictions) \in Seq(Prediction)
      /\ Len(Tail(predictions)) <= PredictionsSize
  BY <1>1 DEF PredictionsSize
<1>3. NextPc \in Address
  <2>1. Head(predictions).specTarget \in Address
    BY <1>2 DEF Prediction
  <2> QED BY <2>1 DEF BranchInv, NextPc
<1>4. Plus(NextPc, 1) \in Address
  BY <1>3, PlusTyped
<1>5. specPc' \in Address /\ issueEpoch' \in Epoch
  BY <1>4 DEF BranchInv, getPc, updateSpeculativePc
<1>6. predictions' \in Seq(Prediction) /\ Len(predictions') <= PredictionsSize
  BY <1>1, <1>2 DEF getPc
<1> QED BY <1>3, <1>5, <1>6 DEF BranchInv, getPc

LEMMA PutTargetKeeps ==
  ASSUME BranchInv, NEW t \in Token, putTarget(t)
  PROVE  BranchInv'
<1>1. PICK target \in (IF Branches(t) THEN Predictions ELSE { Reset }) :
        /\ predictions' = IF t.fromDebug THEN predictions
                          ELSE Append(predictions, [takeTarget |-> Branches(t),
                                                    specTarget |-> target, epoch |-> t.epoch])
        /\ predictionCheck' = Append(predictionCheck,
                                     [target |-> target, isBranch |-> Branches(t)])
  BY DEF putTarget
<1> DEFINE p == [takeTarget |-> Branches(t), specTarget |-> target, epoch |-> t.epoch]
           c == [target |-> target, isBranch |-> Branches(t)]
<1>2. target \in Address /\ Branches(t) \in BOOLEAN
  BY CodeAssumption, PipelineAssumption, TokenTyped DEF Branches, IsBranch
<1>3. p \in Prediction /\ c \in PredictionRecord
  BY <1>2, TokenTyped DEF Prediction, PredictionRecord
<1>4. predictions' = (IF t.fromDebug THEN predictions ELSE Append(predictions, p))
      /\ predictionCheck' = Append(predictionCheck, c)
  BY <1>1
<1> HIDE DEF p, c
<1>5. predictions' \in Seq(Prediction) /\ Len(predictions') <= PredictionsSize
  BY <1>3, <1>4 DEF BranchInv, putTarget, PredictionsSize
<1>6. predictionCheck' \in Seq(PredictionRecord) /\ Len(predictionCheck') <= CheckSize
  BY <1>3, <1>4 DEF BranchInv, putTarget, CheckSize
<1> QED BY <1>5, <1>6 DEF BranchInv, putTarget

LEMMA PcWritebackKeeps ==
  ASSUME BranchInv, NEW truePc \in Address, NEW doWriteback \in BOOLEAN,
         NEW flushNow \in BOOLEAN, NEW fromDebug \in BOOLEAN,
         pcWriteback(truePc, doWriteback, flushNow, fromDebug)
  PROVE  BranchInv'
<1> DEFINE check == Head(predictionCheck)
           miss == doWriteback /\ ~fromDebug /\ check.isBranch /\ check.target # truePc
           begun == <<Later(epoch, 1)>>
<1>1. predictionCheck' \in Seq(PredictionRecord) /\ Len(predictionCheck') <= CheckSize
  BY DEF BranchInv, pcWriteback, CheckSize
<1>2. pc' \in Address
  BY DEF BranchInv, pcWriteback
<1>3. epochUpdate(doWriteback, flushNow, miss)
  BY DEF pcWriteback
<1> HIDE DEF miss
<1>4. Later(epoch, 1) \in Epoch /\ Later(epoch, 2) \in Epoch
  BY LaterTyped DEF BranchInv
<1>5. begun \in Seq(Epoch) /\ Len(begun) <= 1
  BY <1>4
<1>6. <<>> \in Seq(Epoch) /\ Len(<<>>) <= 1
  OBVIOUS
<1>7. newEpoch' = begun \/ newEpoch' = <<>>
  BY <1>3 DEF epochUpdate
<1> HIDE DEF begun
<1>8. newEpoch' \in Seq(Epoch) /\ Len(newEpoch') <= 1
  BY <1>5, <1>6, <1>7
<1>9. newEpoch # <<>> => Head(newEpoch) \in Epoch
  BY DEF BranchInv
<1>10. epoch' \in Epoch /\ flushing' \in BOOLEAN
  BY <1>3, <1>4, <1>9 DEF BranchInv, epochUpdate
<1> QED BY <1>1, <1>2, <1>8, <1>10 DEF BranchInv, pcWriteback

-----------------------------------------------------------------------------
(* Each rule of the pipeline keeps the invariant.                          *)

LEMMA FetchKeeps ==
  ASSUME IInv, instructionFetch
  PROVE  IInv'
<1>1. BranchInv /\ getPc(FALSE)
  BY DEF IInv, instructionFetch
<1>2. BranchInv' /\ NextPc \in Address
  BY <1>1, GetPcKeeps
<1> DEFINE t == Fetched(Code[NextPc], FALSE)
<1>3. t \in Token
  BY <1>1, <1>2, CodeAssumption DEF Fetched, Token, BranchInv, Value
<1>4. toScheduler' = Append(toScheduler, t)
  BY DEF instructionFetch
<1> HIDE DEF t
<1>5. FifosInv'
  BY <1>3, <1>4, FifoAppend DEF IInv, FifosInv, instructionFetch
<1> QED BY <1>2, <1>5 DEF IInv, instructionFetch, schedulerVars, SchedulerInv, DueInv

LEMMA DebugFetchKeeps ==
  ASSUME IInv, debugInstructionFetch
  PROVE  IInv'
<1>1. BranchInv /\ getPc(TRUE)
  BY DEF IInv, debugInstructionFetch
<1>2. BranchInv'
  BY <1>1, GetPcKeeps
<1>3. PICK inst \in DebugInstructions : toScheduler' = Append(toScheduler, Fetched(inst, TRUE))
  BY DEF debugInstructionFetch
<1> DEFINE t == Fetched(inst, TRUE)
<1>4. t \in Token
  BY <1>1, CodeAssumption DEF Fetched, Token, BranchInv, Value
<1>5. toScheduler' = Append(toScheduler, t)
  BY <1>3
<1> HIDE DEF t
<1>6. FifosInv'
  BY <1>4, <1>5, FifoAppend DEF IInv, FifosInv, debugInstructionFetch
<1> QED BY <1>2, <1>6 DEF IInv, debugInstructionFetch, schedulerVars, SchedulerInv, DueInv

LEMMA SchedulerKeeps ==
  ASSUME IInv, fromFetchToScheduler
  PROVE  IInv'
<1> DEFINE cti == Head(toScheduler)
           delay == lastWasBranch /\ lastEpoch = cti.epoch /\ ~cti.fromDebug
           cto == [cti EXCEPT !.branchDelay = delay]
           req == [epoch |-> cti.epoch, fromDebug |-> cti.fromDebug,
                   srcs |-> [o \in Operands |-> cti.inst[o]],
                   write |-> Writes(cti.inst), dest |-> cti.inst.dest,
                   pendingWrite |-> cti.inst.kind = "load",
                   conditionalUpdate |-> IsConditional(cti.inst)]
<1>1. /\ BranchInv /\ SchedulerInv /\ FifosInv /\ RegFileInv(rf) /\ FifoOK(toScheduler)
      /\ FifoOK(scheduled) /\ NotFull(scheduled) /\ toScheduler # <<>> /\ CanRequest(rf)
  BY DEF IInv, FifosInv, fromFetchToScheduler
<1>2. cti \in Token /\ FifoOK(Tail(toScheduler))
  BY <1>1, FifoTail
<1>3. /\ putTarget(cto) /\ rf' = reqRegs(rf, req)
      /\ scheduled' = Append(scheduled, cto) /\ toScheduler' = Tail(toScheduler)
      /\ IF cti.fromDebug THEN UNCHANGED schedulerVars
         ELSE lastWasBranch' = Branches(cto) /\ lastEpoch' = cti.epoch
  BY DEF fromFetchToScheduler
<1> HIDE DEF cti
<1>4. cto \in Token
  <2>1. delay \in BOOLEAN
    BY <1>1, <1>2, TokenTyped DEF SchedulerInv
  <2> QED BY <1>2, <2>1 DEF Token
<1>5. req \in ReadReq
  <2>1. [o \in Operands |-> cti.inst[o]] \in [Operands -> Register]
    BY <1>2, TokenTyped DEF Operands
  <2>2. Writes(cti.inst) \in BOOLEAN /\ IsConditional(cti.inst) \in BOOLEAN
    BY DEF Writes, IsConditional
  <2> QED BY <1>2, <2>1, <2>2, TokenTyped DEF ReadReq
<1>6. Branches(cto) \in BOOLEAN
  BY <1>4, TokenTyped DEF Branches, IsBranch
<1> HIDE DEF cto, req
<1>7. BranchInv'
  BY <1>1, <1>3, <1>4, PutTargetKeeps
<1>8. FifosInv'
  BY <1>1, <1>2, <1>3, <1>4, FifoAppend DEF FifosInv, fromFetchToScheduler
<1>9. RegFileInv(rf')
  BY <1>1, <1>3, <1>5, RequestKeeps
<1>10. SchedulerInv'
  BY <1>1, <1>2, <1>3, <1>6, TokenTyped DEF SchedulerInv, schedulerVars
<1> QED BY <1>7, <1>8, <1>9, <1>10 DEF IInv, fromFetchToScheduler, DueInv

LEMMA MoveKeeps ==
  ASSUME IInv, fromSchedulerToDecode \/ fromExecuteToMemAccess
  PROVE  IInv'
<1>1. CASE fromSchedulerToDecode
  <2>1. /\ FifoOK(scheduled) /\ scheduled # <<>> /\ FifoOK(decoded) /\ NotFull(decoded)
        /\ decoded' = Append(decoded, Head(scheduled)) /\ scheduled' = Tail(scheduled)
    BY <1>1 DEF IInv, FifosInv, fromSchedulerToDecode
  <2>2. FifoOK(decoded') /\ FifoOK(scheduled')
    BY <2>1, FifoAppend, FifoTail
  <2>3. FifosInv'
    BY <1>1, <2>2 DEF IInv, FifosInv, fromSchedulerToDecode
  <2> QED
    BY <1>1, <2>3 DEF IInv, fromSchedulerToDecode, branchVars, BranchInv, schedulerVars,
                      SchedulerInv, DueInv
<1>2. CASE fromExecuteToMemAccess
  <2>1. /\ FifoOK(executed) /\ executed # <<>> /\ FifoOK(accessed) /\ NotFull(accessed)
        /\ accessed' = Append(accessed, Head(executed)) /\ executed' = Tail(executed)
    BY <1>2 DEF IInv, FifosInv, fromExecuteToMemAccess
  <2>2. FifoOK(accessed') /\ FifoOK(executed')
    BY <2>1, FifoAppend, FifoTail
  <2>3. FifosInv'
    BY <1>2, <2>2 DEF IInv, FifosInv, fromExecuteToMemAccess
  <2> QED
    BY <1>2, <2>3 DEF IInv, fromExecuteToMemAccess, branchVars, BranchInv, schedulerVars,
                      SchedulerInv, DueInv
<1> QED BY <1>1, <1>2

LEMMA ExecuteKeeps ==
  ASSUME IInv, fromDecodeToExecute
  PROVE  IInv'
<1> DEFINE di == Head(decoded)
           vals == readRegs(rf)
           res == Result(di.inst, di.pc, vals["a"], vals["b"])
           er == [di EXCEPT !.a = vals["a"], !.b = vals["b"], !.result = res]
<1>1. /\ FifosInv /\ RegFileInv(rf) /\ RegFileOK(rf) /\ FifoOK(decoded) /\ decoded # <<>>
      /\ pendingOps = <<>> /\ FifoOK(executed) /\ rf.readReport # <<>>
  BY DEF IInv, FifosInv, fromDecodeToExecute, RegFileInv, CanReadRegs
<1>2. di \in Token /\ FifoOK(Tail(decoded))
  BY <1>1, FifoTail
<1>3. vals \in [Operands -> Value]
  BY <1>1, OperandsTyped
<1>4. /\ decoded' = Tail(decoded)
      /\ IF di.inst.kind = "multiply"
         THEN pendingOps' = <<er>> /\ UNCHANGED <<executed, rf>>
         ELSE /\ NotFull(executed) /\ CanWriteSpeculative(rf)
              /\ executed' = Append(executed, er)
              /\ rf' = writeRegSpeculative(rf, er.result, DoesWrite(er.inst, er.b))
              /\ UNCHANGED pendingOps
  BY DEF fromDecodeToExecute
<1> HIDE DEF di, vals
<1>5. vals["a"] \in Value /\ vals["b"] \in Value
  BY <1>3 DEF Operands
<1>6. res \in Value
  BY <1>2, <1>5, TokenTyped, ResultTyped
<1> HIDE DEF res
<1>7. er \in Token
  BY <1>2, <1>5, <1>6 DEF Token
<1> HIDE DEF er
<1>8. DoesWrite(er.inst, er.b) \in BOOLEAN
  BY DEF DoesWrite, Writes, IsConditional
<1>9. FifosInv' /\ RegFileInv(rf')
  <2>1. CASE di.inst.kind = "multiply"
    <3>1. FifoOK(pendingOps') /\ Len(pendingOps') <= 1
      BY <1>4, <1>7, <2>1, FifoOne
    <3> QED BY <1>1, <1>2, <1>4, <2>1, <3>1 DEF FifosInv, fromDecodeToExecute
  <2>2. CASE di.inst.kind # "multiply"
    <3>1. FifoOK(executed')
      BY <1>1, <1>4, <1>7, <2>2, FifoAppend
    <3>2. RegFileInv(rf')
      BY <1>1, <1>4, <1>7, <1>8, <2>2, TokenTyped, SpeculativeKeeps
    <3> QED BY <1>1, <1>2, <1>4, <2>2, <3>1, <3>2 DEF FifosInv, fromDecodeToExecute
  <2> QED BY <2>1, <2>2
<1> QED
  BY <1>9 DEF IInv, fromDecodeToExecute, branchVars, BranchInv, schedulerVars, SchedulerInv, DueInv

LEMMA DeliverKeeps ==
  ASSUME IInv, deliverPendingOp
  PROVE  IInv'
<1>1. /\ FifosInv /\ RegFileInv(rf) /\ FifoOK(pendingOps) /\ pendingOps # <<>>
      /\ FifoOK(executed) /\ NotFull(executed) /\ CanWriteSpeculative(rf)
      /\ executed' = Append(executed, Head(pendingOps)) /\ pendingOps' = <<>>
      /\ rf' = writeRegSpeculative(rf, Head(pendingOps).result, TRUE)
  BY DEF IInv, FifosInv, deliverPendingOp
<1>2. Head(pendingOps) \in Token
  BY <1>1, FifoTail
<1>3. RegFileInv(rf')
  BY <1>1, <1>2, TokenTyped, SpeculativeKeeps
<1>4. FifoOK(executed') /\ FifoOK(pendingOps') /\ Len(pendingOps') <= 1
  BY <1>1, <1>2, FifoAppend, FifoOne
<1>5. FifosInv'
  BY <1>1, <1>4 DEF FifosInv, deliverPendingOp
<1> QED
  BY <1>3, <1>5 DEF IInv, deliverPendingOp, branchVars, BranchInv, schedulerVars, SchedulerInv, DueInv

LEMMA WriteBackKeeps ==
  ASSUME IInv, NEW exception \in BOOLEAN, NEW loaded \in Value, doWriteBack(exception, loaded)
  PROVE  IInv'
<1> DEFINE er == Head(accessed)
           dead == Dead(er)
           doWritePc == ~dead /\ (exception \/ WritesPC(er))
           flush == ~dead /\ ((exception /\ ~er.fromDebug) \/ FlushesPipe(er))
           truePc == IF exception THEN Entry ELSE Target(er)
           data == IF er.inst.kind = "load" THEN loaded ELSE er.result
           write == DoesWrite(er.inst, er.b) /\ ~dead /\ ~exception
<1>1. /\ BranchInv /\ FifosInv /\ RegFileInv(rf) /\ DueInv /\ CanWriteReg(rf)
      /\ FifoOK(accessed) /\ accessed # <<>> /\ accessed' = Tail(accessed)
  BY DEF IInv, FifosInv, doWriteBack
<1>2. er \in Token /\ FifoOK(Tail(accessed))
  BY <1>1, FifoTail
<1>3. /\ pcWriteback(truePc, doWritePc, flush, er.fromDebug)
      /\ rf' = writeReg(rf, er.inst.dest, data, write)
      /\ due' = CASE dead -> due
                  [] ~dead /\ ~er.fromDebug -> DueAfter(er, exception)
                  [] ~dead /\ er.fromDebug ->
                       IF Branches(er) THEN [at |-> Target(er), after |-> NoAddress] ELSE due
  BY DEF doWriteBack
<1> HIDE DEF er
<1>4. truePc \in Address /\ Target(er) \in Address /\ Plus(er.pc, 1) \in Address
  BY <1>2, CodeAssumption, TokenTyped, TargetTyped, PlusTyped
<1>5. /\ dead \in BOOLEAN /\ doWritePc \in BOOLEAN /\ flush \in BOOLEAN /\ write \in BOOLEAN
  BY DEF Dead
<1>6. data \in Value /\ er.inst.dest \in Register /\ er.fromDebug \in BOOLEAN
  BY <1>2, TokenTyped
<1>7. DueInv'
  <2>1. DueAfter(er, exception)
          \in [at : Address \cup { NoAddress }, after : Address \cup { NoAddress }]
    BY <1>1, <1>4, CodeAssumption DEF DueAfter, DueInv
  <2> HIDE DEF dead
  <2> QED BY <1>1, <1>3, <1>4, <1>5, <1>6, <2>1 DEF DueInv
<1> HIDE DEF dead, doWritePc, flush, truePc, data, write
<1>8. BranchInv'
  BY <1>1, <1>3, <1>4, <1>5, <1>6, PcWritebackKeeps
<1>9. RegFileInv(rf')
  BY <1>1, <1>3, <1>5, <1>6, WriteKeeps
<1>10. FifosInv'
  BY <1>1, <1>2 DEF FifosInv, doWriteBack
<1> QED BY <1>7, <1>8, <1>9, <1>10 DEF IInv, doWriteBack, schedulerVars, SchedulerInv

LEMMA NextInvariant == IInv /\ [Next]_vars => IInv'
<1> SUFFICES ASSUME IInv, [Next]_vars PROVE IInv'
  OBVIOUS
<1>1. CASE primeFifo
  BY <1>1, PrimeKeeps DEF IInv, primeFifo, schedulerVars, SchedulerInv, fifoVars, FifosInv, DueInv
<1>2. CASE flushDelay
  BY <1>2, FlushKeeps DEF IInv, flushDelay, schedulerVars, SchedulerInv, fifoVars, FifosInv, DueInv
<1>3. CASE readRegFilesRule
  BY <1>3, ReadKeeps DEF IInv, readRegFilesRule, branchVars, BranchInv, schedulerVars,
                         SchedulerInv, fifoVars, FifosInv, DueInv
<1>4. CASE writePendingRule
  BY <1>4, PendingKeeps DEF IInv, writePendingRule, branchVars, BranchInv, schedulerVars,
                            SchedulerInv, fifoVars, FifosInv, DueInv
<1>5. CASE SetPause
  BY <1>5 DEF IInv, SetPause, branchVars, BranchInv, schedulerVars, SchedulerInv, fifoVars,
              FifosInv, DueInv
<1>6. CASE UNCHANGED vars
  BY <1>6 DEF IInv, vars, branchVars, BranchInv, schedulerVars, SchedulerInv, fifoVars,
              FifosInv, DueInv
<1> QED
  BY <1>1, <1>2, <1>3, <1>4, <1>5, <1>6, FetchKeeps, DebugFetchKeeps, SchedulerKeeps, MoveKeeps,
     ExecuteKeeps, DeliverKeeps, WriteBackKeeps DEF Next, Rules

(* The invariant holds at every time: whatever is predicted, killed or     *)
(* trapped, limiter and nextReReg count the writers under way.             *)
THEOREM Invariant == Spec => []IInv
BY InitInvariant, NextInvariant, PTL DEF Spec

(* Type correctness, for every program, number of registers and of epochs  *)
(* and depth of the FIFOs.                                                 *)
THEOREM TypeCorrect == Spec => []TypeOK
BY Invariant, InvariantImplies, PTL

(* No two instructions in the pipeline share a rename register             *)
(* (ForwardingPipelinedRegFile's limiter and nextReReg), however many are  *)
(* killed by exceptions and mispredictions on their way.                   *)
THEOREM RenameRegsNotShared == Spec => []OwnRenameRegs
<1>1. IInv => OwnRenameRegs
  <2> SUFFICES ASSUME IInv, NEW j \in Writers(InFlight(rf)), NEW k \in Writers(InFlight(rf)), j # k
               PROVE  InFlight(rf)[j].regNum # InFlight(rf)[k].regNum
    BY DEF OwnRenameRegs
  <2>1. /\ RegFileOK(rf) /\ Accounted(InFlight(rf), rf.limiter, rf.nextReReg)
    BY DEF IInv, RegFileInv
  <2>2. /\ InFlight(rf) \in Seq(WriteReport) /\ rf.limiter \in 0 .. RenameRegs
        /\ rf.nextReReg \in RenameReg
    BY <2>1, InFlightTyped
  <2>3. j < k \/ k < j
    BY <2>2 DEF Writers
  <2> QED BY <2>1, <2>2, <2>3, NotShared
<1> QED BY <1>1, Invariant, PTL

-----------------------------------------------------------------------------
(* The register file and the instructions in the pipeline.                 *)
LEMMA FlightIs ==
  ASSUME NEW r, RegFileOK(r)
  PROVE  /\ InFlight(r) \in Seq(WriteReport) /\ Len(InFlight(r)) = Rd(r)
         /\ Wb(r) \in Nat /\ Rd(r) \in Nat /\ Len(r.readReport) \in Nat /\ Wb(r) <= Rd(r)
         /\ \A i \in 1 .. Wb(r) : InFlight(r)[i] = r.wbReRegWrite[i]
         /\ \A m \in 1 .. Len(r.readReport) : InFlight(r)[Wb(r) + m] = r.readReport[m].write
<1> DEFINE w == r.wbReRegWrite
           q == WriteReports(r.readReport)
<1>1. /\ w \in Seq(WriteReport) /\ r.readReport \in Seq(RegReadReport)
      /\ q \in Seq(WriteReport) /\ InFlight(r) \in Seq(WriteReport)
  BY InFlightTyped
<1>2. Len(q) = Len(r.readReport) /\ \A m \in 1 .. Len(q) : q[m] = r.readReport[m].write
  BY <1>1, ReportTyped
<1>3. InFlight(r) = w \o q
  BY DEF InFlight
<1>4. /\ Len(w \o q) = Len(w) + Len(q)
      /\ \A i \in 1 .. Len(w) + Len(q) : (w \o q)[i] = IF i <= Len(w) THEN w[i] ELSE q[i - Len(w)]
  BY <1>1, ConcatProperties
<1>5. Len(w) \in Nat /\ Len(q) \in Nat
  BY <1>1, LenProperties
<1> HIDE DEF w, q
<1>6. ASSUME NEW i \in 1 .. Len(w) PROVE (w \o q)[i] = w[i]
  BY <1>4, <1>5
<1>7. ASSUME NEW m \in 1 .. Len(q) PROVE (w \o q)[Len(w) + m] = q[m]
  <2>1. Len(w) + m \in 1 .. Len(w) + Len(q) /\ ~(Len(w) + m <= Len(w)) /\ Len(w) + m - Len(w) = m
    BY <1>5
  <2> QED BY <1>4, <2>1
<1>8. Wb(r) = Len(w) /\ Rd(r) = Len(w) + Len(q) /\ Len(q) = Len(r.readReport)
  BY <1>2 DEF Wb, Rd, w
<1>9. /\ InFlight(r) \in Seq(WriteReport) /\ Len(InFlight(r)) = Rd(r)
      /\ Wb(r) \in Nat /\ Rd(r) \in Nat /\ Len(r.readReport) \in Nat /\ Wb(r) <= Rd(r)
  BY <1>1, <1>3, <1>4, <1>5, <1>8
<1>10. \A i \in 1 .. Wb(r) : InFlight(r)[i] = w[i]
  BY <1>3, <1>6, <1>8
<1>11. \A m \in 1 .. Len(r.readReport) : InFlight(r)[Wb(r) + m] = r.readReport[m].write
  BY <1>2, <1>3, <1>7, <1>8
<1> QED BY <1>9, <1>10, <1>11 DEF w

LEMMA FlightTyped ==
  ASSUME NEW r, RegFileOK(r), NEW i \in 1 .. Rd(r)
  PROVE  /\ InFlight(r)[i] \in WriteReport /\ InFlight(r)[i].regNum \in RenameReg
         /\ InFlight(r)[i].write \in BOOLEAN /\ InFlight(r)[i].pending \in BOOLEAN
<1>1. InFlight(r)[i] \in WriteReport
  BY FlightIs
<1> QED BY <1>1 DEF WriteReport

LEMMA ReportAt ==
  ASSUME NEW r, RegFileOK(r), NEW m \in 1 .. Len(r.readReport)
  PROVE  LET c == r.readReport[m] IN
         /\ c \in RegReadReport /\ c.write \in WriteReport /\ c.old \in RenameReport
         /\ \A o \in Operands : c.srcs[o] \in RenameReport /\ c.regFileVals[o] \in Value
<1>1. r.readReport \in Seq(RegReadReport)
  BY DEF RegFileOK, RegFileState
<1>2. r.readReport[m] \in RegReadReport
  BY <1>1
<1> QED BY <1>2 DEF RegReadReport

LEMMA OperandTyped ==
  ASSUME NEW t \in Token, NEW o \in Operands
  PROVE  t.inst[o] \in Register
BY TokenTyped DEF Operands

(* Each instruction in flight is one of the sequence.                      *)
LEMMA FlagsAt ==
  ASSUME NEW r, RegFileOK(r), NEW p \in Seq(Token), Aligned(p, r), NEW i \in 1 .. Rd(r)
  PROVE  /\ p[i] \in Token
         /\ InFlight(r)[i].write = Writes(p[i].inst)
         /\ InFlight(r)[i].conditional = IsConditional(p[i].inst)
         /\ InFlight(r)[i].pending = (p[i].inst.kind = "load")
         /\ \A e, x : MayWrite(p[i], e, x) => InFlight(r)[i].write
<1>1. i \in 1 .. Len(p)
  <2>1. Rd(r) <= Len(p)
    <3>1. Len(r.readReq) \in Nat /\ Rd(r) \in Nat /\ Len(p) \in Nat
      BY FlightIs, LenProperties DEF RegFileOK, RegFileState
    <3> QED BY <3>1 DEF Aligned
  <2> QED BY <2>1, FlightIs, LenProperties
<1>2. p[i] \in Token
  BY <1>1
<1>3. Flags(p[i], InFlight(r)[i])
  BY DEF Aligned
<1> QED BY <1>2, <1>3 DEF Flags, MayWrite, Writes

LEMMA RolledInAt ==
  ASSUME NEW r, RegFileOK(r), NEW s \in RenameReg
  PROVE  RolledIn(r)[s] = IF r.pendVal # <<>> /\ r.pendVal[1].regNum = s
                          THEN [valid |-> TRUE, register |-> r.pendVal[1].register]
                          ELSE r.rnRegs[s]
<1>1. r.rnRegs \in [RenameReg -> SpecReg]
  BY DEF RegFileOK, RegFileState
<1> QED BY <1>1 DEF RolledIn

LEMMA SpeculativeIs ==
  ASSUME NEW r, RegFileInv(r), CanWriteSpeculative(r), NEW data, NEW write
  PROVE  LET q == writeRegSpeculative(r, data, write)
             c == r.readReport[1]
             x == CASE write /\ ~c.write.pending -> [valid |-> TRUE, register |-> data]
                    [] ~write /\ c.write.write /\ c.old.valid -> RolledIn(r)[c.old.regNum]
                    [] OTHER -> NoValue
         IN  /\ 1 \in 1 .. Len(r.readReport)
             /\ q.regFile = r.regFile /\ q.rnTags = r.rnTags /\ q.readReq = r.readReq
             /\ q.pendVal = <<>>
             /\ q.rnRegs = [RolledIn(r) EXCEPT ![c.write.regNum] = x]
             /\ Len(q.readReport) = Len(r.readReport) - 1
             /\ \A m \in 1 .. Len(q.readReport) : q.readReport[m] = r.readReport[m + 1]
             /\ Wb(q) = Wb(r) + 1 /\ Rd(q) = Rd(r)
             /\ \A i \in 1 .. Wb(r) : q.wbReRegWrite[i] = r.wbReRegWrite[i]
             /\ q.wbReRegWrite[Wb(r) + 1] = c.write
<1> DEFINE q == writeRegSpeculative(r, data, write)
           c == Head(r.readReport)
           x == CASE write /\ ~c.write.pending -> [valid |-> TRUE, register |-> data]
                  [] ~write /\ c.write.write /\ c.old.valid -> RolledIn(r)[c.old.regNum]
                  [] OTHER -> NoValue
           regs == [RolledIn(r) EXCEPT ![c.write.regNum] = x]
           none == <<>>
           reports == Tail(r.readReport)
           wb == Append(r.wbReRegWrite, c.write)
<1>1. /\ r \in RegFileState /\ r.readReport \in Seq(RegReadReport) /\ r.readReport # <<>>
      /\ r.wbReRegWrite \in Seq(WriteReport)
  BY DEF RegFileInv, RegFileOK, RegFileState, CanWriteSpeculative
<1>2. q = [r EXCEPT !.readReport = reports, !.pendVal = none, !.rnRegs = regs,
                    !.wbReRegWrite = wb]
  BY DEF writeRegSpeculative
<1>3. /\ c = r.readReport[1] /\ Len(reports) = Len(r.readReport) - 1
      /\ \A m \in 1 .. Len(reports) : reports[m] = r.readReport[m + 1]
      /\ 1 \in 1 .. Len(r.readReport) /\ Len(r.readReport) \in Nat
  BY <1>1
<1>4. c \in RegReadReport
  BY <1>1
<1>5. c.write \in WriteReport
  BY <1>4 DEF RegReadReport
<1>6. /\ Len(wb) = Len(r.wbReRegWrite) + 1 /\ wb[Len(r.wbReRegWrite) + 1] = c.write
      /\ \A i \in 1 .. Len(r.wbReRegWrite) : wb[i] = r.wbReRegWrite[i]
      /\ Len(r.wbReRegWrite) \in Nat
  BY <1>1, <1>5
<1> HIDE DEF q, regs, none, reports, wb, x
<1>7. /\ q.regFile = r.regFile /\ q.rnTags = r.rnTags /\ q.readReq = r.readReq
      /\ q.pendVal = none /\ q.rnRegs = regs /\ q.readReport = reports /\ q.wbReRegWrite = wb
  BY <1>1, <1>2 DEF RegFileState
<1>8. Wb(q) = Wb(r) + 1 /\ Rd(q) = Rd(r)
  <2>1. Len(q.readReport) = Len(r.readReport) - 1 /\ Len(q.wbReRegWrite) = Len(r.wbReRegWrite) + 1
    BY <1>3, <1>6, <1>7
  <2>2. Len(r.readReport) \in Nat /\ Len(r.wbReRegWrite) \in Nat
    BY <1>3, <1>6
  <2>3. Wb(q) = Wb(r) + 1
    BY <2>1 DEF Wb
  <2>4. Wb(r) \in Nat /\ Rd(q) = Wb(q) + (Len(r.readReport) - 1)
    BY <2>1, <2>2 DEF Wb, Rd
  <2> QED BY <2>2, <2>3, <2>4 DEF Rd
<1>9. \A i \in 1 .. Wb(r) : q.wbReRegWrite[i] = r.wbReRegWrite[i]
  BY <1>6, <1>7 DEF Wb
<1>10. q.wbReRegWrite[Wb(r) + 1] = c.write
  BY <1>6, <1>7 DEF Wb
<1>11. q.rnRegs = [RolledIn(r) EXCEPT ![c.write.regNum] = x]
  BY <1>7 DEF regs
<1>12. q.pendVal = <<>>
  BY <1>7 DEF none
<1> HIDE DEF c
<1> QED BY <1>3, <1>7, <1>8, <1>9, <1>10, <1>11, <1>12, Zenon DEF q, x

LEMMA OweOne ==
  ASSUME NEW s \in RenameReg, NEW u \in RenameReg
  PROVE  /\ Owe(s) = Owe(u) => s = u
         /\ Owe(s) \in Nat /\ Owe(s) \notin Value
BY RegisterFileAssumption DEF Owe, RenameReg, Value

LEMMA RolledInHas ==
  ASSUME NEW r, RegFileOK(r), NEW n, n.regNum \in RenameReg
  PROVE  IF Ready(r, n)
         THEN /\ RolledIn(r)[n.regNum].valid
              /\ RolledIn(r)[n.regNum].register = r.pendVal[1].register
         ELSE RolledIn(r)[n.regNum] = r.rnRegs[n.regNum]
<1>1. CASE Ready(r, n)
  <2>1. RolledIn(r)[n.regNum] = [valid |-> TRUE, register |-> r.pendVal[1].register]
    BY <1>1, RolledInAt DEF Ready
  <2> QED BY <1>1, <2>1
<1>2. CASE ~Ready(r, n)
  BY <1>2, RolledInAt DEF Ready
<1> QED BY <1>1, <1>2

(* What a source of the instruction to be executed leads to.               *)
LEMMA FirstSource ==
  ASSUME NEW r, RegFileOK(r), NEW p, NEW e, NEW k, NEW v, NEW n \in RenameReport,
         NEW x \in Register,
         Course(p, e, r, k, v), Source(p, e, r, v, Wb(r) + 1, n, x)
  PROVE  /\ Valued(p, e, r, v, Wb(r) + 1, n, x)
         /\ v[Wb(r) + 1][x] \notin Value =>
              n.valid /\ n.pending /\ v[Wb(r) + 1][x] = Owe(n.regNum)
<1> DEFINE val == v[Wb(r) + 1][x]
<1>1. Wb(r) \in Nat
  BY FlightIs
<1>2. None(p, e, x, Wb(r) + 1, Wb(r) + 1)
  BY <1>1 DEF None
<1>3. Valued(p, e, r, v, Wb(r) + 1, n, x)
  BY <1>2 DEF Source
<1>4. ASSUME val \notin Value
      PROVE  n.valid /\ n.pending /\ val = Owe(n.regNum)
  <2>1. ~Steady(r, v, x)
    <3>1. r.regFile[x] \in Value
      BY DEF RegFileOK, RegFileState
    <3> QED BY <1>1, <1>4, <3>1 DEF Steady
  <2>2. ~(val = RolledIn(r)[n.regNum].register)
    <3>1. n.regNum \in RenameReg
      BY DEF RenameReport
    <3> QED BY <1>4, <3>1, RolledInTyped DEF SpecReg
  <2> QED BY <1>3, <2>1, <2>2 DEF Valued
<1> QED BY <1>3, <1>4

(* A live load that has been executed and is in the pipeline owes the      *)
(* value of the rename register s: it is not there.                        *)
Owes(p, e, r, s, j) ==
  /\ j \in 1 .. Wb(r) /\ p[j].epoch = e
  /\ InFlight(r)[j].write /\ InFlight(r)[j].pending /\ InFlight(r)[j].regNum = s

LEMMA OwedIsMissing ==
  ASSUME NEW r, RegFileOK(r), NEW p, NEW e, NEW k, NEW v, NEW x \in Register,
         Course(p, e, r, k, v), Owing(r), NEW s \in RenameReg,
         v[Wb(r) + 1][x] = Owe(s)
  PROVE  /\ ~RolledIn(r)[s].valid
         /\ \E j : Owes(p, e, r, s, j)
<1>1. v[Wb(r) + 1][x] \notin Value
  BY OweOne
<1>2. PICK j \in 1 .. Wb(r) : /\ p[j].epoch = e
                              /\ InFlight(r)[j].write /\ InFlight(r)[j].pending
                              /\ v[Wb(r) + 1][x] = Owe(InFlight(r)[j].regNum)
  BY <1>1 DEF Course
<1>3. InFlight(r)[j].regNum \in RenameReg
  <2>1. j \in 1 .. Rd(r)
    BY FlightIs
  <2> QED BY <2>1, FlightTyped
<1>4. InFlight(r)[j].regNum = s
  BY <1>2, <1>3, OweOne
<1>5. ~RolledIn(r)[s].valid
  BY <1>2, <1>4 DEF Owing
<1> QED BY <1>2, <1>4, <1>5 DEF Owes

(* The operands that are read are those that the instruction is to find.   *)
LEMMA OperandsFound ==
  ASSUME NEW r, RegFileOK(r), NEW p \in Seq(Token), NEW e, NEW k, NEW v,
         Ordered(p, e, r), Values(p, e, r, k, v), CanReadRegs(r), p[Wb(r) + 1].epoch = e
  PROVE  LET t == p[Wb(r) + 1] IN
         /\ \A o \in Operands : readRegs(r)[o] = Given(t, o, v[Wb(r) + 1])
         /\ IsConditional(t.inst) /\ Writes(t.inst) => v[Wb(r) + 1][t.inst.dest] \in Value
<1> DEFINE w == Wb(r)
           t == p[w + 1]
           c == r.readReport[1]
<1>1. /\ 1 \in 1 .. Len(r.readReport) /\ c = Head(r.readReport) /\ w + 1 \in 1 .. Rd(r)
      /\ w \in Nat /\ Len(r.readReport) \in Nat
  <2>1. r.readReport \in Seq(RegReadReport) /\ r.readReport # <<>>
    BY DEF CanReadRegs, RegFileOK, RegFileState
  <2>2. 1 \in 1 .. Len(r.readReport) /\ c = Head(r.readReport)
    BY <2>1
  <2>3. w \in Nat /\ Len(r.readReport) \in Nat
    BY FlightIs
  <2>4. w + 1 \in 1 .. w + Len(r.readReport)
    BY <2>2, <2>3
  <2> QED BY <2>2, <2>3, <2>4 DEF Rd
<1>2. t \in Token /\ c.write.conditional = IsConditional(t.inst)
  BY <1>1, FlagsAt, FlightIs DEF Ordered
<1>3. /\ \A o \in Operands : Source(p, e, r, v, w + 1, c.srcs[o], t.inst[o])
      /\ Writes(t.inst) => Source(p, e, r, v, w + 1, c.old, t.inst.dest)
  BY <1>1 DEF Values, Sources
<1>4. Owing(r) /\ Course(p, e, r, k, v)
  BY DEF Ordered, Values
<1>5. c.old \in RenameReport /\ \A o \in Operands : c.srcs[o] \in RenameReport
  BY <1>1, ReportAt
<1> HIDE DEF c
<1>6. ASSUME NEW n \in RenameReport, NEW x \in Register, Source(p, e, r, v, w + 1, n, x),
             v[w + 1][x] \notin Value
      PROVE  n.valid /\ n.pending /\ ~r.rnRegs[n.regNum].valid /\ ~Ready(r, n) /\ ~PipeEmpty(r)
  <2>1. n.valid /\ n.pending /\ v[w + 1][x] = Owe(n.regNum)
    BY <1>4, <1>6, FirstSource
  <2>2. n.regNum \in RenameReg
    BY DEF RenameReport
  <2>3. v[Wb(r) + 1][x] = Owe(n.regNum)
    BY <2>1
  <2>6. ~RolledIn(r)[n.regNum].valid
    BY <1>4, <2>2, <2>3, OwedIsMissing
  <2>7. \E j : Owes(p, e, r, n.regNum, j)
    BY <1>4, <2>2, <2>3, OwedIsMissing
  <2>4. ~r.rnRegs[n.regNum].valid /\ ~Ready(r, n)
    BY <2>2, <2>6, RolledInHas
  <2>5. r.wbReRegWrite # <<>>
    <3>1. w # 0
      BY <1>1, <2>7 DEF Owes
    <3> QED BY <3>1, EmptySeq DEF Wb
  <2> QED BY <2>1, <2>4, <2>5 DEF PipeEmpty
<1>7. ASSUME NEW o \in Operands
      PROVE  readRegs(r)[o] = Given(t, o, v[w + 1])
  <2> DEFINE n == c.srcs[o]
             x == t.inst[o]
             val == v[w + 1][x]
  <2>1. x \in Register /\ n \in RenameReport /\ Source(p, e, r, v, w + 1, n, x)
    BY <1>2, <1>3, <1>5, OperandTyped
  <2>2. n.regNum \in RenameReg
    BY <2>1 DEF RenameReport
  <2> HIDE DEF n, x
  <2>3. val \in Value
    <3> SUFFICES ASSUME val \notin Value PROVE FALSE
      OBVIOUS
    <3>1. Waits(r, n) /\ ~PipeEmpty(r)
      BY <1>6, <2>1 DEF Waits
    <3> QED BY <1>1, <3>1 DEF CanReadRegs, n
  <2>4. readRegs(r)[o] =
          CASE n.valid /\ r.rnRegs[n.regNum].valid -> r.rnRegs[n.regNum].register
            [] n.valid /\ ~r.rnRegs[n.regNum].valid /\ Ready(r, n) -> r.pendVal[1].register
            [] OTHER -> c.regFileVals[o]
    BY <1>1 DEF readRegs, n
  <2>5. readRegs(r)[o] = IF Known(r, n) THEN RolledIn(r)[n.regNum].register ELSE c.regFileVals[o]
    <3>1. Ready(r, n) => ~r.rnRegs[n.regNum].valid
      BY <1>4 DEF Owing, Ready
    <3> QED BY <2>2, <2>4, <3>1, RolledInHas DEF Known
  <2>6. Valued(p, e, r, v, w + 1, n, x)
    BY <1>4, <2>1, FirstSource
  <2>7. val # Owe(n.regNum)
    BY <2>2, <2>3, OweOne
  <2>8. CASE Known(r, n)
    <3>1. val = RolledIn(r)[n.regNum].register
      BY <2>6, <2>7, <2>8 DEF Valued
    <3>2. n.valid /\ x # 0
      BY <2>1, <2>8 DEF Known, Source
    <3> QED BY <2>5, <2>8, <3>1, <3>2 DEF Given, x
  <2>9. CASE ~Known(r, n)
    <3>1. Steady(r, v, x) /\ UpToDate(p, e, r, w + 1, x)
      BY <2>6, <2>7, <2>9 DEF Valued
    <3>2. val = r.regFile[x]
      BY <1>1, <3>1 DEF Steady
    <3>3. Current(p, r, 1, o)
      BY <1>1, <3>1 DEF UpToDate, x
    <3>4. c.regFileVals[o] = ReadValue(r, t, x)
      BY <3>3 DEF Current, x, c
    <3> QED BY <2>5, <2>9, <3>2, <3>4 DEF Given, ReadValue, x
  <2> QED BY <2>8, <2>9
<1>8. ASSUME IsConditional(t.inst), Writes(t.inst)
      PROVE  v[w + 1][t.inst.dest] \in Value
  <2> SUFFICES ASSUME v[w + 1][t.inst.dest] \notin Value PROVE FALSE
    OBVIOUS
  <2>1. Source(p, e, r, v, w + 1, c.old, t.inst.dest) /\ t.inst.dest \in Register
    BY <1>2, <1>3, <1>8, TokenTyped
  <2>2. WaitsForOld(r, c) /\ ~PipeEmpty(r)
    BY <1>2, <1>5, <1>6, <1>8, <2>1 DEF WaitsForOld
  <2> QED BY <1>1, <2>2 DEF CanReadRegs
<1> QED BY <1>7, <1>8

(* What the speculative write of the instruction after the first Wb(r)     *)
(* changes: its rename register gets x.                                    *)
Speculated(r, q, x) ==
  /\ RegFileOK(q)
  /\ q.regFile = r.regFile /\ q.rnTags = r.rnTags /\ q.readReq = r.readReq /\ q.pendVal = <<>>
  /\ RolledIn(q) = [RolledIn(r) EXCEPT ![InFlight(r)[Wb(r) + 1].regNum] = x]
  /\ Len(q.readReport) = Len(r.readReport) - 1
  /\ \A m \in 1 .. Len(q.readReport) : q.readReport[m] = r.readReport[m + 1]
  /\ Wb(q) = Wb(r) + 1 /\ Rd(q) = Rd(r) /\ Wb(r) + 1 \in 1 .. Rd(r)
  /\ \A i \in 1 .. Rd(r) : InFlight(q)[i] = InFlight(r)[i]

LEMMA SpeculatedIs ==
  ASSUME NEW r, RegFileInv(r), CanWriteSpeculative(r), NEW data \in Value, NEW write \in BOOLEAN
  PROVE  LET c == r.readReport[1]
             x == CASE write /\ ~c.write.pending -> [valid |-> TRUE, register |-> data]
                    [] ~write /\ c.write.write /\ c.old.valid -> RolledIn(r)[c.old.regNum]
                    [] OTHER -> NoValue
         IN  /\ Speculated(r, writeRegSpeculative(r, data, write), x)
             /\ 1 \in 1 .. Len(r.readReport) /\ InFlight(r)[Wb(r) + 1] = c.write
<1> DEFINE q == writeRegSpeculative(r, data, write)
           c == r.readReport[1]
           x == CASE write /\ ~c.write.pending -> [valid |-> TRUE, register |-> data]
                  [] ~write /\ c.write.write /\ c.old.valid -> RolledIn(r)[c.old.regNum]
                  [] OTHER -> NoValue
<1>1. RegFileOK(r) /\ RegFileOK(q)
  BY SpeculativeKeeps DEF RegFileInv
<1>2. /\ 1 \in 1 .. Len(r.readReport)
      /\ q.regFile = r.regFile /\ q.rnTags = r.rnTags /\ q.readReq = r.readReq
      /\ q.pendVal = <<>>
      /\ q.rnRegs = [RolledIn(r) EXCEPT ![c.write.regNum] = x]
      /\ Len(q.readReport) = Len(r.readReport) - 1
      /\ \A m \in 1 .. Len(q.readReport) : q.readReport[m] = r.readReport[m + 1]
      /\ Wb(q) = Wb(r) + 1 /\ Rd(q) = Rd(r)
      /\ \A i \in 1 .. Wb(r) : q.wbReRegWrite[i] = r.wbReRegWrite[i]
      /\ q.wbReRegWrite[Wb(r) + 1] = c.write
  BY SpeculativeIs
<1> HIDE DEF q, c, x
<1>3. /\ Wb(r) \in Nat /\ Rd(r) \in Nat /\ Len(r.readReport) \in Nat
      /\ \A i \in 1 .. Wb(r) : InFlight(r)[i] = r.wbReRegWrite[i]
      /\ \A m \in 1 .. Len(r.readReport) : InFlight(r)[Wb(r) + m] = r.readReport[m].write
  BY <1>1, FlightIs
<1>4. /\ \A i \in 1 .. Wb(q) : InFlight(q)[i] = q.wbReRegWrite[i]
      /\ \A m \in 1 .. Len(q.readReport) : InFlight(q)[Wb(q) + m] = q.readReport[m].write
  BY <1>1, FlightIs
<1>5. InFlight(r)[Wb(r) + 1] = c.write
  BY <1>2, <1>3 DEF c
<1>6. Rd(r) = Wb(r) + Len(r.readReport)
  BY DEF Rd
<1>7. Wb(r) + 1 \in 1 .. Rd(r)
  BY <1>2, <1>3, <1>6
<1>8. ASSUME NEW i \in 1 .. Rd(r)
      PROVE  InFlight(q)[i] = InFlight(r)[i]
  <2>1. CASE i <= Wb(r)
    <3>1. i \in 1 .. Wb(r) /\ i \in 1 .. Wb(q)
      BY <1>2, <1>3, <2>1
    <3> QED BY <1>2, <1>3, <1>4, <3>1
  <2>2. CASE i = Wb(r) + 1
    <3>1. i \in 1 .. Wb(q)
      BY <1>2, <1>3, <2>2
    <3> QED BY <1>2, <1>4, <1>5, <2>2, <3>1
  <2>3. CASE i > Wb(r) + 1
    <3>1. PICK m \in 1 .. Len(q.readReport) : i = Wb(q) + m
      <4>1. i - Wb(q) \in 1 .. Len(q.readReport) /\ i = Wb(q) + (i - Wb(q))
        BY <1>2, <1>3, <1>6, <2>3
      <4> QED BY <4>1
    <3>2. m + 1 \in 1 .. Len(r.readReport) /\ i = Wb(r) + (m + 1)
      BY <1>2, <1>3, <3>1
    <3>3. InFlight(q)[i] = q.readReport[m].write
      BY <1>4, <3>1
    <3>4. InFlight(r)[i] = r.readReport[m + 1].write
      BY <1>3, <3>2
    <3>5. q.readReport[m] = r.readReport[m + 1]
      BY <1>2, <3>1
    <3> QED BY <3>3, <3>4, <3>5
  <2> QED BY <1>3, <2>1, <2>2, <2>3
<1>9. RolledIn(q) = q.rnRegs
  BY <1>2 DEF RolledIn
<1>10. RolledIn(q) = [RolledIn(r) EXCEPT ![InFlight(r)[Wb(r) + 1].regNum] = x]
  BY <1>2, <1>5, <1>9
<1>11. Speculated(r, q, x)
  BY <1>1, <1>2, <1>7, <1>8, <1>10 DEF Speculated
<1> QED BY <1>2, <1>5, <1>11 DEF q, c, x

LEMMA SpeculatedRolledIn ==
  ASSUME NEW r, RegFileOK(r), NEW q, NEW x, Speculated(r, q, x), NEW s \in RenameReg
  PROVE  RolledIn(q)[s] = IF s = InFlight(r)[Wb(r) + 1].regNum THEN x ELSE RolledIn(r)[s]
<1>1. RolledIn(r) \in [RenameReg -> SpecReg]
  BY RolledInTyped
<1> QED BY <1>1 DEF Speculated

LEMMA SpeculatedOrdered ==
  ASSUME NEW r, RegFileOK(r), NEW q, NEW x, Speculated(r, q, x), NEW p \in Seq(Token), NEW e,
         Ordered(p, e, r),
         LET w == InFlight(r)[Wb(r) + 1] IN w.write /\ w.pending => ~x.valid
  PROVE  Ordered(p, e, q)
<1>0. /\ Wb(q) = Wb(r) + 1 /\ Rd(q) = Rd(r) /\ q.readReq = r.readReq /\ q.rnTags = r.rnTags
      /\ Wb(r) + 1 \in 1 .. Rd(r) /\ \A i \in 1 .. Rd(r) : InFlight(q)[i] = InFlight(r)[i]
      /\ q.pendVal = <<>> /\ RegFileOK(q)
  BY DEF Speculated
<1>1. Aligned(p, q)
  BY <1>0 DEF Ordered, Aligned
<1>2. DOMAIN InFlight(q) = 1 .. Rd(r) /\ DOMAIN InFlight(r) = 1 .. Rd(r)
  BY <1>0, FlightIs, LenProperties
<1>3. Separated(InFlight(q))
  BY <1>0, <1>2 DEF Ordered, Separated
<1>4. Owing(q)
  <2>1. ASSUME NEW i \in 1 .. Wb(q), InFlight(q)[i].write, InFlight(q)[i].pending
        PROVE  ~RolledIn(q)[InFlight(q)[i].regNum].valid
    <3>1. Wb(r) \in Nat /\ Rd(r) \in Nat /\ i \in 1 .. Rd(r)
      BY <1>0, FlightIs
    <3>2. InFlight(q)[i] = InFlight(r)[i] /\ InFlight(r)[i].regNum \in RenameReg
      BY <1>0, <3>1, FlightTyped
    <3>3. CASE i = Wb(r) + 1
      BY <2>1, <3>2, <3>3, SpeculatedRolledIn
    <3>4. CASE i \in 1 .. Wb(r)
      <4>1. InFlight(r)[i].regNum # InFlight(r)[Wb(r) + 1].regNum
        BY <1>0, <1>2, <2>1, <3>1, <3>2, <3>4 DEF Ordered, Separated
      <4>2. ~RolledIn(r)[InFlight(r)[i].regNum].valid
        BY <2>1, <3>2, <3>4 DEF Ordered, Owing
      <4> QED BY <3>2, <4>1, <4>2, SpeculatedRolledIn
    <3> QED BY <1>0, <3>1, <3>3, <3>4
  <2> QED BY <1>0, <2>1 DEF Owing
<1>5. TagsOK(q) /\ TagsLive(p, e, q)
  BY <1>0 DEF Ordered, TagsOK, TagsLive, TagsOf
<1> QED BY <1>1, <1>3, <1>4, <1>5 DEF Ordered

LEMMA AfterKeeps ==
  ASSUME NEW t, NEW e, NEW s, NEW y \in Register, NEW regs \in [Register -> Nat],
         ~MayWrite(t, e, y) \/ ~DoesWrite(t.inst, t.b)
  PROVE  After(t, e, s, regs)[y] = regs[y]
BY DEF After, MayWrite, DoesWrite, Writes

LEMMA AfterWrites ==
  ASSUME NEW t, NEW e, NEW s, NEW y \in Register, NEW regs \in [Register -> Nat],
         MayWrite(t, e, y), DoesWrite(t.inst, t.b)
  PROVE  After(t, e, s, regs)[y] = Left(t, s)
BY DEF After, MayWrite

LEMMA AfterTyped ==
  ASSUME NEW t \in Token, NEW e, NEW s \in RenameReg, NEW regs \in [Register -> Nat]
  PROVE  After(t, e, s, regs) \in [Register -> Nat]
<1>1. Left(t, s) \in Nat
  BY TokenTyped, OweOne DEF Value, Left
<1> QED BY <1>1 DEF After

(* The registers that the instructions are to find, with those that the    *)
(* one just executed leaves.                                               *)
Longer(p, e, r, v) ==
  [j \in 1 .. Wb(r) + 2 |->
     IF j = Wb(r) + 2
     THEN After(p[Wb(r) + 1], e, InFlight(r)[Wb(r) + 1].regNum, v[Wb(r) + 1]) ELSE v[j]]

LEMMA LongerIs ==
  ASSUME NEW r, RegFileOK(r), NEW p, NEW e, NEW k, NEW v, Course(p, e, r, k, v)
  PROVE  /\ \A j \in 1 .. Wb(r) + 1 : Longer(p, e, r, v)[j] = v[j] /\ v[j] \in [Register -> Nat]
         /\ Longer(p, e, r, v)[Wb(r) + 2]
              = After(p[Wb(r) + 1], e, InFlight(r)[Wb(r) + 1].regNum, v[Wb(r) + 1])
         /\ Wb(r) + 1 \in 1 .. Wb(r) + 1
<1>1. Wb(r) \in Nat
  BY FlightIs
<1>2. \A j \in 1 .. Wb(r) + 1 : v[j] \in [Register -> Nat]
  BY DEF Course
<1>3. \A j \in 1 .. Wb(r) + 1 : j \in 1 .. Wb(r) + 2 /\ j # Wb(r) + 2
  BY <1>1
<1>4. Wb(r) + 2 \in 1 .. Wb(r) + 2 /\ Wb(r) + 1 \in 1 .. Wb(r) + 1
  BY <1>1
<1> QED BY <1>2, <1>3, <1>4 DEF Longer

LEMMA SpeculatedSteady ==
  ASSUME NEW r, RegFileOK(r), NEW q, NEW x, Speculated(r, q, x), NEW p, NEW e, NEW k, NEW v,
         Course(p, e, r, k, v), NEW y \in Register, Steady(r, v, y),
         ~MayWrite(p[Wb(r) + 1], e, y) \/ ~DoesWrite(p[Wb(r) + 1].inst, p[Wb(r) + 1].b)
  PROVE  Steady(q, Longer(p, e, r, v), y)
<1> DEFINE u == Longer(p, e, r, v)
<1>1. Wb(r) \in Nat /\ Wb(q) = Wb(r) + 1 /\ q.regFile = r.regFile
  BY FlightIs DEF Speculated
<1>2. \A j \in 1 .. Wb(r) + 1 : u[j] = v[j]
  BY LongerIs
<1>3. u[Wb(r) + 2][y] = v[Wb(r) + 1][y]
  BY LongerIs, AfterKeeps
<1>4. \A j \in 1 .. Wb(r) + 1 : v[j][y] = r.regFile[y]
  BY DEF Steady
<1> HIDE DEF u
<1>5. ASSUME NEW j \in 1 .. Wb(q) + 1 PROVE u[j][y] = q.regFile[y]
  <2>1. CASE j \in 1 .. Wb(r) + 1
    BY <1>1, <1>2, <1>4, <2>1
  <2>2. CASE j = Wb(r) + 2
    <3>1. v[Wb(r) + 1][y] = r.regFile[y]
      BY <1>1, <1>4
    <3> QED BY <1>1, <1>3, <2>2, <3>1
  <2> QED BY <1>1, <2>1, <2>2
<1> QED BY <1>5 DEF Steady, u

LEMMA SpeculatedCurrent ==
  ASSUME NEW r, RegFileOK(r), NEW q, NEW x, Speculated(r, q, x), NEW p,
         NEW m \in 1 .. Len(q.readReport), NEW o
  PROVE  /\ m + 1 \in 1 .. Len(r.readReport) /\ Wb(q) + m = Wb(r) + (m + 1)
         /\ Current(p, r, m + 1, o) <=> Current(p, q, m, o)
<1>1. /\ Wb(r) \in Nat /\ Wb(q) = Wb(r) + 1 /\ q.regFile = r.regFile
      /\ Len(q.readReport) = Len(r.readReport) - 1 /\ Len(r.readReport) \in Nat
      /\ q.readReport[m] = r.readReport[m + 1]
  BY FlightIs DEF Speculated
<1>2. m + 1 \in 1 .. Len(r.readReport) /\ Wb(q) + m = Wb(r) + (m + 1)
  <2>1. m \in 1 .. Len(r.readReport) - 1
    BY <1>1
  <2>2. Wb(r) \in Nat /\ Len(r.readReport) \in Nat /\ Wb(q) = Wb(r) + 1
    BY <1>1
  <2> QED BY <2>1, <2>2
<1> QED BY <1>1, <1>2 DEF Current, ReadValue

LEMMA SpeculatedUpToDate ==
  ASSUME NEW r, RegFileOK(r), NEW q, NEW x, Speculated(r, q, x), NEW p, NEW e,
         NEW a \in Nat, NEW i \in Nat, a <= i, NEW y, UpToDate(p, e, r, a, y)
  PROVE  UpToDate(p, e, q, i, y)
<1> SUFFICES ASSUME NEW m \in 1 .. Len(q.readReport), NEW o \in Operands,
                    Wb(q) + m >= i, p[Wb(q) + m].epoch = e, p[Wb(q) + m].inst[o] = y
             PROVE  Current(p, q, m, o)
  BY DEF UpToDate
<1>1. /\ m + 1 \in 1 .. Len(r.readReport) /\ Wb(q) + m = Wb(r) + (m + 1)
      /\ Current(p, r, m + 1, o) <=> Current(p, q, m, o)
  BY SpeculatedCurrent
<1>2. Wb(r) + (m + 1) \in Nat
  BY <1>1, FlightIs
<1>3. Wb(r) + (m + 1) >= a
  BY <1>1, <1>2
<1>4. Current(p, r, m + 1, o)
  BY <1>1, <1>3 DEF UpToDate
<1> QED BY <1>1, <1>4

LEMMA SpeculatedSource ==
  ASSUME NEW r, RegFileOK(r), NEW q, NEW x, Speculated(r, q, x), NEW p \in Seq(Token), NEW e,
         NEW k, NEW v, Ordered(p, e, r), Course(p, e, r, k, v),
         NEW n \in RenameReport, NEW y \in Register, NEW i \in Wb(r) + 2 .. Rd(r) + 1,
         Source(p, e, r, v, i, n, y),
         MayWrite(p[Wb(r) + 1], e, y) /\ n = Names(InFlight(r)[Wb(r) + 1])
           => Valued(p, e, q, Longer(p, e, r, v), i, n, y)
  PROVE  Source(p, e, q, Longer(p, e, r, v), i, n, y)
<1> DEFINE u == Longer(p, e, r, v)
           w == Wb(r)
           f == InFlight(r)
<1>1. /\ w \in Nat /\ Rd(r) \in Nat /\ Wb(q) = w + 1 /\ Rd(q) = Rd(r) /\ w + 1 \in 1 .. Rd(r)
      /\ \A j \in 1 .. Rd(r) : InFlight(q)[j] = f[j]
      /\ i - 1 \in 1 .. Rd(r) /\ i \in Nat
  <2>1. w \in Nat /\ Rd(r) \in Nat
    BY FlightIs
  <2> QED BY <2>1 DEF Speculated
<1>2. Named(p, e, InFlight(q), Wb(q), i, n, y)
  <2>1. Named(p, e, f, w, i, n, y)
    BY DEF Source
  <2>2. \A j \in 1 .. i - 1 : j \in 1 .. Rd(r) /\ (j > w + 1 => j > w)
    BY <1>1
  <2> HIDE DEF f
  <2>3. CASE \E j \in 1 .. i - 1 : /\ MayWrite(p[j], e, y) /\ None(p, e, y, j + 1, i)
                                   /\ n = Names(f[j])
    BY <1>1, <2>2, <2>3 DEF Named
  <2>4. CASE /\ None(p, e, y, 1, i)
             /\ n.valid => \A j \in 1 .. i - 1 : (j > w \/ f[j].write) => f[j].regNum # n.regNum
    BY <1>1, <2>2, <2>4 DEF Named
  <2> QED BY <2>1, <2>3, <2>4 DEF Named
<1>3. ASSUME None(p, e, y, Wb(q) + 1, i)
      PROVE  Valued(p, e, q, u, i, n, y)
  <2>1. CASE MayWrite(p[w + 1], e, y)
    <3>1. ~None(p, e, y, 1, i)
      BY <1>1, <2>1 DEF None
    <3>2. PICK j \in 1 .. i - 1 : /\ MayWrite(p[j], e, y) /\ None(p, e, y, j + 1, i)
                                  /\ n = Names(f[j])
      BY <3>1 DEF Source, Named
    <3>3. ~(j > w + 1)
      BY <1>1, <1>3, <3>2 DEF None
    <3>4. ~(j < w + 1)
      BY <1>1, <2>1, <3>2 DEF None
    <3>5. j = w + 1
      BY <1>1, <3>3, <3>4
    <3> QED BY <2>1, <3>2, <3>5
  <2>2. CASE ~MayWrite(p[w + 1], e, y)
    <3>1. None(p, e, y, w + 1, i)
      BY <1>1, <1>3, <2>2 DEF None
    <3>2. Valued(p, e, r, v, i, n, y)
      BY <3>1 DEF Source
    <3>3. u[Wb(q) + 1][y] = v[w + 1][y]
      <4>1. u[w + 2][y] = v[w + 1][y]
        BY <2>2, LongerIs, AfterKeeps
      <4>2. Wb(q) + 1 = w + 2
        BY <1>1
      <4> QED BY <4>1, <4>2
    <3>4. n.valid => n.regNum # f[w + 1].regNum
      <4> SUFFICES ASSUME n.valid PROVE n.regNum # f[w + 1].regNum
        OBVIOUS
      <4>1. Named(p, e, f, w, i, n, y)
        BY DEF Source
      <4>2. CASE \E j \in 1 .. i - 1 : /\ MayWrite(p[j], e, y) /\ None(p, e, y, j + 1, i)
                                       /\ n = Names(f[j])
        <5>1. PICK j \in 1 .. i - 1 : MayWrite(p[j], e, y) /\ n = Names(f[j])
          BY <4>2
        <5>2. ~(j >= w + 1)
          BY <1>1, <3>1, <5>1 DEF None
        <5>3. j \in 1 .. Rd(r) /\ j < w + 1
          BY <1>1, <5>2
        <5>4. f[j].write
          BY <5>1, <5>3, FlagsAt DEF Ordered
        <5>5. DOMAIN f = 1 .. Rd(r)
          BY FlightIs, LenProperties
        <5>6. f[j].regNum # f[w + 1].regNum
          BY <1>1, <5>3, <5>4, <5>5 DEF Ordered, Separated
        <5>7. n.regNum = f[j].regNum
          BY <5>1 DEF Names
        <5> QED BY <5>6, <5>7
      <4>3. CASE \A j \in 1 .. i - 1 : (j > w \/ f[j].write) => f[j].regNum # n.regNum
        <5>1. w + 1 \in 1 .. i - 1 /\ w + 1 > w
          BY <1>1
        <5> QED BY <4>3, <5>1
      <4> QED BY <4>1, <4>2, <4>3 DEF Named
    <3>5. n.regNum \in RenameReg
      BY DEF RenameReport
    <3>6. n.valid => RolledIn(q)[n.regNum] = RolledIn(r)[n.regNum]
      BY <3>4, <3>5, SpeculatedRolledIn
    <3>7. Known(q, n) <=> Known(r, n)
      BY <3>6 DEF Known
    <3>8. Steady(r, v, y) => Steady(q, u, y)
      BY <2>2, SpeculatedSteady
    <3>9. UpToDate(p, e, r, i, y) => UpToDate(p, e, q, i, y)
      BY <1>1, SpeculatedUpToDate
    <3> HIDE DEF u
    <3> QED BY <3>2, <3>3, <3>6, <3>7, <3>8, <3>9 DEF Valued, Known
  <2> QED BY <2>1, <2>2
<1> QED BY <1>2, <1>3 DEF Source

(* The register of the instruction just executed is in its rename register.*)
LEMMA SpeculatedValue ==
  ASSUME NEW r, RegFileOK(r), NEW q, NEW x, Speculated(r, q, x), NEW p \in Seq(Token), NEW e,
         NEW k, NEW v, Ordered(p, e, r), Course(p, e, r, k, v),
         NEW y \in Register, NEW i \in Wb(r) + 2 .. Rd(r) + 1, NEW t, t = p[Wb(r) + 1],
         MayWrite(t, e, y), NEW old \in RenameReport, Source(p, e, r, v, Wb(r) + 1, old, y),
         IsConditional(t.inst) => v[Wb(r) + 1][y] \in Value,
         x = CASE DoesWrite(t.inst, t.b) /\ t.inst.kind # "load"
                    -> [valid |-> TRUE, register |-> t.result]
               [] ~DoesWrite(t.inst, t.b) /\ old.valid -> RolledIn(r)[old.regNum]
               [] OTHER -> NoValue
  PROVE  Valued(p, e, q, Longer(p, e, r, v), i, Names(InFlight(r)[Wb(r) + 1]), y)
<1> DEFINE u == Longer(p, e, r, v)
           w == Wb(r)
           g == InFlight(r)[w + 1]
           n == Names(g)
<1>1. /\ w \in Nat /\ Wb(q) + 1 = w + 2 /\ w + 1 \in 1 .. Rd(r) /\ i \in Nat /\ w + 1 <= i
  <2>1. w \in Nat /\ Rd(r) \in Nat
    BY FlightIs
  <2> QED BY <2>1 DEF Speculated
<1>2. /\ t \in Token /\ g.regNum \in RenameReg /\ g.pending = (t.inst.kind = "load")
  BY <1>1, FlagsAt, FlightTyped DEF Ordered
<1>3. n.valid /\ n.regNum = g.regNum /\ n.pending = g.pending
  BY DEF Names
<1>4. RolledIn(q)[n.regNum] = x
  BY <1>2, <1>3, SpeculatedRolledIn
<1>5. u[w + 2] = After(t, e, g.regNum, v[w + 1]) /\ v[w + 1] \in [Register -> Nat]
  BY LongerIs
<1> HIDE DEF u, n
<1>6. CASE DoesWrite(t.inst, t.b) /\ t.inst.kind = "load"
  <2>1. u[w + 2][y] = Owe(g.regNum)
    <3>1. u[w + 2][y] = Left(t, g.regNum)
      BY <1>5, <1>6, AfterWrites
    <3> QED BY <1>6, <3>1 DEF Left
  <2> QED BY <1>1, <1>2, <1>3, <1>6, <2>1 DEF Valued, u, n
<1>7. CASE DoesWrite(t.inst, t.b) /\ t.inst.kind # "load"
  <2>1. u[w + 2][y] = t.result
    <3>1. u[w + 2][y] = Left(t, g.regNum)
      BY <1>5, <1>7, AfterWrites
    <3> QED BY <1>7, <3>1 DEF Left
  <2>2. x = [valid |-> TRUE, register |-> t.result]
    BY <1>7
  <2>3. x.valid /\ x.register = t.result
    BY <2>2
  <2> QED BY <1>1, <1>3, <1>4, <2>1, <2>3 DEF Valued, Known, u, n
<1>8. CASE ~DoesWrite(t.inst, t.b)
  <2>1. u[w + 2][y] = v[w + 1][y]
    BY <1>5, <1>8, AfterKeeps
  <2>2. IsConditional(t.inst)
    BY <1>8 DEF MayWrite, DoesWrite, Writes
  <2>3. v[w + 1][y] \in Value
    BY <2>2
  <2>4. Valued(p, e, r, v, w + 1, old, y) /\ old.regNum \in RenameReg
    BY FirstSource DEF RenameReport
  <2>5. v[w + 1][y] # Owe(old.regNum)
    BY <2>3, <2>4, OweOne
  <2>6. ASSUME Known(r, old)
        PROVE  Known(q, n) /\ u[w + 2][y] = RolledIn(q)[n.regNum].register
    <3>1. old.valid /\ RolledIn(r)[old.regNum].valid
      BY <2>6 DEF Known
    <3>2. x = RolledIn(r)[old.regNum]
      BY <1>8, <3>1
    <3>3. v[w + 1][y] = RolledIn(r)[old.regNum].register
      BY <2>4, <2>5, <2>6 DEF Valued
    <3> QED BY <1>3, <1>4, <2>1, <3>1, <3>2, <3>3 DEF Known
  <2>7. ASSUME ~Known(r, old)
        PROVE  ~Known(q, n) /\ Steady(q, u, y) /\ UpToDate(p, e, q, i, y)
    <3>1. ~x.valid
      <4>1. CASE old.valid
        <5>1. x = RolledIn(r)[old.regNum]
          BY <1>8, <4>1
        <5> QED BY <2>7, <4>1, <5>1 DEF Known
      <4>2. CASE ~old.valid
        <5>1. x = NoValue
          BY <1>8, <4>2
        <5> QED BY <5>1 DEF NoValue
      <4> QED BY <4>1, <4>2
    <3>2. Steady(r, v, y) /\ UpToDate(p, e, r, w + 1, y)
      BY <2>4, <2>5, <2>7 DEF Valued
    <3>3. UpToDate(p, e, q, i, y)
      <4>1. w + 1 \in Nat
        BY <1>1
      <4> QED BY <1>1, <3>2, <4>1, SpeculatedUpToDate
    <3>4. Steady(q, u, y)
      BY <1>8, <3>2, SpeculatedSteady DEF u
    <3> QED BY <1>4, <3>1, <3>3, <3>4 DEF Known
  <2> QED BY <1>1, <2>6, <2>7 DEF Valued, u, n
<1> QED BY <1>6, <1>7, <1>8

(* The instruction after the first Wb(r), whose result is known, is        *)
(* executed.                                                               *)
LEMMA SpeculativeValues ==
  ASSUME NEW r, RegFileInv(r), CanWriteSpeculative(r), NEW p \in Seq(Token), NEW e \in Epoch, NEW v,
         Ordered(p, e, r), Values(p, e, r, Wb(r) + 1, v),
         NEW t, t = p[Wb(r) + 1], NEW write \in BOOLEAN,
         Writes(t.inst) => (write <=> DoesWrite(t.inst, t.b)),
         t.epoch = e /\ IsConditional(t.inst) /\ Writes(t.inst)
           => v[Wb(r) + 1][t.inst.dest] \in Value
  PROVE  LET q == writeRegSpeculative(r, t.result, write) IN
         /\ Ordered(p, e, q) /\ Values(p, e, q, Wb(q), Longer(p, e, r, v))
         /\ Unwritten(p, r) => Unwritten(p, q)
         /\ q.regFile = r.regFile /\ Wb(q) = Wb(r) + 1 /\ Rd(q) = Rd(r) /\ q.readReq = r.readReq
<1> DEFINE q == writeRegSpeculative(r, t.result, write)
           w == Wb(r)
           c == r.readReport[1]
           u == Longer(p, e, r, v)
           x == CASE write /\ ~c.write.pending -> [valid |-> TRUE, register |-> t.result]
                  [] ~write /\ c.write.write /\ c.old.valid -> RolledIn(r)[c.old.regNum]
                  [] OTHER -> NoValue
<1>1. RegFileOK(r) /\ Course(p, e, r, w + 1, v) /\ Sources(p, e, r, v)
  BY DEF RegFileInv, Values
<1>2. w \in Nat /\ Rd(r) \in Nat /\ w + 1 \in 1 .. Rd(r) /\ 1 \in 1 .. Len(r.readReport)
  <2>1. w \in Nat /\ Rd(r) \in Nat
    BY <1>1, FlightIs
  <2>2. 1 \in 1 .. Len(r.readReport) /\ Len(r.readReport) \in Nat
    BY <1>1, FlightIs, SpeculativeIs
  <2>3. Rd(r) = w + Len(r.readReport)
    BY DEF Rd
  <2> QED BY <2>1, <2>2, <2>3
<1>3. /\ t \in Token /\ InFlight(r)[w + 1].write = Writes(t.inst)
      /\ InFlight(r)[w + 1].pending = (t.inst.kind = "load")
      /\ InFlight(r)[w + 1].regNum \in RenameReg
  BY <1>1, <1>2, FlagsAt, FlightTyped DEF Ordered
<1>4. t.result \in Value
  BY <1>3, TokenTyped
<1>5. Speculated(r, q, x) /\ InFlight(r)[w + 1] = c.write
  BY <1>4, SpeculatedIs
<1>6. c.old \in RenameReport /\ \A o \in Operands : c.srcs[o] \in RenameReport
  BY <1>1, <1>2, ReportAt
<1> HIDE DEF q, c
<1>7. Ordered(p, e, q)
  <2>1. ASSUME c.write.write, c.write.pending
        PROVE  ~x.valid
    <3>1. Writes(t.inst) /\ t.inst.kind = "load" /\ ~IsConditional(t.inst)
      BY <1>3, <1>5, <2>1 DEF IsConditional
    <3>2. write
      BY <3>1 DEF DoesWrite
    <3>3. x = NoValue
      BY <2>1, <3>2
    <3> QED BY <3>3 DEF NoValue
  <2> HIDE DEF x
  <2> QED BY <1>1, <1>5, <2>1, SpeculatedOrdered
<1>8. ASSUME NEW n \in RenameReport, NEW y \in Register, NEW i \in w + 2 .. Rd(r) + 1,
             Source(p, e, r, v, i, n, y)
      PROVE  Source(p, e, q, u, i, n, y)
  <2>1. ASSUME MayWrite(t, e, y)
        PROVE  Valued(p, e, q, u, i, Names(InFlight(r)[w + 1]), y)
    <3>1. Writes(t.inst) /\ t.epoch = e /\ t.inst.dest = y
      BY <2>1 DEF MayWrite, Writes
    <3>2. Source(p, e, r, v, w + 1, c.old, y)
      BY <1>1, <1>2, <3>1 DEF Sources, c
    <3>3. IsConditional(t.inst) => v[w + 1][y] \in Value
      BY <3>1
    <3>4. x = CASE DoesWrite(t.inst, t.b) /\ t.inst.kind # "load"
                     -> [valid |-> TRUE, register |-> t.result]
                [] ~DoesWrite(t.inst, t.b) /\ c.old.valid -> RolledIn(r)[c.old.regNum]
                [] OTHER -> NoValue
      <4>1. write <=> DoesWrite(t.inst, t.b)
        BY <3>1
      <4>2. c.write.write /\ (c.write.pending <=> t.inst.kind = "load")
        BY <1>3, <1>5, <3>1
      <4> QED BY <4>1, <4>2
    <3> HIDE DEF x, u
    <3> QED BY <1>1, <1>3, <1>5, <1>6, <2>1, <3>2, <3>3, <3>4, SpeculatedValue DEF u
  <2> HIDE DEF x, u
  <2> QED BY <1>1, <1>5, <1>8, <2>1, SpeculatedSource DEF u
<1> HIDE DEF x
<1>9. /\ RegFileOK(q) /\ Wb(q) = w + 1 /\ Rd(q) = Rd(r) /\ q.regFile = r.regFile
      /\ q.rnTags = r.rnTags /\ q.readReq = r.readReq
      /\ Len(q.readReport) = Len(r.readReport) - 1 /\ Len(r.readReport) \in Nat
      /\ \A m \in 1 .. Len(q.readReport) : q.readReport[m] = r.readReport[m + 1]
      /\ \A j \in 1 .. Rd(r) : InFlight(q)[j] = InFlight(r)[j]
  BY <1>1, <1>5, FlightIs DEF Speculated
<1>10. Sources(p, e, q, u)
  <2>1. ASSUME NEW m \in 1 .. Len(q.readReport), p[Wb(q) + m].epoch = e
        PROVE  /\ \A o \in Operands : Source(p, e, q, u, Wb(q) + m, q.readReport[m].srcs[o],
                                             p[Wb(q) + m].inst[o])
               /\ Writes(p[Wb(q) + m].inst) =>
                    Source(p, e, q, u, Wb(q) + m, q.readReport[m].old, p[Wb(q) + m].inst.dest)
    <3>1. m + 1 \in 1 .. Len(r.readReport) /\ Wb(q) + m = w + (m + 1)
      BY <1>1, <1>5, SpeculatedCurrent
    <3>2. q.readReport[m] = r.readReport[m + 1]
      BY <1>9
    <3>3. w + (m + 1) \in w + 2 .. Rd(r) + 1 /\ w + (m + 1) \in 1 .. Rd(r)
      <4>1. Rd(r) = w + Len(r.readReport)
        BY DEF Rd
      <4>2. m \in Nat /\ m >= 1
        OBVIOUS
      <4> QED BY <1>2, <1>9, <3>1, <4>1, <4>2, SMTT(30)
    <3>4. p[w + (m + 1)] \in Token
      BY <1>1, <3>3, FlagsAt DEF Ordered
    <3> DEFINE d == r.readReport[m + 1]
               tt == p[w + (m + 1)]
    <3>5. d.old \in RenameReport /\ \A o \in Operands : d.srcs[o] \in RenameReport
      BY <1>1, <3>1, ReportAt
    <3>6. tt.inst.dest \in Register /\ \A o \in Operands : tt.inst[o] \in Register
      BY <3>4, TokenTyped, OperandTyped
    <3>7. /\ \A o \in Operands : Source(p, e, r, v, w + (m + 1), d.srcs[o], tt.inst[o])
          /\ Writes(tt.inst) => Source(p, e, r, v, w + (m + 1), d.old, tt.inst.dest)
      <4>1. tt.epoch = e
        BY <2>1, <3>1
      <4> QED BY <1>1, <3>1, <4>1 DEF Sources
    <3> HIDE DEF d, tt
    <3>8. /\ \A o \in Operands : Source(p, e, q, u, w + (m + 1), d.srcs[o], tt.inst[o])
          /\ Writes(tt.inst) => Source(p, e, q, u, w + (m + 1), d.old, tt.inst.dest)
      BY <1>8, <3>3, <3>5, <3>6, <3>7
    <3> QED BY <3>1, <3>2, <3>8 DEF d, tt
  <2>2. ASSUME NEW y \in Register
        PROVE  Source(p, e, q, u, Rd(q) + 1, Renamed(q, e, y), y)
    <3>1. Renamed(q, e, y) = Renamed(r, e, y)
      BY <1>9 DEF Renamed, Holders
    <3>2. Source(p, e, r, v, Rd(r) + 1, Renamed(r, e, y), y)
      BY <1>1 DEF Sources
    <3>3. Rd(r) + 1 \in w + 2 .. Rd(r) + 1
      BY <1>2
    <3>4. Renamed(r, e, y) \in RenameReport
      BY <1>1, RenamedTyped
    <3>5. Source(p, e, q, u, Rd(r) + 1, Renamed(r, e, y), y)
      BY <1>8, <3>2, <3>3, <3>4
    <3> QED BY <1>9, <3>1, <3>5
  <2> QED BY <2>1, <2>2 DEF Sources
<1>11. Course(p, e, q, Wb(q), u)
  <2>1. /\ \A j \in 1 .. w + 1 : u[j] = v[j] /\ v[j] \in [Register -> Nat]
        /\ u[w + 2] = After(t, e, InFlight(r)[w + 1].regNum, v[w + 1])
        /\ w + 1 \in 1 .. w + 1
    BY <1>1, LongerIs
  <2>2. u \in [1 .. Wb(q) + 1 -> [Register -> Nat]]
    <3>1. u[w + 2] \in [Register -> Nat]
      <4>1. v[w + 1] \in [Register -> Nat]
        BY <2>1
      <4>2. After(t, e, InFlight(r)[w + 1].regNum, v[w + 1]) \in [Register -> Nat]
        BY <1>3, <4>1, AfterTyped
      <4> QED BY <2>1, <4>2
    <3>2. ASSUME NEW j \in 1 .. w + 2 PROVE u[j] \in [Register -> Nat]
      <4>1. j = w + 2 \/ j \in 1 .. w + 1
        BY <1>2
      <4> HIDE DEF u
      <4> QED BY <2>1, <3>1, <4>1
    <3>3. u = [j \in 1 .. w + 2 |-> u[j]]
      BY DEF Longer
    <3>4. Wb(q) + 1 = w + 2
      BY <1>2, <1>9
    <3> HIDE DEF u
    <3> QED BY <3>2, <3>3, <3>4
  <2> HIDE DEF u
  <2>3. u[1] = q.regFile
    <3>1. 1 \in 1 .. w + 1
      BY <1>2
    <3> QED BY <1>1, <1>9, <2>1, <3>1 DEF Course
  <2>4. ASSUME NEW j \in 1 .. Wb(q)
        PROVE  u[j + 1] = After(p[j], e, InFlight(q)[j].regNum, u[j])
    <3>1. InFlight(q)[j] = InFlight(r)[j]
      BY <1>2, <1>9
    <3>2. CASE j = w + 1
      <4>1. j + 1 = w + 2 /\ u[j] = v[w + 1]
        BY <1>2, <2>1, <3>2
      <4> QED BY <2>1, <3>1, <3>2, <4>1
    <3>3. CASE j \in 1 .. w
      <4>1. j + 1 \in 1 .. w + 1 /\ j \in 1 .. w + 1
        BY <1>2, <3>3
      <4>2. u[j + 1] = v[j + 1] /\ u[j] = v[j]
        BY <2>1, <4>1
      <4>3. v[j + 1] = After(p[j], e, InFlight(r)[j].regNum, v[j])
        BY <1>1, <3>3 DEF Course
      <4> QED BY <3>1, <4>2, <4>3
    <3> QED BY <1>2, <1>9, <3>2, <3>3
  <2>5. \A j \in 1 .. Wb(q) : p[j].epoch = e => Right(p[j], u[j])
    BY <1>1, <1>2, <1>9, <2>1 DEF Course
  <2>6. ASSUME NEW y \in Register, u[Wb(q) + 1][y] \notin Value
        PROVE  \E j \in 1 .. Wb(q) : LET g == InFlight(q)[j] IN
                 p[j].epoch = e /\ g.write /\ g.pending /\ u[Wb(q) + 1][y] = Owe(g.regNum)
    <3>1. Wb(q) + 1 = w + 2
      BY <1>2, <1>9
    <3>2. CASE MayWrite(t, e, y) /\ DoesWrite(t.inst, t.b)
      <4>1. u[w + 2][y] = Left(t, InFlight(r)[w + 1].regNum)
        BY <2>1, <3>2, AfterWrites
      <4>2. t.inst.kind = "load" /\ u[w + 2][y] = Owe(InFlight(r)[w + 1].regNum)
        BY <1>4, <2>6, <3>1, <4>1 DEF Left
      <4>3. Writes(t.inst) /\ t.epoch = e
        BY <3>2 DEF MayWrite, Writes
      <4>4. w + 1 \in 1 .. Wb(q) /\ InFlight(q)[w + 1] = InFlight(r)[w + 1]
        BY <1>2, <1>9
      <4> QED BY <1>3, <3>1, <4>2, <4>3, <4>4
    <3>3. CASE ~(MayWrite(t, e, y) /\ DoesWrite(t.inst, t.b))
      <4>1. u[w + 2][y] = v[w + 1][y]
        BY <2>1, <3>3, AfterKeeps
      <4>2. PICK j \in 1 .. w : /\ p[j].epoch = e /\ InFlight(r)[j].write
                                /\ InFlight(r)[j].pending
                                /\ v[w + 1][y] = Owe(InFlight(r)[j].regNum)
        BY <1>1, <2>6, <3>1, <4>1 DEF Course
      <4>3. j \in 1 .. Wb(q) /\ InFlight(q)[j] = InFlight(r)[j]
        BY <1>2, <1>9
      <4> QED BY <3>1, <4>1, <4>2, <4>3
    <3> QED BY <3>2, <3>3
  <2> QED BY <2>2, <2>3, <2>4, <2>5, <2>6 DEF Course
<1>12. ASSUME Unwritten(p, r) PROVE Unwritten(p, q)
  <2> SUFFICES ASSUME p[1].fromDebug, NEW m \in 1 .. Len(q.readReport), NEW o \in Operands
               PROVE  Current(p, q, m, o)
    BY DEF Unwritten
  <2>1. m + 1 \in 1 .. Len(r.readReport) /\ (Current(p, r, m + 1, o) <=> Current(p, q, m, o))
    BY <1>1, <1>5, SpeculatedCurrent
  <2> QED BY <1>12, <2>1 DEF Unwritten
<1> QED BY <1>7, <1>9, <1>10, <1>11, <1>12 DEF Values, q

(* Between two changes of a register every instruction finds the same in   *)
(* it: the FIFO to writeback is bounded.                                   *)
LEMMA Unchanging ==
  ASSUME NEW r, RegFileOK(r), NEW p, NEW e, NEW k, NEW v, Course(p, e, r, k, v),
         NEW y \in Register, NEW a \in 1 .. Wb(r) + 1, None(p, e, y, a, Wb(r) + 1)
  PROVE  \A j \in a .. Wb(r) + 1 : v[j][y] = v[a][y]
<1> DEFINE Upto(n) == \A j \in a .. Wb(r) + 1 : j <= a + n => v[j][y] = v[a][y]
<1>1. Wb(r) \in Nat /\ Wb(r) <= 4
  BY FlightIs DEF RegFileOK, WritebackSize, Wb
<1>2. ASSUME NEW j \in a .. Wb(r)
      PROVE  v[j + 1][y] = v[j][y]
  <2>1. j \in 1 .. Wb(r) /\ j \in 1 .. Wb(r) + 1 /\ j \in a .. (Wb(r) + 1) - 1
    BY <1>1
  <2>2. ~MayWrite(p[j], e, y)
    BY <2>1 DEF None
  <2>3. v[j] \in [Register -> Nat] /\ v[j + 1] = After(p[j], e, InFlight(r)[j].regNum, v[j])
    BY <2>1 DEF Course
  <2> QED BY <2>2, <2>3, AfterKeeps
<1>3. Upto(0)
  BY <1>1
<1>4. ASSUME NEW n \in Nat, Upto(n)
      PROVE  Upto(n + 1)
  <2> SUFFICES ASSUME NEW j \in a .. Wb(r) + 1, j <= a + (n + 1)
               PROVE  v[j][y] = v[a][y]
    OBVIOUS
  <2>1. CASE j <= a + n
    BY <1>4, <2>1
  <2>2. CASE ~(j <= a + n)
    <3>1. j = (a + n) + 1 /\ a + n \in a .. Wb(r) /\ a + n <= a + n /\ a + n \in a .. Wb(r) + 1
      BY <1>1, <2>2
    <3>2. v[a + n][y] = v[a][y]
      BY <1>4, <3>1
    <3>3. v[(a + n) + 1][y] = v[a + n][y]
      BY <1>2, <3>1
    <3> QED BY <3>1, <3>2, <3>3
  <2> QED BY <2>1, <2>2
<1> HIDE DEF Upto
<1>5. Upto(0 + 1)
  BY <1>3, <1>4
<1>6. Upto((0 + 1) + 1)
  BY <1>4, <1>5
<1>7. Upto(((0 + 1) + 1) + 1)
  BY <1>4, <1>6
<1>8. Upto((((0 + 1) + 1) + 1) + 1)
  BY <1>4, <1>7
<1>9. \A j \in a .. Wb(r) + 1 : j <= a + ((((0 + 1) + 1) + 1) + 1)
  BY <1>1
<1> QED BY <1>8, <1>9 DEF Upto

-----------------------------------------------------------------------------
(* What writeReg changes, for the first of the instructions in p; z has    *)
(* the others.                                                             *)
Popped(p, z) ==
  /\ p \in Seq(Token) /\ z \in Seq(Token) /\ Len(p) = Len(z) + 1
  /\ \A i \in 1 .. Len(z) : z[i] = p[i + 1]

Paying(r, write) == InFlight(r)[1].pending /\ write

Written(r, q, dest, data, write) ==
  /\ RegFileOK(q) /\ 1 \in 1 .. Wb(r)
  /\ q.regFile = IF write THEN [r.regFile EXCEPT ![dest] = data] ELSE r.regFile
  /\ q.rnTags = r.rnTags /\ q.readReq = r.readReq /\ q.readReport = r.readReport
  /\ q.rnRegs = r.rnRegs /\ RolledIn(r) = r.rnRegs
  /\ q.pendVal = IF Paying(r, write)
                 THEN <<[regNum |-> InFlight(r)[1].regNum, register |-> data]>> ELSE <<>>
  /\ Wb(r) = Wb(q) + 1 /\ Rd(r) = Rd(q) + 1
  /\ \A i \in 1 .. Rd(q) : InFlight(q)[i] = InFlight(r)[i + 1]

LEMMA WrittenIs ==
  ASSUME NEW r, RegFileInv(r), CanWriteReg(r), NEW dest \in Register, NEW data \in Value,
         NEW write \in BOOLEAN
  PROVE  Written(r, writeReg(r, dest, data, write), dest, data, write)
<1> DEFINE q == writeReg(r, dest, data, write)
           g == Head(r.wbReRegWrite)
           file == IF write THEN [r.regFile EXCEPT ![dest] = data] ELSE r.regFile
           lim == IF g.write THEN r.limiter - 1 ELSE r.limiter
           pend == IF g.pending /\ write THEN <<[regNum |-> g.regNum, register |-> data]>>
                                         ELSE r.pendVal
           wb == Tail(r.wbReRegWrite)
<1>1. RegFileOK(r) /\ RegFileOK(q) /\ r \in RegFileState
  BY WriteKeeps DEF RegFileInv, RegFileOK
<1>2. q = [r EXCEPT !.regFile = file, !.limiter = lim, !.pendVal = pend, !.wbReRegWrite = wb]
  BY DEF writeReg
<1>3. r.wbReRegWrite \in Seq(WriteReport) /\ r.wbReRegWrite # <<>> /\ r.pendVal = <<>>
  BY <1>1 DEF RegFileState, CanWriteReg
<1>4. /\ g = r.wbReRegWrite[1] /\ Len(wb) = Len(r.wbReRegWrite) - 1
      /\ \A i \in 1 .. Len(wb) : wb[i] = r.wbReRegWrite[i + 1]
      /\ 1 \in 1 .. Len(r.wbReRegWrite) /\ Len(r.wbReRegWrite) \in Nat
  BY <1>3
<1>5. g = InFlight(r)[1]
  BY <1>1, <1>4, FlightIs DEF Wb
<1> HIDE DEF q, g, file, lim, pend, wb
<1>6. /\ q.regFile = file /\ q.rnTags = r.rnTags /\ q.readReq = r.readReq
      /\ q.readReport = r.readReport /\ q.rnRegs = r.rnRegs /\ q.pendVal = pend
      /\ q.wbReRegWrite = wb
  BY <1>1, <1>2 DEF RegFileState
<1>7. RolledIn(r) = r.rnRegs
  BY <1>3 DEF RolledIn
<1>8. /\ 1 \in 1 .. Wb(r) /\ Wb(r) = Wb(q) + 1
  BY <1>4, <1>6 DEF Wb
<1>9. Wb(q) \in Nat /\ Wb(r) \in Nat /\ Len(r.readReport) \in Nat
  BY <1>1, FlightIs
<1>10. Rd(r) = Wb(r) + Len(r.readReport) /\ Rd(q) = Wb(q) + Len(r.readReport)
  BY <1>6 DEF Rd
<1>11. Rd(r) = Rd(q) + 1
  BY <1>8, <1>9, <1>10
<1>12. ASSUME NEW i \in 1 .. Rd(q) PROVE InFlight(q)[i] = InFlight(r)[i + 1]
  <2>1. CASE i <= Wb(q)
    <3>1. i \in 1 .. Wb(q) /\ i + 1 \in 1 .. Wb(r)
      BY <1>8, <1>9, <2>1
    <3>2. InFlight(q)[i] = q.wbReRegWrite[i] /\ InFlight(r)[i + 1] = r.wbReRegWrite[i + 1]
      BY <1>1, <3>1, FlightIs
    <3>3. i \in 1 .. Len(wb)
      BY <1>6, <3>1 DEF Wb
    <3> QED BY <1>4, <1>6, <3>2, <3>3
  <2>2. CASE ~(i <= Wb(q))
    <3>1. PICK m \in 1 .. Len(r.readReport) : i = Wb(q) + m
      <4>1. i - Wb(q) \in 1 .. Len(r.readReport) /\ i = Wb(q) + (i - Wb(q))
        BY <1>9, <1>10, <2>2
      <4> QED BY <4>1
    <3>2. i + 1 = Wb(r) + m
      BY <1>8, <1>9, <3>1
    <3>3. InFlight(q)[Wb(q) + m] = q.readReport[m].write
      BY <1>1, <1>6, FlightIs
    <3>4. InFlight(r)[Wb(r) + m] = r.readReport[m].write
      BY <1>1, FlightIs
    <3> QED BY <1>6, <3>1, <3>2, <3>3, <3>4
  <2> QED BY <2>1, <2>2
<1> QED BY <1>1, <1>3, <1>5, <1>6, <1>7, <1>8, <1>11, <1>12 DEF Written, Paying, file, pend, q

LEMMA WrittenRolledIn ==
  ASSUME NEW r, RegFileOK(r), NEW q, NEW dest, NEW data, NEW write,
         Written(r, q, dest, data, write), NEW s \in RenameReg
  PROVE  IF Paying(r, write) /\ s = InFlight(r)[1].regNum
         THEN RolledIn(q)[s].valid /\ RolledIn(q)[s].register = data
         ELSE RolledIn(q)[s] = RolledIn(r)[s]
<1>1. RegFileOK(q)
  BY DEF Written
<1>2. CASE Paying(r, write)
  <2> DEFINE d == [regNum |-> InFlight(r)[1].regNum, register |-> data]
  <2>1. q.pendVal = <<d>>
    BY <1>2 DEF Written
  <2>2. q.pendVal # <<>> /\ q.pendVal[1] = d
    BY <2>1
  <2>3. q.pendVal[1].regNum = InFlight(r)[1].regNum /\ q.pendVal[1].register = data
    BY <2>2
  <2> HIDE DEF d
  <2>4. q.rnRegs = RolledIn(r)
    BY DEF Written
  <2>5. IF s = InFlight(r)[1].regNum THEN RolledIn(q)[s] = [valid |-> TRUE, register |-> data]
                                     ELSE RolledIn(q)[s] = RolledIn(r)[s]
    BY <1>1, <1>2, <2>2, <2>3, <2>4, RolledInAt
  <2> QED BY <1>2, <2>5
<1>3. CASE ~Paying(r, write)
  <2>1. q.pendVal = <<>> /\ q.rnRegs = RolledIn(r)
    BY <1>3 DEF Written
  <2> QED BY <1>3, <2>1 DEF RolledIn
<1> QED BY <1>2, <1>3

LEMMA WrittenOrdered ==
  ASSUME NEW r, RegFileOK(r), NEW q, NEW dest, NEW data, NEW write,
         Written(r, q, dest, data, write), Paying(r, write) => InFlight(r)[1].write,
         NEW p, NEW z, Popped(p, z), NEW e, Ordered(p, e, r)
  PROVE  Ordered(z, e, q)
<1> DEFINE f == InFlight(r)
           h == InFlight(q)
<1>1. /\ RegFileOK(q) /\ 1 \in 1 .. Wb(r) /\ Wb(r) = Wb(q) + 1 /\ Rd(r) = Rd(q) + 1
      /\ q.rnTags = r.rnTags /\ q.readReq = r.readReq /\ q.readReport = r.readReport
      /\ \A i \in 1 .. Rd(q) : h[i] = f[i + 1]
  BY DEF Written
<1>2. /\ Wb(q) \in Nat /\ Rd(q) \in Nat /\ Wb(q) <= Rd(q) /\ Wb(r) \in Nat /\ Rd(r) \in Nat
      /\ Len(r.readReq) \in Nat
  BY <1>1, FlightIs, LenProperties DEF RegFileOK, RegFileState
<1>3. DOMAIN h = 1 .. Rd(q) /\ DOMAIN f = 1 .. Rd(r)
  BY <1>1, FlightIs, LenProperties
<1>4. /\ Len(p) = Len(z) + 1 /\ Len(z) \in Nat /\ Len(p) \in Nat
      /\ \A i \in 1 .. Len(z) : z[i] = p[i + 1]
  BY LenProperties DEF Popped
<1>5. Rd(r) + Len(r.readReq) <= Len(p)
  BY DEF Ordered, Aligned
<1> HIDE DEF f, h
<1>6. Aligned(z, q)
  <2>1. Rd(q) + Len(q.readReq) <= Len(z)
    BY <1>1, <1>2, <1>4, <1>5
  <2>2. ASSUME NEW i \in 1 .. Rd(q) PROVE Flags(z[i], h[i])
    <3>1. i + 1 \in 1 .. Rd(r) /\ i \in 1 .. Len(z)
      BY <1>1, <1>2, <1>4, <1>5
    <3>2. Flags(p[i + 1], f[i + 1])
      BY <3>1 DEF Ordered, Aligned, f
    <3> QED BY <1>1, <1>4, <3>1, <3>2
  <2>3. ASSUME NEW i \in 1 .. Len(q.readReq) PROVE q.readReq[i] = Request(z[Rd(q) + i])
    <3>1. i \in 1 .. Len(r.readReq) /\ Rd(q) + i \in 1 .. Len(z) /\ Rd(r) + i = (Rd(q) + i) + 1
      <4>1. i \in 1 .. Len(r.readReq)
        BY <1>1
      <4> DEFINE a == Rd(q)
                 b == Len(z)
                 l == Len(r.readReq)
      <4>2. (a + 1) + l <= b + 1 /\ Rd(r) = a + 1
        BY <1>1, <1>4, <1>5
      <4>3. a \in Nat /\ b \in Nat /\ l \in Nat /\ i \in 1 .. l
        BY <1>2, <1>4, <4>1
      <4> HIDE DEF a, b, l
      <4>4. a + i \in 1 .. b
        BY <4>2, <4>3
      <4>5. Rd(r) + i = (a + i) + 1
        BY <4>2, <4>3
      <4> QED BY <4>1, <4>4, <4>5 DEF a, b
    <3>2. r.readReq[i] = Request(p[Rd(r) + i])
      BY <3>1 DEF Ordered, Aligned
    <3>3. z[Rd(q) + i] = p[Rd(r) + i]
      BY <1>4, <3>1
    <3> QED BY <1>1, <3>2, <3>3
  <2> QED BY <2>1, <2>2, <2>3 DEF Aligned, h
<1>7. Separated(h)
  <2> SUFFICES ASSUME NEW i \in 1 .. Rd(q), NEW j \in 1 .. Rd(q), i < j, h[i].write
               PROVE  h[i].regNum # h[j].regNum
    BY <1>3 DEF Separated
  <2>1. i + 1 \in 1 .. Rd(r) /\ j + 1 \in 1 .. Rd(r) /\ i + 1 < j + 1
    BY <1>1, <1>2
  <2>2. h[i] = f[i + 1] /\ h[j] = f[j + 1]
    BY <1>1
  <2> QED BY <1>3, <2>1, <2>2 DEF Ordered, Separated, f
<1>8. Owing(q)
  <2>1. ASSUME NEW i \in 1 .. Wb(q), h[i].write, h[i].pending
        PROVE  ~RolledIn(q)[h[i].regNum].valid
    <3>1. i + 1 \in 1 .. Wb(r) /\ i + 1 \in 1 .. Rd(r) /\ 1 \in 1 .. Rd(r) /\ 1 < i + 1
          /\ i \in 1 .. Rd(q)
      BY <1>1, <1>2
    <3>2. h[i] = f[i + 1] /\ f[i + 1].regNum \in RenameReg
      BY <1>1, <3>1, FlightTyped DEF f
    <3>3. ~RolledIn(r)[h[i].regNum].valid
      BY <2>1, <3>1, <3>2 DEF Ordered, Owing, f
    <3>4. ~(Paying(r, write) /\ h[i].regNum = f[1].regNum)
      BY <1>3, <3>1, <3>2 DEF Ordered, Separated, f
    <3>5. RolledIn(q)[h[i].regNum] = RolledIn(r)[h[i].regNum]
      BY <3>2, <3>4, WrittenRolledIn DEF f
    <3> QED BY <3>3, <3>5
  <2>2. ASSUME q.pendVal # <<>>
        PROVE  ~q.rnRegs[q.pendVal[1].regNum].valid
    <3>1. Paying(r, write) /\ q.pendVal = <<[regNum |-> f[1].regNum, register |-> data]>>
      BY <2>2 DEF Written, f
    <3>2. q.pendVal[1].regNum = f[1].regNum
      BY <3>1
    <3>3. ~RolledIn(r)[f[1].regNum].valid
      BY <1>1, <3>1 DEF Ordered, Owing, Paying, f
    <3> QED BY <3>2, <3>3 DEF Written
  <2> QED BY <2>1, <2>2 DEF Owing, h
<1>9. TagsOK(q)
  BY <1>1 DEF Ordered, TagsOK
<1>10. TagsLive(z, e, q)
  <2> SUFFICES ASSUME NEW i \in 1 .. Rd(q), z[i].epoch = e PROVE TagsOf(q, e)
    BY DEF TagsLive
  <2>1. i + 1 \in 1 .. Rd(r) /\ i \in 1 .. Len(z)
    BY <1>1, <1>2, <1>4, <1>5
  <2>2. p[i + 1].epoch = e
    BY <1>4, <2>1
  <2>3. TagsOf(r, e)
    BY <2>1, <2>2 DEF Ordered, TagsLive
  <2> QED BY <1>1, <2>3 DEF TagsOf
<1> QED BY <1>6, <1>7, <1>8, <1>9, <1>10 DEF Ordered, h

(* The registers that the others are to find when the first instruction    *)
(* has completed: where a load owed a value, there is the one it got, or,  *)
(* when it met an exception, the one that was there.                       *)
Owed(p, e, r) == p[1].epoch = e /\ InFlight(r)[1].write /\ InFlight(r)[1].pending

Paid(regs, owed, s, file) ==
  [y \in Register |-> IF owed /\ regs[y] = Owe(s) THEN file[y] ELSE regs[y]]

Shorter(p, e, r, q, v) ==
  [j \in 1 .. Wb(q) + 1 |-> Paid(v[j + 1], Owed(p, e, r), InFlight(r)[1].regNum, q.regFile)]

(* What writeReg is told of the instruction t; only a load of the debug    *)
(* unit's can meet an exception and leave the others alive.                *)
Completes(t, e, dest, data, write) ==
  /\ dest = t.inst.dest
  /\ t.epoch # e => ~write
  /\ t.epoch = e /\ t.inst.kind = "load" =>
       (write => Writes(t.inst)) /\ (Writes(t.inst) /\ ~write => t.fromDebug)
  /\ t.epoch = e /\ t.inst.kind # "load" =>
       (write <=> DoesWrite(t.inst, t.b)) /\ (write => data = t.result)

LEMMA NoneShifts ==
  ASSUME NEW p, NEW z, Popped(p, z), NEW e, NEW y, NEW a \in Nat \ {0}, NEW b \in Nat,
         b - 1 <= Len(z), NEW c, c = a + 1, NEW d, d = b + 1
  PROVE  None(z, e, y, a, b) <=> None(p, e, y, c, d)
<1>1. Len(z) \in Nat /\ \A i \in 1 .. Len(z) : z[i] = p[i + 1]
  BY LenProperties DEF Popped
<1>2. ASSUME None(z, e, y, a, b) PROVE None(p, e, y, c, d)
  <2> SUFFICES ASSUME NEW j \in c .. d - 1 PROVE ~MayWrite(p[j], e, y)
    BY DEF None
  <2>1. j - 1 \in a .. b - 1 /\ j - 1 \in 1 .. Len(z) /\ (j - 1) + 1 = j
    BY <1>1
  <2>2. z[j - 1] = p[j]
    BY <1>1, <2>1
  <2> QED BY <1>2, <2>1, <2>2 DEF None
<1>3. ASSUME None(p, e, y, c, d) PROVE None(z, e, y, a, b)
  <2> SUFFICES ASSUME NEW j \in a .. b - 1 PROVE ~MayWrite(z[j], e, y)
    BY DEF None
  <2>1. j + 1 \in c .. d - 1 /\ j \in 1 .. Len(z)
    BY <1>1
  <2>2. z[j] = p[j + 1]
    BY <1>1, <2>1
  <2> QED BY <1>3, <2>1, <2>2 DEF None
<1> QED BY <1>2, <1>3

LEMMA PaidTyped ==
  ASSUME NEW regs \in [Register -> Nat], NEW owed, NEW s \in RenameReg,
         NEW file \in [Register -> Value]
  PROVE  Paid(regs, owed, s, file) \in [Register -> Nat]
BY DEF Paid, Value

(* What an instruction leaves of what has been paid.                       *)
LEMMA PaidAfter ==
  ASSUME NEW t \in Token, NEW e, NEW u \in RenameReg, NEW regs \in [Register -> Nat],
         NEW owed \in BOOLEAN, NEW s \in RenameReg, NEW file \in [Register -> Value],
         owed => u # s
  PROVE  Paid(After(t, e, u, regs), owed, s, file) = After(t, e, u, Paid(regs, owed, s, file))
<1> DEFINE a == After(t, e, u, regs)
           b == Paid(regs, owed, s, file)
           c == Paid(a, owed, s, file)
           d == After(t, e, u, b)
<1>1. a \in [Register -> Nat]
  BY AfterTyped
<1>2. b \in [Register -> Nat]
  BY PaidTyped
<1>3. c \in [Register -> Nat] /\ d \in [Register -> Nat]
  <2>1. c \in [Register -> Nat]
    <3> HIDE DEF a
    <3> QED BY <1>1, PaidTyped
  <2>2. d \in [Register -> Nat]
    <3> HIDE DEF b
    <3> QED BY <1>2, AfterTyped
  <2> QED BY <2>1, <2>2
<1>4. ASSUME NEW y \in Register PROVE c[y] = d[y]
  <2>1. CASE MayWrite(t, e, y) /\ DoesWrite(t.inst, t.b)
    <3>1. a[y] = Left(t, u) /\ d[y] = Left(t, u)
      BY <1>2, <2>1, AfterWrites
    <3>2. owed => Left(t, u) # Owe(s)
      <4>1. owed => Owe(u) # Owe(s)
        BY OweOne
      <4>2. t.result # Owe(s)
        BY TokenTyped, OweOne
      <4> QED BY <4>1, <4>2 DEF Left
    <3> HIDE DEF a, b, d
    <3>3. c[y] = a[y]
      <4>1. ~(owed /\ a[y] = Owe(s))
        BY <3>1, <3>2
      <4> QED BY <1>1, <4>1 DEF Paid, c
    <3> QED BY <3>1, <3>3
  <2>2. CASE ~(MayWrite(t, e, y) /\ DoesWrite(t.inst, t.b))
    <3>1. a[y] = regs[y] /\ d[y] = b[y]
      BY <1>2, <2>2, AfterKeeps
    <3> HIDE DEF a, d
    <3>2. CASE owed /\ regs[y] = Owe(s)
      <4>1. b[y] = file[y]
        BY <3>2 DEF Paid, b
      <4>2. c[y] = file[y]
        BY <1>1, <3>1, <3>2 DEF Paid, c
      <4> QED BY <3>1, <4>1, <4>2
    <3>3. CASE ~(owed /\ regs[y] = Owe(s))
      <4>1. b[y] = regs[y]
        BY <3>3 DEF Paid, b
      <4>2. c[y] = a[y]
        BY <1>1, <3>1, <3>3 DEF Paid, c
      <4> QED BY <3>1, <4>1, <4>2
    <3> QED BY <3>2, <3>3
  <2> QED BY <2>1, <2>2
<1> HIDE DEF c, d
<1>5. c = d
  BY <1>3, <1>4
<1> QED BY <1>5 DEF a, b, c, d

(* The facts about the first instruction.                                  *)
LEMMA FirstIs ==
  ASSUME NEW r, RegFileOK(r), NEW q, NEW dest, NEW data, NEW write,
         Written(r, q, dest, data, write), NEW p, NEW z, Popped(p, z),
         NEW e, Ordered(p, e, r)
  PROVE  /\ p[1] \in Token /\ InFlight(r)[1].regNum \in RenameReg
         /\ InFlight(r)[1].write = Writes(p[1].inst)
         /\ InFlight(r)[1].pending = (p[1].inst.kind = "load")
         /\ Wb(r) \in Nat /\ Wb(q) \in Nat /\ Rd(q) \in Nat /\ Wb(r) = Wb(q) + 1
         /\ Rd(r) = Rd(q) + 1 /\ Wb(q) <= Rd(q) /\ 1 \in 1 .. Rd(r)
         /\ Len(z) \in Nat /\ Rd(q) <= Len(z) /\ RegFileOK(q)
         /\ \A j \in 2 .. Rd(r) : InFlight(r)[1].write
                                    => InFlight(r)[j].regNum # InFlight(r)[1].regNum
<1>1. RegFileOK(q) /\ 1 \in 1 .. Wb(r) /\ Wb(r) = Wb(q) + 1 /\ Rd(r) = Rd(q) + 1
  BY DEF Written
<1>2. Wb(r) \in Nat /\ Wb(q) \in Nat /\ Rd(q) \in Nat /\ Wb(q) <= Rd(q)
  BY <1>1, FlightIs
<1>3. 1 \in 1 .. Rd(r)
  BY <1>1, <1>2
<1>4. p \in Seq(Token) /\ Len(z) \in Nat /\ Len(p) = Len(z) + 1
  BY LenProperties DEF Popped
<1>5. Rd(q) <= Len(z)
  <2>1. Rd(r) + Len(r.readReq) <= Len(p) /\ Len(r.readReq) \in Nat
    BY LenProperties DEF Ordered, Aligned, RegFileOK, RegFileState
  <2> QED BY <1>1, <1>2, <1>4, <2>1
<1>6. /\ p[1] \in Token /\ InFlight(r)[1].regNum \in RenameReg
      /\ InFlight(r)[1].write = Writes(p[1].inst)
      /\ InFlight(r)[1].pending = (p[1].inst.kind = "load")
  BY <1>3, <1>4, FlagsAt, FlightTyped DEF Ordered
<1>7. ASSUME NEW j \in 2 .. Rd(r), InFlight(r)[1].write
      PROVE  InFlight(r)[j].regNum # InFlight(r)[1].regNum
  <2>1. DOMAIN InFlight(r) = 1 .. Rd(r)
    BY FlightIs, LenProperties
  <2>2. j \in 1 .. Rd(r) /\ 1 < j
    BY <1>1, <1>2
  <2> QED BY <1>3, <1>7, <2>1, <2>2 DEF Ordered, Separated
<1> QED BY <1>1, <1>2, <1>3, <1>4, <1>5, <1>6, <1>7

LEMMA ShorterIs ==
  ASSUME NEW r, RegFileOK(r), NEW q, NEW dest, NEW data, NEW write,
         Written(r, q, dest, data, write), NEW p, NEW z, Popped(p, z), NEW e, Ordered(p, e, r),
         NEW k, NEW v, Course(p, e, r, k, v), NEW j \in 1 .. Wb(q) + 1
  PROVE  /\ Shorter(p, e, r, q, v)[j]
              = Paid(v[j + 1], Owed(p, e, r), InFlight(r)[1].regNum, q.regFile)
         /\ j + 1 \in 1 .. Wb(r) + 1 /\ v[j + 1] \in [Register -> Nat]
         /\ Shorter(p, e, r, q, v)[j] \in [Register -> Nat]
         /\ q.regFile \in [Register -> Value]
<1>1. /\ Wb(q) \in Nat /\ Wb(r) = Wb(q) + 1 /\ InFlight(r)[1].regNum \in RenameReg
      /\ RegFileOK(q)
  BY FirstIs
<1>2. j + 1 \in 1 .. Wb(r) + 1
  BY <1>1
<1>3. v[j + 1] \in [Register -> Nat]
  BY <1>2 DEF Course
<1>4. q.regFile \in [Register -> Value]
  BY <1>1 DEF RegFileOK, RegFileState
<1>5. Shorter(p, e, r, q, v)[j]
        = Paid(v[j + 1], Owed(p, e, r), InFlight(r)[1].regNum, q.regFile)
  BY DEF Shorter
<1>6. Paid(v[j + 1], Owed(p, e, r), InFlight(r)[1].regNum, q.regFile) \in [Register -> Nat]
  BY <1>1, <1>3, <1>4, PaidTyped
<1> QED BY <1>2, <1>3, <1>4, <1>5, <1>6

(* The register file has what the first instruction leaves.                *)
LEMMA ShorterFirst ==
  ASSUME NEW r, RegFileOK(r), NEW q, NEW dest, NEW data \in Value, NEW write \in BOOLEAN,
         Written(r, q, dest, data, write), NEW p, NEW z, Popped(p, z), NEW e, Ordered(p, e, r),
         NEW k, NEW v, Course(p, e, r, k, v), Completes(p[1], e, dest, data, write)
  PROVE  Shorter(p, e, r, q, v)[1] = q.regFile
<1> DEFINE t == p[1]
           s == InFlight(r)[1].regNum
           owed == Owed(p, e, r)
           u == Shorter(p, e, r, q, v)
<1>1. /\ Wb(q) \in Nat /\ Wb(r) = Wb(q) + 1 /\ s \in RenameReg /\ t \in Token
      /\ InFlight(r)[1].write = Writes(t.inst)
      /\ InFlight(r)[1].pending = (t.inst.kind = "load")
  BY FirstIs
<1>2. 1 \in 1 .. Wb(q) + 1
  BY <1>1
<1>3. u[1] = Paid(v[1 + 1], owed, s, q.regFile) /\ q.regFile \in [Register -> Value]
  BY <1>2, ShorterIs
<1>4. 1 \in 1 .. Wb(r) /\ r.regFile \in [Register -> Value]
  BY <1>1 DEF RegFileOK, RegFileState
<1>5. v[1 + 1] = After(t, e, s, r.regFile)
  BY <1>4 DEF Course
<1>6. dest \in Register /\ t.inst.dest = dest
  BY <1>1, TokenTyped DEF Completes
<1>7. q.regFile = IF write THEN [r.regFile EXCEPT ![dest] = data] ELSE r.regFile
  BY DEF Written
<1>8. r.regFile \in [Register -> Nat]
  BY <1>4 DEF Value
<1> HIDE DEF t, s, owed, u
<1>9. ASSUME NEW y \in Register
      PROVE  Paid(v[1 + 1], owed, s, q.regFile)[y] = q.regFile[y]
  <2>1. CASE MayWrite(t, e, y) /\ DoesWrite(t.inst, t.b)
    <3>1. v[1 + 1][y] = Left(t, s)
      BY <1>5, <1>8, <2>1, AfterWrites
    <3>2. t.epoch = e /\ y = dest /\ Writes(t.inst)
      BY <1>6, <2>1 DEF MayWrite, Writes
    <3>3. CASE t.inst.kind = "load"
      <4>1. owed /\ v[1 + 1][y] = Owe(s)
        BY <1>1, <3>1, <3>2, <3>3 DEF Owed, Left, owed, t
      <4> QED BY <4>1 DEF Paid
    <3>4. CASE t.inst.kind # "load"
      <4>1. write /\ data = t.result
        BY <2>1, <3>2, <3>4 DEF Completes, t
      <4>2. v[1 + 1][y] = data
        BY <3>1, <3>4, <4>1 DEF Left
      <4>3. q.regFile[y] = data
        BY <1>4, <1>7, <3>2, <4>1
      <4> QED BY <4>2, <4>3 DEF Paid
    <3> QED BY <3>3, <3>4
  <2>2. CASE ~(MayWrite(t, e, y) /\ DoesWrite(t.inst, t.b))
    <3>1. v[1 + 1][y] = r.regFile[y]
      BY <1>5, <1>8, <2>2, AfterKeeps
    <3>2. q.regFile[y] = r.regFile[y]
      <4>1. CASE write /\ y = dest
        <5>1. t.epoch = e
          BY <4>1 DEF Completes, t
        <5>2. DoesWrite(t.inst, t.b)
          BY <4>1, <5>1 DEF Completes, DoesWrite, IsConditional, t
        <5>3. MayWrite(t, e, y)
          BY <1>6, <4>1, <5>1, <5>2 DEF MayWrite, DoesWrite, Writes
        <5> QED BY <2>2, <5>2, <5>3
      <4>2. CASE ~(write /\ y = dest)
        BY <1>4, <1>6, <1>7, <4>2
      <4> QED BY <4>1, <4>2
    <3> QED BY <3>1, <3>2 DEF Paid
  <2> QED BY <2>1, <2>2
<1>10. Paid(v[1 + 1], owed, s, q.regFile) = [y \in Register |-> q.regFile[y]]
  <2> DEFINE b == Paid(v[1 + 1], owed, s, q.regFile)
  <2>1. b = [y \in Register |-> b[y]]
    BY DEF Paid
  <2> HIDE DEF b
  <2>2. \A y \in Register : b[y] = q.regFile[y]
    BY <1>9 DEF b
  <2> QED BY <2>1, <2>2 DEF b
<1> QED BY <1>3, <1>10 DEF u

LEMMA ShorterCourse ==
  ASSUME NEW r, RegFileOK(r), NEW q, NEW dest, NEW data \in Value, NEW write \in BOOLEAN,
         Written(r, q, dest, data, write), NEW p, NEW z, Popped(p, z), NEW e, Ordered(p, e, r),
         NEW k \in 1 .. Wb(r) + 1, k <= Len(p), NEW v, Course(p, e, r, k, v),
         Completes(p[1], e, dest, data, write), NEW h, h = k - 1
  PROVE  Course(z, e, q, h, Shorter(p, e, r, q, v))
<1> DEFINE f == InFlight(r)
           s == f[1].regNum
           owed == Owed(p, e, r)
           file == q.regFile
           u == Shorter(p, e, r, q, v)
<1>1. /\ s \in RenameReg /\ f[1].write = Writes(p[1].inst)
      /\ Wb(r) \in Nat /\ Wb(q) \in Nat /\ Rd(q) \in Nat /\ Wb(r) = Wb(q) + 1
      /\ Rd(r) = Rd(q) + 1 /\ Wb(q) <= Rd(q) /\ Len(z) \in Nat /\ Rd(q) <= Len(z)
      /\ \A j \in 2 .. Rd(r) : f[1].write => f[j].regNum # s
  BY FirstIs
<1>2. /\ Len(p) = Len(z) + 1 /\ p \in Seq(Token) /\ \A i \in 1 .. Len(z) : z[i] = p[i + 1]
  BY DEF Popped
<1>3. \A j \in 1 .. Wb(q) + 1 : /\ u[j] = Paid(v[j + 1], owed, s, file)
                                /\ j + 1 \in 1 .. Wb(r) + 1 /\ v[j + 1] \in [Register -> Nat]
                                /\ u[j] \in [Register -> Nat]
                                /\ file \in [Register -> Value]
  BY ShorterIs
<1>4. u \in [1 .. Wb(q) + 1 -> [Register -> Nat]]
  <2>1. u = [j \in 1 .. Wb(q) + 1 |-> u[j]]
    BY DEF Shorter
  <2> HIDE DEF u
  <2> QED BY <1>3, <2>1
<1>5. u[1] = file
  BY ShorterFirst
<1> HIDE DEF u, owed, f, s, file
<1>6. ASSUME NEW j \in 1 .. Wb(q)
      PROVE  u[j + 1] = After(z[j], e, InFlight(q)[j].regNum, u[j])
  <2>1. /\ j \in 1 .. Wb(q) + 1 /\ j + 1 \in 1 .. Wb(q) + 1 /\ j + 1 \in 1 .. Wb(r)
        /\ j \in 1 .. Rd(q) /\ j + 1 \in 2 .. Rd(r) /\ j \in 1 .. Len(z) /\ j + 1 \in 1 .. Len(p)
    BY <1>1, <1>2
  <2>2. v[(j + 1) + 1] = After(p[j + 1], e, f[j + 1].regNum, v[j + 1])
    BY <2>1 DEF Course, f
  <2>3. z[j] = p[j + 1] /\ p[j + 1] \in Token /\ InFlight(q)[j] = f[j + 1]
    BY <1>2, <2>1 DEF Written, f
  <2>4. f[j + 1].regNum \in RenameReg /\ (owed => f[j + 1].regNum # s)
    <3>1. j + 1 \in 1 .. Rd(r)
      BY <2>1
    <3>2. f[j + 1].regNum \in RenameReg
      BY <3>1, FlightTyped DEF f
    <3>3. owed => f[1].write
      BY DEF owed, Owed, f
    <3> QED BY <1>1, <2>1, <3>2, <3>3
  <2>5. u[j + 1] = Paid(v[(j + 1) + 1], owed, s, file) /\ u[j] = Paid(v[j + 1], owed, s, file)
    BY <1>3, <2>1
  <2>6. v[j + 1] \in [Register -> Nat] /\ file \in [Register -> Value]
    BY <1>3, <2>1
  <2> QED
    <3>1. Paid(After(p[j + 1], e, f[j + 1].regNum, v[j + 1]), owed, s, file)
            = After(p[j + 1], e, f[j + 1].regNum, Paid(v[j + 1], owed, s, file))
      <4>1. owed \in BOOLEAN
        BY DEF owed, Owed
      <4> QED
        <5> DEFINE tt == p[j + 1]
                   uu == f[j + 1].regNum
                   regs == v[j + 1]
        <5>1. /\ tt \in Token /\ uu \in RenameReg /\ regs \in [Register -> Nat]
              /\ s \in RenameReg /\ file \in [Register -> Value] /\ owed \in BOOLEAN
              /\ (owed => uu # s)
          BY <1>1, <2>3, <2>4, <2>6, <4>1
        <5> HIDE DEF tt, uu, regs
        <5>2. Paid(After(tt, e, uu, regs), owed, s, file) = After(tt, e, uu, Paid(regs, owed, s, file))
          BY <5>1, PaidAfter
        <5> QED BY <5>2 DEF tt, uu, regs
    <3> QED BY <2>2, <2>3, <2>5, <3>1
<1>7. ASSUME NEW i \in 1 .. h, z[i].epoch = e
      PROVE  Right(z[i], u[i])
  <2>1. i + 1 \in 1 .. k /\ i \in 1 .. Len(z) /\ i \in 1 .. Wb(q) + 1 /\ i + 1 \in 1 .. Len(p)
    BY <1>1, <1>2
  <2> DEFINE t == z[i]
  <2>2. t = p[i + 1] /\ t \in Token
    BY <1>2, <2>1
  <2>3. Right(t, v[i + 1])
    BY <1>7, <2>1, <2>2 DEF Course
  <2>4. u[i] = Paid(v[i + 1], owed, s, file)
    BY <1>3, <2>1
  <2> HIDE DEF t
  <2>5. ASSUME NEW o \in Operands, Given(t, o, v[i + 1]) \in Value
        PROVE  Given(t, o, u[i]) = Given(t, o, v[i + 1])
    <3>1. t.inst[o] \in Register
      BY <2>2, OperandTyped
    <3>2. CASE t.fromDebug /\ t.inst[o] = 0
      BY <3>2 DEF Given
    <3>3. CASE ~(t.fromDebug /\ t.inst[o] = 0)
      <4>1. v[i + 1][t.inst[o]] \in Value
        BY <2>5, <3>3 DEF Given
      <4>2. v[i + 1][t.inst[o]] # Owe(s)
        BY <1>1, <4>1, OweOne
      <4>3. u[i][t.inst[o]] = v[i + 1][t.inst[o]]
        BY <2>4, <3>1, <4>2 DEF Paid
      <4> QED BY <3>3, <4>3 DEF Given
    <3> QED BY <3>2, <3>3
  <2>6. t.a \in Value /\ t.b \in Value /\ "a" \in Operands /\ "b" \in Operands
    BY <2>2, TokenTyped DEF Operands
  <2>7. t.a = Given(t, "a", v[i + 1]) /\ t.b = Given(t, "b", v[i + 1])
    BY <2>3 DEF Right
  <2>8. Given(t, "a", u[i]) = Given(t, "a", v[i + 1]) /\ Given(t, "b", u[i]) = Given(t, "b", v[i + 1])
    BY <2>5, <2>6, <2>7
  <2>9. Right(t, u[i])
    BY <2>3, <2>8 DEF Right
  <2> QED BY <2>9 DEF t
<1>8. ASSUME NEW y \in Register, u[Wb(q) + 1][y] \notin Value
      PROVE  \E j \in 1 .. Wb(q) : LET g == InFlight(q)[j] IN
               z[j].epoch = e /\ g.write /\ g.pending /\ u[Wb(q) + 1][y] = Owe(g.regNum)
  <2> DEFINE val == v[Wb(r) + 1][y]
  <2>1. /\ u[Wb(q) + 1] = Paid(v[Wb(r) + 1], owed, s, file) /\ file \in [Register -> Value]
    <3>1. Wb(q) + 1 \in 1 .. Wb(q) + 1 /\ Wb(r) + 1 = (Wb(q) + 1) + 1
      BY <1>1
    <3> QED BY <1>3, <3>1
  <2>2. ~(owed /\ val = Owe(s)) /\ u[Wb(q) + 1][y] = val
    BY <1>8, <2>1 DEF Paid
  <2> HIDE DEF val
  <2>3. PICK j \in 1 .. Wb(r) : /\ p[j].epoch = e /\ f[j].write /\ f[j].pending
                                /\ val = Owe(f[j].regNum)
    BY <1>8, <2>2 DEF Course, f, val
  <2>4. j # 1
    BY <2>2, <2>3 DEF owed, Owed, f, s
  <2>5. j - 1 \in 1 .. Wb(q) /\ j - 1 \in 1 .. Rd(q) /\ j - 1 \in 1 .. Len(z) /\ (j - 1) + 1 = j
    BY <1>1, <2>4
  <2>6. z[j - 1] = p[j] /\ InFlight(q)[j - 1] = f[j]
    BY <1>2, <2>5 DEF Written, f
  <2> QED BY <2>2, <2>3, <2>5, <2>6
<1>9. u[1] = q.regFile
  BY <1>5 DEF file
<1> QED BY <1>4, <1>6, <1>7, <1>8, <1>9 DEF Course, u

LEMMA ShorterNamed ==
  ASSUME NEW r, RegFileOK(r), NEW q, NEW dest, NEW data, NEW write,
         Written(r, q, dest, data, write), NEW p, NEW z, Popped(p, z), NEW e, Ordered(p, e, r),
         NEW i \in Wb(r) + 1 .. Rd(r) + 1, NEW h, h = i - 1, NEW n, NEW y,
         Named(p, e, InFlight(r), Wb(r), i, n, y)
  PROVE  Named(z, e, InFlight(q), Wb(q), h, n, y)
<1> DEFINE f == InFlight(r)
           g == InFlight(q)
<1>1. /\ f[1].write = Writes(p[1].inst)
      /\ Wb(r) \in Nat /\ Wb(q) \in Nat /\ Rd(q) \in Nat /\ Wb(r) = Wb(q) + 1
      /\ Rd(r) = Rd(q) + 1 /\ Len(z) \in Nat /\ Rd(q) <= Len(z)
      /\ \A j \in 2 .. Rd(r) : f[1].write => f[j].regNum # f[1].regNum
  BY FirstIs
<1>2. \A j \in 1 .. Len(z) : z[j] = p[j + 1]
  BY DEF Popped
<1>3. \A j \in 1 .. Rd(q) : g[j] = f[j + 1]
  BY DEF Written
<1>4. h \in Nat /\ i = h + 1 /\ h - 1 <= Len(z) /\ h - 1 <= Rd(q)
  BY <1>1
<1> HIDE DEF f, g
<1>5. CASE \E j \in 1 .. i - 1 : /\ MayWrite(p[j], e, y) /\ None(p, e, y, j + 1, i)
                                 /\ n = Names(f[j])
  <2>1. PICK j \in 1 .. i - 1 : /\ MayWrite(p[j], e, y) /\ None(p, e, y, j + 1, i)
                                /\ n = Names(f[j])
    BY <1>5
  <2>2. CASE j = 1
    <3>1. None(z, e, y, 1, h)
      <4>1. None(p, e, y, 1 + 1, i)
        BY <2>1, <2>2
      <4> QED BY <1>4, <4>1, NoneShifts
    <3>2. f[1].write /\ n.regNum = f[1].regNum
      BY <1>1, <2>1, <2>2 DEF MayWrite, Writes, Names
    <3>3. ASSUME NEW l \in 1 .. h - 1 PROVE g[l].regNum # n.regNum
      <4>1. l \in 1 .. Rd(q) /\ l + 1 \in 2 .. Rd(r)
        BY <1>1, <1>4
      <4> QED BY <1>1, <1>3, <3>2, <4>1
    <3> QED BY <3>1, <3>3 DEF Named, g
  <2>3. CASE j # 1
    <3>1. /\ j - 1 \in 1 .. h - 1 /\ j - 1 \in 1 .. Len(z) /\ j - 1 \in 1 .. Rd(q)
          /\ (j - 1) + 1 = j /\ (j - 1) + 1 \in Nat \ {0} /\ j + 1 = ((j - 1) + 1) + 1
      BY <1>1, <1>4, <2>3
    <3>2. None(z, e, y, (j - 1) + 1, h)
      <4> DEFINE a == (j - 1) + 1
                 c == j + 1
      <4>1. None(p, e, y, c, i) /\ a \in Nat \ {0} /\ c = a + 1
        BY <2>1, <3>1
      <4> HIDE DEF a, c
      <4>2. None(z, e, y, a, h)
        BY <1>4, <4>1, NoneShifts
      <4> QED BY <4>2 DEF a
    <3>3. MayWrite(z[j - 1], e, y) /\ n = Names(g[j - 1])
      BY <1>2, <1>3, <2>1, <3>1
    <3> QED BY <3>1, <3>2, <3>3 DEF Named, g
  <2> QED BY <2>2, <2>3
<1>6. CASE /\ None(p, e, y, 1, i)
           /\ n.valid => \A j \in 1 .. i - 1 : (j > Wb(r) \/ f[j].write) => f[j].regNum # n.regNum
  <2>1. None(z, e, y, 1, h)
    <3>1. None(p, e, y, 1 + 1, i)
      BY <1>4, <1>6 DEF None
    <3> QED BY <1>4, <3>1, NoneShifts
  <2>2. ASSUME n.valid, NEW j \in 1 .. h - 1, j > Wb(q) \/ g[j].write
        PROVE  g[j].regNum # n.regNum
    <3>1. j + 1 \in 1 .. i - 1 /\ j \in 1 .. Rd(q) /\ (j > Wb(q) => j + 1 > Wb(r))
      BY <1>1, <1>4
    <3>2. g[j] = f[j + 1]
      BY <1>3, <3>1
    <3> QED BY <1>6, <2>2, <3>1, <3>2
  <2> QED BY <2>1, <2>2 DEF Named, g
<1> QED BY <1>5, <1>6 DEF Named, f

(* The instructions whose operands have been read move by one place.       *)
LEMMA PlaceShifts ==
  ASSUME NEW r, RegFileOK(r), NEW q, NEW dest, NEW data, NEW write,
         Written(r, q, dest, data, write), NEW p, NEW z, Popped(p, z), NEW e, Ordered(p, e, r),
         NEW m \in 1 .. Len(q.readReport)
  PROVE  /\ q.readReport = r.readReport /\ m \in Nat /\ m >= 1
         /\ Wb(q) + m \in 1 .. Len(z) /\ (Wb(q) + m) + 1 = Wb(r) + m
         /\ z[Wb(q) + m] = p[Wb(r) + m]
<1>1. /\ Wb(r) \in Nat /\ Wb(q) \in Nat /\ Rd(q) \in Nat /\ Wb(r) = Wb(q) + 1
      /\ Len(z) \in Nat /\ Rd(q) <= Len(z) /\ RegFileOK(q)
  BY FirstIs
<1>2. Len(q.readReport) \in Nat /\ Rd(q) = Wb(q) + Len(q.readReport)
  BY <1>1, FlightIs DEF Rd
<1> DEFINE c == Len(q.readReport)
           w == Wb(q)
           d == Rd(q)
           l == Len(z)
<1>3. w \in Nat /\ c \in Nat /\ d = w + c /\ l \in Nat /\ d <= l /\ m \in 1 .. c
  BY <1>1, <1>2
<1> HIDE DEF c, w, d, l
<1>4. m \in Nat /\ m >= 1 /\ w + m \in 1 .. l
  BY <1>3
<1>5. (w + m) + 1 = (w + 1) + m
  BY <1>3, <1>4
<1>6. (w + m) + 1 = Wb(r) + m
  BY <1>1, <1>5 DEF w
<1>7. z[w + m] = p[(w + m) + 1]
  BY <1>4 DEF Popped, l
<1>8. q.readReport = r.readReport
  BY DEF Written
<1> QED BY <1>4, <1>6, <1>7, <1>8 DEF w, l

LEMMA ShorterSource ==
  ASSUME NEW r, RegFileOK(r), NEW q, NEW dest, NEW data \in Value, NEW write \in BOOLEAN,
         Written(r, q, dest, data, write), NEW p, NEW z, Popped(p, z), NEW e, Ordered(p, e, r),
         NEW k, NEW v, Course(p, e, r, k, v), Completes(p[1], e, dest, data, write),
         Unwritten(p, r),
         NEW i \in Wb(r) + 1 .. Rd(r) + 1, NEW h, h = i - 1,
         NEW n \in RenameReport, NEW y \in Register, Source(p, e, r, v, i, n, y)
  PROVE  Source(z, e, q, Shorter(p, e, r, q, v), h, n, y)
<1> DEFINE f == InFlight(r)
           s == f[1].regNum
           owed == Owed(p, e, r)
           file == q.regFile
           u == Shorter(p, e, r, q, v)
           t == p[1]
           w == Wb(r)
<1>1. /\ s \in RenameReg /\ f[1].write = Writes(t.inst) /\ t \in Token
      /\ f[1].pending = (t.inst.kind = "load")
      /\ w \in Nat /\ Wb(q) \in Nat /\ Rd(q) \in Nat /\ w = Wb(q) + 1
      /\ Rd(r) = Rd(q) + 1 /\ Wb(q) <= Rd(q) /\ Len(z) \in Nat /\ Rd(q) <= Len(z)
      /\ \A j \in 2 .. Rd(r) : f[1].write => f[j].regNum # s
  BY FirstIs
<1>2. h \in Nat /\ i = h + 1 /\ h - 1 <= Len(z) /\ Rd(r) \in Nat
  BY <1>1
<1>3. /\ \A j \in 1 .. Len(z) : z[j] = p[j + 1]
      /\ file = IF write THEN [r.regFile EXCEPT ![dest] = data] ELSE r.regFile
      /\ r.regFile \in [Register -> Value] /\ dest = t.inst.dest /\ dest \in Register
  BY <1>1, TokenTyped DEF Popped, Written, RegFileOK, RegFileState, Completes
<1>4. \A j \in 1 .. Wb(q) + 1 : /\ u[j] = Paid(v[j + 1], owed, s, file)
                                /\ j + 1 \in 1 .. w + 1 /\ v[j + 1] \in [Register -> Nat]
                                /\ file \in [Register -> Value]
  BY ShorterIs
<1>5. Named(p, e, f, w, i, n, y)
  BY DEF Source
<1>6. Named(z, e, InFlight(q), Wb(q), h, n, y)
  BY <1>5, ShorterNamed
<1>7. n.valid => y # 0
  BY DEF Source
<1> DEFINE val == v[w + 1][y]
<1>8. /\ Wb(q) + 1 = w
      /\ owed /\ val = Owe(s) => u[Wb(q) + 1][y] = file[y]
      /\ ~(owed /\ val = Owe(s)) => u[Wb(q) + 1][y] = val
  <2>1. Wb(q) + 1 \in 1 .. Wb(q) + 1 /\ Wb(q) + 1 = w
    BY <1>1
  <2>2. u[w] = Paid(v[w + 1], owed, s, file)
    BY <1>4, <2>1
  <2> HIDE DEF u, owed, s, file
  <2> QED BY <2>1, <2>2 DEF Paid
<1>9. n.regNum \in RenameReg
  BY DEF RenameReport
<1>10. owed => ~RolledIn(r)[s].valid
  <2>1. 1 \in 1 .. w
    BY DEF Written
  <2> QED BY <2>1 DEF Ordered, Owing, Owed
(* the first instruction is the one that n names *)
<1>11. ASSUME owed, n.valid, n.regNum = s
       PROVE  MayWrite(t, e, y) /\ None(p, e, y, 2, i)
  <2>0. 1 \in 1 .. i - 1 /\ f[1].write
    BY <1>1, <1>11 DEF Owed
  <2>1. PICK j \in 1 .. i - 1 : /\ MayWrite(p[j], e, y) /\ None(p, e, y, j + 1, i)
                                /\ n = Names(f[j])
    BY <1>5, <1>11, <2>0 DEF Named
  <2>2. f[j].regNum = s
    BY <1>11, <2>1 DEF Names
  <2>3. j = 1
    <3>1. j \in 1 .. Rd(r)
      BY <1>1, <1>2, SMTT(30)
    <3> QED BY <1>1, <2>0, <2>2, <3>1
  <2>4. None(p, e, y, 1 + 1, i)
    BY <2>1, <2>3
  <2> QED BY <2>1, <2>3, <2>4
<1> HIDE DEF u, owed, f, s, t, w, val, file
<1>12. Paying(r, write) => owed /\ write
  BY <1>1 DEF Paying, Completes, owed, Owed, f, t
<1>13. ASSUME Paying(r, write), n.regNum = s
       PROVE  RolledIn(q)[n.regNum].valid /\ RolledIn(q)[n.regNum].register = data
  BY <1>9, <1>13, WrittenRolledIn DEF s, f
<1>14. ASSUME ~(Paying(r, write) /\ n.regNum = s)
       PROVE  RolledIn(q)[n.regNum] = RolledIn(r)[n.regNum]
  BY <1>9, <1>14, WrittenRolledIn DEF s, f
<1>15. ASSUME None(z, e, y, Wb(q) + 1, h)
       PROVE  Valued(z, e, q, u, h, n, y)
  <2>1. None(p, e, y, w + 1, i)
    <3> DEFINE a == Wb(q) + 1
               c == w + 1
    <3>1. a \in Nat \ {0} /\ c = a + 1
      BY <1>1
    <3>2. None(z, e, y, a, h)
      BY <1>15
    <3> HIDE DEF a, c
    <3>3. None(p, e, y, c, i)
      BY <1>2, <3>1, <3>2, NoneShifts
    <3> QED BY <3>3 DEF c
  <2>2. Valued(p, e, r, v, i, n, y)
    BY <2>1 DEF Source, w
  <2>3. CASE n.valid /\ n.pending /\ val = Owe(n.regNum)
    <3>1. CASE owed /\ val = Owe(s)
      <4>1. n.regNum = s
        BY <1>1, <1>9, <2>3, <3>1, OweOne
      <4>2. MayWrite(t, e, y) /\ None(p, e, y, 2, i)
        BY <1>11, <2>3, <3>1, <4>1
      <4>3. u[Wb(q) + 1][y] = file[y] /\ y = dest
        BY <1>3, <1>8, <3>1, <4>2 DEF MayWrite
      <4>4. CASE write
        <5>1. Paying(r, write)
          BY <3>1, <4>4 DEF Paying, owed, Owed
        <5>2. file[y] = data
          BY <1>3, <4>3, <4>4
        <5>3. Known(q, n) /\ u[Wb(q) + 1][y] = RolledIn(q)[n.regNum].register
          BY <1>13, <2>3, <4>1, <4>3, <5>1, <5>2 DEF Known
        <5> QED BY <5>3 DEF Valued
      <4>5. CASE ~write
        <5>1. t.fromDebug /\ file = r.regFile
          BY <1>1, <1>3, <3>1, <4>5 DEF Completes, owed, Owed, t, f
        <5>2. ~Known(q, n)
          <6>1. RolledIn(q)[n.regNum] = RolledIn(r)[n.regNum]
            BY <1>14, <4>5 DEF Paying
          <6> QED BY <1>10, <3>1, <4>1, <6>1 DEF Known
        <5>3. Steady(q, u, y)
          <6> SUFFICES ASSUME NEW j \in 1 .. Wb(q) + 1 PROVE u[j][y] = file[y]
            BY DEF Steady, file
          <6>1. None(p, e, y, 2, w + 1) /\ 2 \in 1 .. w + 1
            BY <1>1, <1>2, <4>2 DEF None, w
          <6>2. \A l \in 2 .. w + 1 : v[l][y] = v[2][y]
            BY <6>1, Unchanging DEF w
          <6>3. j + 1 \in 2 .. w + 1 /\ w + 1 \in 2 .. w + 1
            BY <1>1
          <6>4. v[j + 1][y] = Owe(s)
            BY <3>1, <6>2, <6>3 DEF val
          <6>5. u[j] = Paid(v[j + 1], owed, s, file)
            BY <1>4
          <6> QED BY <3>1, <6>4, <6>5 DEF Paid
        <5>4. UpToDate(z, e, q, h, y)
          <6> SUFFICES ASSUME NEW m \in 1 .. Len(q.readReport), NEW o \in Operands
                       PROVE  Current(z, q, m, o)
            BY DEF UpToDate
          <6>1. q.readReport = r.readReport /\ q.regFile = r.regFile
            BY <5>1 DEF Written, file
          <6>2. Current(p, r, m, o)
            BY <5>1, <6>1 DEF Unwritten, t
          <6>3. z[Wb(q) + m] = p[Wb(r) + m]
            BY PlaceShifts
          <6> QED BY <6>1, <6>2, <6>3 DEF Current, ReadValue
        <5> QED BY <5>2, <5>3, <5>4 DEF Valued
      <4> QED BY <4>4, <4>5
    <3>2. CASE ~(owed /\ val = Owe(s))
      BY <1>8, <2>3, <3>2 DEF Valued
    <3> QED BY <3>1, <3>2
  <2>4. CASE Known(r, n) /\ val = RolledIn(r)[n.regNum].register
    <3>1. ~(Paying(r, write) /\ n.regNum = s)
      BY <1>10, <1>12, <2>4 DEF Known
    <3>2. RolledIn(q)[n.regNum] = RolledIn(r)[n.regNum]
      BY <1>14, <3>1
    <3>3. val \in Value
      BY <1>9, <2>4, RolledInTyped DEF SpecReg
    <3>4. val # Owe(s)
      BY <1>1, <3>3, OweOne
    <3>5. u[Wb(q) + 1][y] = val
      BY <1>8, <3>4
    <3> QED BY <2>4, <3>2, <3>5 DEF Valued, Known
  <2>5. CASE ~Known(r, n) /\ Steady(r, v, y) /\ UpToDate(p, e, r, i, y)
    <3>1. \A j \in 1 .. w + 1 : v[j][y] = r.regFile[y]
      BY <2>5 DEF Steady, w
    <3>2. file[y] = r.regFile[y]
      <4>1. u[1] = file /\ u[1] = Paid(v[1 + 1], owed, s, file) /\ 1 + 1 \in 1 .. w + 1
        <5>1. u[1] = file
          BY ShorterFirst DEF u, file
        <5>2. 1 \in 1 .. Wb(q) + 1
          BY <1>1
        <5> QED BY <1>4, <5>1, <5>2
      <4>2. v[1 + 1][y] = r.regFile[y]
        BY <3>1, <4>1
      <4>3. v[1 + 1][y] # Owe(s)
        <5>1. r.regFile[y] \in Value
          BY <1>3
        <5> QED BY <1>1, <4>2, <5>1, OweOne
      <4>4. Paid(v[1 + 1], owed, s, file)[y] = v[1 + 1][y]
        BY <4>3 DEF Paid
      <4> QED BY <4>1, <4>2, <4>4
    <3>3. Steady(q, u, y)
      <4> SUFFICES ASSUME NEW j \in 1 .. Wb(q) + 1 PROVE u[j][y] = file[y]
        BY DEF Steady, file
      <4>1. u[j] = Paid(v[j + 1], owed, s, file) /\ j + 1 \in 1 .. w + 1
        BY <1>4
      <4>2. v[j + 1][y] = file[y]
        BY <3>1, <3>2, <4>1
      <4> QED BY <4>1, <4>2 DEF Paid
    <3>4. UpToDate(z, e, q, h, y)
      <4> SUFFICES ASSUME NEW m \in 1 .. Len(q.readReport), NEW o \in Operands,
                          Wb(q) + m >= h, z[Wb(q) + m].epoch = e, z[Wb(q) + m].inst[o] = y
                   PROVE  Current(z, q, m, o)
        BY DEF UpToDate
      <4>1. q.readReport = r.readReport
        BY DEF Written
      <4>2. z[Wb(q) + m] = p[Wb(r) + m] /\ Wb(r) + m >= i
        <5>1. /\ m \in Nat /\ (Wb(q) + m) + 1 = Wb(r) + m /\ z[Wb(q) + m] = p[Wb(r) + m]
          BY PlaceShifts
        <5>2. Wb(q) \in Nat /\ i \in Int /\ h = i - 1
          BY <1>1, <1>2
        <5>3. (Wb(q) + m) + 1 >= i
          BY <5>1, <5>2
        <5> QED BY <5>1, <5>3
      <4>3. Current(p, r, m, o)
        BY <2>5, <4>1, <4>2 DEF UpToDate
      <4>4. q.regFile[y] = r.regFile[y]
        BY <3>2 DEF file
      <4> QED BY <4>1, <4>2, <4>3, <4>4 DEF Current, ReadValue
    <3>5. ~Known(q, n)
      <4>1. ASSUME Paying(r, write), n.valid, n.regNum = s PROVE FALSE
        <5>1. MayWrite(t, e, y) /\ owed
          BY <1>11, <1>12, <4>1
        <5>2. DoesWrite(t.inst, t.b) /\ t.inst.kind = "load"
          BY <1>1, <5>1 DEF owed, Owed, f, DoesWrite, IsConditional
        <5>3. 1 \in 1 .. w /\ 1 \in 1 .. w + 1 /\ 1 + 1 \in 1 .. w + 1
          BY <1>1
        <5>4. v[1] \in [Register -> Nat] /\ v[1 + 1] = After(t, e, s, v[1])
          BY <5>3 DEF Course, s, f, t, w
        <5>5. v[1 + 1][y] = Left(t, s)
          BY <5>1, <5>2, <5>4, AfterWrites
        <5>6. v[1 + 1][y] = Owe(s)
          BY <5>2, <5>5 DEF Left
        <5>7. v[1 + 1][y] = r.regFile[y] /\ r.regFile[y] \in Value
          BY <1>3, <3>1, <5>3
        <5> QED BY <1>1, <5>6, <5>7, OweOne
      <4>2. CASE n.valid
        <5>1. RolledIn(q)[n.regNum] = RolledIn(r)[n.regNum]
          BY <1>14, <4>1, <4>2
        <5> QED BY <2>5, <4>2, <5>1 DEF Known
      <4>3. CASE ~n.valid
        BY <4>3 DEF Known
      <4> QED BY <4>2, <4>3
    <3> QED BY <3>3, <3>4, <3>5 DEF Valued
  <2> QED BY <2>2, <2>3, <2>4, <2>5 DEF Valued, val, w
<1> QED BY <1>6, <1>7, <1>15 DEF Source, u

LEMMA Between ==
  ASSUME NEW w \in Nat, NEW c \in Nat, NEW d, d = w + c, NEW m \in 1 .. c
  PROVE  w + m \in w + 1 .. d + 1 /\ w + m \in w + 1 .. d /\ w + m \in 1 .. d
OBVIOUS

(* The first instruction reaches writeback, and the others are to find     *)
(* what they would have found after it.                                    *)
LEMMA WriteBackValues ==
  ASSUME NEW r, RegFileInv(r), CanWriteReg(r), NEW dest \in Register, NEW data \in Value,
         NEW write \in BOOLEAN, NEW p, NEW z, Popped(p, z), NEW e \in Epoch,
         Ordered(p, e, r), Unwritten(p, r), NEW k \in 1 .. Wb(r) + 1, k <= Len(p), NEW h, h = k - 1,
         NEW v, Values(p, e, r, k, v), Completes(p[1], e, dest, data, write)
  PROVE  LET q == writeReg(r, dest, data, write) IN
         /\ Ordered(z, e, q) /\ Values(z, e, q, h, Shorter(p, e, r, q, v))
         /\ Wb(r) = Wb(q) + 1 /\ Rd(r) = Rd(q) + 1
         /\ q.readReq = r.readReq /\ q.readReport = r.readReport
         /\ q.regFile = IF write THEN [r.regFile EXCEPT ![dest] = data] ELSE r.regFile
<1> DEFINE q == writeReg(r, dest, data, write)
           u == Shorter(p, e, r, q, v)
<1>1. Written(r, q, dest, data, write) /\ RegFileOK(r)
  BY WrittenIs DEF RegFileInv
<1>2. Course(p, e, r, k, v) /\ Sources(p, e, r, v)
  BY DEF Values
<1> HIDE DEF q
<1>3. /\ p[1] \in Token /\ InFlight(r)[1].write = Writes(p[1].inst)
      /\ InFlight(r)[1].pending = (p[1].inst.kind = "load")
      /\ Wb(r) \in Nat /\ Wb(q) \in Nat /\ Rd(q) \in Nat /\ Wb(r) = Wb(q) + 1
      /\ Rd(r) = Rd(q) + 1 /\ Wb(q) <= Rd(q) /\ RegFileOK(q)
  BY <1>1, FirstIs
<1>4. Ordered(z, e, q)
  <2>1. Paying(r, write) => InFlight(r)[1].write
    BY <1>3 DEF Paying, Completes
  <2> QED BY <1>1, <2>1, WrittenOrdered
<1>5. Course(z, e, q, h, u)
  BY <1>1, <1>2, ShorterCourse
<1> HIDE DEF u
<1>6. ASSUME NEW i \in Wb(r) + 1 .. Rd(r) + 1, NEW g, g = i - 1,
             NEW n \in RenameReport, NEW y \in Register, Source(p, e, r, v, i, n, y)
      PROVE  Source(z, e, q, u, g, n, y)
  BY <1>1, <1>2, <1>6, ShorterSource DEF u
<1>7. ASSUME NEW m \in 1 .. Len(q.readReport), z[Wb(q) + m].epoch = e
      PROVE  LET t == z[Wb(q) + m] IN
             /\ \A o \in Operands : Source(z, e, q, u, Wb(q) + m, q.readReport[m].srcs[o], t.inst[o])
             /\ Writes(t.inst) => Source(z, e, q, u, Wb(q) + m, q.readReport[m].old, t.inst.dest)
  <2>1. /\ q.readReport = r.readReport /\ m \in Nat /\ m >= 1
        /\ Wb(q) + m \in 1 .. Len(z) /\ (Wb(q) + m) + 1 = Wb(r) + m
        /\ z[Wb(q) + m] = p[Wb(r) + m]
    BY <1>1, PlaceShifts
  <2> DEFINE t == p[Wb(r) + m]
             d == r.readReport[m]
             i == Wb(r) + m
             g == Wb(q) + m
  <2>2. t \in Token
    BY <2>1 DEF Popped
  <2>3. d.old \in RenameReport /\ \A o \in Operands : d.srcs[o] \in RenameReport
    BY <1>1, <2>1, ReportAt
  <2>4. t.inst.dest \in Register /\ \A o \in Operands : t.inst[o] \in Register
    BY <2>2, TokenTyped, OperandTyped
  <2>5. i \in Wb(r) + 1 .. Rd(r) + 1 /\ g = i - 1
    <3>1. Len(r.readReport) \in Nat /\ Rd(r) = Wb(r) + Len(r.readReport)
      BY <1>1, FlightIs DEF Rd
    <3>2. m \in 1 .. Len(r.readReport)
      BY <2>1
    <3>3. Wb(r) + m \in Wb(r) + 1 .. Rd(r) + 1
      BY <1>3, <3>1, <3>2, Between
    <3>4. Wb(q) + m = (Wb(r) + m) - 1
      BY <1>3, <2>1
    <3> QED BY <3>3, <3>4
  <2>6. /\ \A o \in Operands : Source(p, e, r, v, i, d.srcs[o], t.inst[o])
        /\ Writes(t.inst) => Source(p, e, r, v, i, d.old, t.inst.dest)
    <3>1. t.epoch = e /\ m \in 1 .. Len(r.readReport)
      BY <1>7, <2>1
    <3> QED BY <1>2, <3>1 DEF Sources
  <2> HIDE DEF t, d, i, g
  <2>7. /\ \A o \in Operands : Source(z, e, q, u, g, d.srcs[o], t.inst[o])
        /\ Writes(t.inst) => Source(z, e, q, u, g, d.old, t.inst.dest)
    BY <1>6, <2>3, <2>4, <2>5, <2>6
  <2> QED BY <2>1, <2>7 DEF t, d, g
<1>8. ASSUME NEW y \in Register
      PROVE  Source(z, e, q, u, Rd(q) + 1, Renamed(q, e, y), y)
  <2>1. Renamed(q, e, y) = Renamed(r, e, y)
    BY <1>1 DEF Written, Renamed, Holders
  <2>2. Source(p, e, r, v, Rd(r) + 1, Renamed(r, e, y), y)
    BY <1>2 DEF Sources
  <2>3. Rd(r) + 1 \in Wb(r) + 1 .. Rd(r) + 1 /\ Rd(q) + 1 = (Rd(r) + 1) - 1
    BY <1>3, SMTT(30)
  <2>4. Renamed(r, e, y) \in RenameReport
    BY <1>1, RenamedTyped
  <2>5. Source(z, e, q, u, Rd(q) + 1, Renamed(r, e, y), y)
    BY <1>6, <2>2, <2>3, <2>4
  <2> QED BY <2>1, <2>5
<1>9. Sources(z, e, q, u)
  BY <1>7, <1>8 DEF Sources
<1>10. /\ q.readReq = r.readReq /\ q.readReport = r.readReport
       /\ q.regFile = IF write THEN [r.regFile EXCEPT ![dest] = data] ELSE r.regFile
  BY <1>1 DEF Written
<1> QED BY <1>3, <1>4, <1>5, <1>9, <1>10 DEF Values, q, u

-----------------------------------------------------------------------------
(* When an epoch begins, the registers that its instructions are to find   *)
(* are the register file.                                                  *)
Still(r) == [j \in 1 .. Wb(r) + 1 |-> r.regFile]

LEMMA Restart ==
  ASSUME NEW r, RegFileOK(r), NEW p, NEW e, NEW k \in Nat, k <= Rd(r),
         \A i \in 1 .. Rd(r) : p[i].epoch # e,
         \A s \in RenameReg : r.rnTags[s].valid => r.rnTags[s].epoch # e
  PROVE  Values(p, e, r, k, Still(r)) /\ TagsLive(p, e, r)
<1> DEFINE v == Still(r)
           w == Wb(r)
<1>1. /\ w \in Nat /\ Rd(r) \in Nat /\ w <= Rd(r) /\ Len(r.readReport) \in Nat
      /\ Rd(r) = w + Len(r.readReport)
  BY FlightIs DEF Rd
<1>2. r.regFile \in [Register -> Value]
  BY DEF RegFileOK, RegFileState
<1>3. r.regFile \in [Register -> Nat]
  BY <1>2 DEF Value
<1>4. \A j \in 1 .. w + 1 : v[j] = r.regFile
  BY DEF Still
<1>5. v \in [1 .. w + 1 -> [Register -> Nat]]
  BY <1>3 DEF Still
<1> HIDE DEF v
<1>6. Course(p, e, r, k, v)
  <2>1. 1 \in 1 .. w + 1 /\ w + 1 \in 1 .. w + 1
    BY <1>1
  <2>2. ASSUME NEW i \in 1 .. w PROVE v[i + 1] = After(p[i], e, InFlight(r)[i].regNum, v[i])
    <3>1. i + 1 \in 1 .. w + 1 /\ i \in 1 .. w + 1 /\ i \in 1 .. Rd(r)
      BY <1>1
    <3> QED BY <1>4, <3>1 DEF After
  <2>3. ASSUME NEW i \in 1 .. k PROVE p[i].epoch # e
    <3>1. i \in 1 .. Rd(r)
      BY <1>1
    <3> QED BY <3>1
  <2>4. \A x \in Register : v[w + 1][x] \in Value
    BY <1>2, <1>4, <2>1
  <2> QED BY <1>4, <1>5, <2>1, <2>2, <2>3, <2>4 DEF Course
<1>7. \A m \in 1 .. Len(r.readReport) : p[w + m].epoch # e
  <2> SUFFICES ASSUME NEW m \in 1 .. Len(r.readReport) PROVE p[w + m].epoch # e
    OBVIOUS
  <2>1. w + m \in 1 .. Rd(r)
    BY <1>1
  <2> QED BY <2>1
<1>8. ASSUME NEW x \in Register PROVE Source(p, e, r, v, Rd(r) + 1, Renamed(r, e, x), x)
  <2>1. Renamed(r, e, x) = NotRenamed
    BY DEF Renamed, Holders
  <2>2. \A j \in 1 .. Rd(r) : ~MayWrite(p[j], e, x)
    BY DEF MayWrite
  <2>3. None(p, e, x, 1, Rd(r) + 1)
    BY <1>1, <2>2 DEF None
  <2>4. Named(p, e, InFlight(r), w, Rd(r) + 1, NotRenamed, x)
    BY <2>3 DEF Named, NotRenamed
  <2>5. Steady(r, v, x)
    BY <1>4 DEF Steady
  <2>6. UpToDate(p, e, r, Rd(r) + 1, x)
    BY <1>7 DEF UpToDate
  <2>7. Valued(p, e, r, v, Rd(r) + 1, NotRenamed, x)
    BY <2>5, <2>6 DEF Valued, Known, NotRenamed
  <2> QED BY <2>1, <2>4, <2>7 DEF Source, NotRenamed
<1>9. Sources(p, e, r, v)
  BY <1>7, <1>8 DEF Sources
<1>10. TagsLive(p, e, r)
  BY DEF TagsLive
<1> QED BY <1>6, <1>9, <1>10 DEF Values, v

(* The next rename register is that of no instruction in flight that       *)
(* writes, while there are some left.                                      *)
LEMMA NextFree ==
  ASSUME NEW r, RegFileInv(r), r.limiter < RenameRegs, NEW i \in 1 .. Rd(r), InFlight(r)[i].write
  PROVE  InFlight(r)[i].regNum # r.nextReReg
<1> DEFINE f == InFlight(r)
           c == Cardinality(From(f, i))
           s == f[i].regNum
<1>1. f \in Seq(WriteReport) /\ Len(f) = Rd(r)
  BY FlightIs DEF RegFileInv
<1>2. i \in Writers(f)
  BY <1>1 DEF Writers
<1>3. s \in RenameReg
  BY FlightTyped DEF RegFileInv
<1>4. r.limiter \in 0 .. RenameRegs /\ RenameRegs \in Nat
  BY RegisterFileAssumption DEF RegFileInv, RegFileOK, RegFileState
<1>5. c \in 1 .. Cardinality(Writers(f)) /\ Cardinality(Writers(f)) \in Nat
  BY <1>1, <1>2, WritersFinite
<1>6. r.limiter = Cardinality(Writers(f)) /\ r.nextReReg = Ahead(s, c)
  BY <1>2 DEF RegFileInv, Accounted
<1> HIDE DEF f, c, s
<1>7. c \in Nat /\ c > 0 /\ c < RenameRegs
  BY <1>4, <1>5, <1>6
<1>8. s \in Nat /\ s < RenameRegs
  BY <1>3, <1>4 DEF RenameReg
<1>9. Ahead(s, c) # s
  BY <1>4, <1>7, <1>8 DEF Ahead
<1> QED BY <1>6, <1>9 DEF s, f

(* The tag of a register says how it is renamed.                           *)
LEMMA RenamedIs ==
  ASSUME NEW r, TagsOK(r), NEW e, NEW x
  PROVE  /\ \A s \in RenameReg :
              r.rnTags[s].valid /\ r.rnTags[s].epoch = e /\ r.rnTags[s].regNum = x =>
                Renamed(r, e, x) = [valid |-> TRUE, regNum |-> s, pending |-> r.rnTags[s].pending]
         /\ (\A s \in RenameReg :
               ~(r.rnTags[s].valid /\ r.rnTags[s].epoch = e /\ r.rnTags[s].regNum = x)) =>
                Renamed(r, e, x) = NotRenamed
<1>1. ASSUME NEW s \in RenameReg, r.rnTags[s].valid, r.rnTags[s].epoch = e, r.rnTags[s].regNum = x
      PROVE  Renamed(r, e, x) = [valid |-> TRUE, regNum |-> s, pending |-> r.rnTags[s].pending]
  <2> DEFINE H == Holders(r, e, x)
  <2>1. H = { s }
    BY <1>1 DEF TagsOK, Holders
  <2>2. s <= s
    BY DEF RenameReg
  <2> HIDE DEF H
  <2>3. (CHOOSE b \in H : \A u \in H : u <= b) = s
    BY <2>1, <2>2
  <2>4. H # {}
    BY <2>1
  <2>5. Renamed(r, e, x) = LET b == CHOOSE b \in H : \A u \in H : u <= b
                           IN  [valid |-> TRUE, regNum |-> b, pending |-> r.rnTags[b].pending]
    BY <2>4 DEF Renamed, H
  <2> QED BY <2>3, <2>5
<1>2. ASSUME \A s \in RenameReg :
               ~(r.rnTags[s].valid /\ r.rnTags[s].epoch = e /\ r.rnTags[s].regNum = x)
      PROVE  Renamed(r, e, x) = NotRenamed
  BY <1>2 DEF Renamed, Holders
<1> QED BY <1>1, <1>2

(* What reading the operands of the instruction t changes.                 *)
Newest(r, t) ==
  [write |-> Writes(t.inst), conditional |-> IsConditional(t.inst),
   pending |-> t.inst.kind = "load", regNum |-> r.nextReReg]

OperandsRead(r, q, t) ==
  /\ RegFileOK(q)
  /\ q.regFile = r.regFile /\ RolledIn(q) = RolledIn(r) /\ q.pendVal = r.pendVal
  /\ q.rnRegs = r.rnRegs
  /\ Wb(q) = Wb(r) /\ Rd(q) = Rd(r) + 1 /\ Len(q.readReport) = Len(r.readReport) + 1
  /\ \A i \in 1 .. Rd(r) : InFlight(q)[i] = InFlight(r)[i]
  /\ InFlight(q)[Rd(r) + 1] = Newest(r, t)
  /\ \A m \in 1 .. Len(r.readReport) : q.readReport[m] = r.readReport[m]
  /\ LET c == q.readReport[Len(r.readReport) + 1] IN
     /\ \A o \in Operands : /\ c.srcs[o] = Renamed(r, t.epoch, t.inst[o])
                            /\ c.regFileVals[o] = ReadValue(r, t, t.inst[o])
     /\ Writes(t.inst) => c.old = Renamed(r, t.epoch, t.inst.dest)
  /\ \A s \in RenameReg : q.rnTags[s] = TagAfter(r, Request(t), s)
  /\ Len(q.readReq) = Len(r.readReq) - 1
  /\ \A i \in 1 .. Len(q.readReq) : q.readReq[i] = r.readReq[i + 1]

LEMMA OperandsReadIs ==
  ASSUME NEW r, RegFileInv(r), CanReadRegFiles(r), NEW p \in Seq(Token), NEW e, Ordered(p, e, r)
  PROVE  /\ OperandsRead(r, readRegFiles(r), p[Rd(r) + 1])
         /\ Rd(r) + 1 \in 1 .. Len(p) /\ p[Rd(r) + 1] \in Token
<1> DEFINE q == readRegFiles(r)
           t == p[Rd(r) + 1]
           rq == Head(r.readReq)
           c == [srcs |-> [o \in Operands |-> Renamed(r, rq.epoch, rq.srcs[o])],
                 old |-> IF rq.write THEN Renamed(r, rq.epoch, rq.dest) ELSE NotRenamed,
                 regFileVals |-> [o \in Operands |-> ReadValue(r, rq, rq.srcs[o])],
                 write |-> [write |-> rq.write, conditional |-> rq.conditionalUpdate,
                            pending |-> rq.pendingWrite, regNum |-> r.nextReReg]]
<1>1. RegFileOK(r) /\ RegFileOK(q)
  BY ReadKeeps DEF RegFileInv
<1>2. r.readReq \in Seq(ReadReq) /\ r.readReq # <<>> /\ r.readReport \in Seq(RegReadReport)
  BY <1>1 DEF CanReadRegFiles, RegFileOK, RegFileState
<1>3. Len(r.readReq) \in Nat /\ Len(r.readReq) >= 1 /\ rq = r.readReq[1] /\ 1 \in 1 .. Len(r.readReq)
  BY <1>2
<1>4. Wb(r) \in Nat /\ Rd(r) \in Nat /\ Len(r.readReport) \in Nat
  BY <1>1, FlightIs
<1>5. rq = Request(t)
  BY <1>3 DEF Ordered, Aligned
<1>6. Rd(r) + 1 \in 1 .. Len(p)
  <2>1. Rd(r) + Len(r.readReq) <= Len(p) /\ Len(p) \in Nat
    BY LenProperties DEF Ordered, Aligned
  <2> QED BY <1>3, <1>4, <2>1
<1>7. t \in Token
  BY <1>6
<1>8. /\ q.regFile = r.regFile /\ q.pendVal = r.pendVal /\ q.rnRegs = r.rnRegs
      /\ q.wbReRegWrite = r.wbReRegWrite /\ q.readReport = Append(r.readReport, c)
      /\ q.readReq = Tail(r.readReq)
      /\ q.rnTags = [s \in RenameReg |-> TagAfter(r, rq, s)]
  BY <1>1 DEF RegFileOK, RegFileState, readRegFiles
<1> HIDE DEF q
<1>9. /\ Len(q.readReport) = Len(r.readReport) + 1
      /\ \A m \in 1 .. Len(r.readReport) : q.readReport[m] = r.readReport[m]
      /\ q.readReport[Len(r.readReport) + 1] = c
  <2> HIDE DEF c
  <2>1. q.readReport \in Seq(RegReadReport)
    BY <1>1 DEF RegFileOK, RegFileState
  <2> QED BY <1>2, <1>8, <2>1
<1>10. /\ Len(q.readReq) = Len(r.readReq) - 1
       /\ \A i \in 1 .. Len(q.readReq) : q.readReq[i] = r.readReq[i + 1]
  BY <1>2, <1>3, <1>8
<1>11. Wb(q) = Wb(r) /\ Rd(q) = Rd(r) + 1
  <2> DEFINE l == Len(r.readReport)
  <2>1. Wb(q) = Wb(r)
    BY <1>8 DEF Wb
  <2>2. Rd(r) = Wb(r) + l /\ Rd(q) = Wb(r) + (l + 1)
    BY <1>9, <2>1 DEF Rd
  <2>3. l \in Nat
    BY <1>4
  <2> HIDE DEF l
  <2> QED BY <1>4, <2>1, <2>2, <2>3
<1>12. RolledIn(q) = RolledIn(r)
  BY <1>8 DEF RolledIn
<1>13. /\ c.write = Newest(r, t)
       /\ \A o \in Operands : /\ c.srcs[o] = Renamed(r, t.epoch, t.inst[o])
                              /\ c.regFileVals[o] = ReadValue(r, t, t.inst[o])
       /\ Writes(t.inst) => c.old = Renamed(r, t.epoch, t.inst.dest)
  <2> HIDE DEF rq, t
  <2>1. /\ rq.epoch = t.epoch /\ rq.write = Writes(t.inst) /\ rq.dest = t.inst.dest
        /\ rq.conditionalUpdate = IsConditional(t.inst) /\ rq.pendingWrite = (t.inst.kind = "load")
        /\ rq.fromDebug = t.fromDebug
        /\ \A o \in Operands : rq.srcs[o] = t.inst[o]
    BY <1>5 DEF Request
  <2> QED BY <2>1 DEF Newest, ReadValue
<1> HIDE DEF c, t, rq
<1>14. /\ \A i \in 1 .. Rd(r) : InFlight(q)[i] = InFlight(r)[i]
       /\ InFlight(q)[Rd(r) + 1] = Newest(r, t)
  <2>1. /\ \A i \in 1 .. Wb(r) : InFlight(r)[i] = r.wbReRegWrite[i]
        /\ \A m \in 1 .. Len(r.readReport) : InFlight(r)[Wb(r) + m] = r.readReport[m].write
        /\ \A i \in 1 .. Wb(r) : InFlight(q)[i] = r.wbReRegWrite[i]
        /\ \A m \in 1 .. Len(q.readReport) : InFlight(q)[Wb(r) + m] = q.readReport[m].write
    <3>1. /\ \A i \in 1 .. Wb(r) : InFlight(r)[i] = r.wbReRegWrite[i]
          /\ \A m \in 1 .. Len(r.readReport) : InFlight(r)[Wb(r) + m] = r.readReport[m].write
      BY <1>1, FlightIs
    <3>2. /\ \A i \in 1 .. Wb(q) : InFlight(q)[i] = q.wbReRegWrite[i]
          /\ \A m \in 1 .. Len(q.readReport) : InFlight(q)[Wb(q) + m] = q.readReport[m].write
      BY <1>1, FlightIs
    <3> QED BY <1>8, <1>11, <3>1, <3>2
  <2>2. ASSUME NEW i \in 1 .. Rd(r) PROVE InFlight(q)[i] = InFlight(r)[i]
    <3>1. CASE i \in 1 .. Wb(r)
      BY <2>1, <3>1
    <3>2. CASE i \notin 1 .. Wb(r)
      <4> DEFINE m == i - Wb(r)
                 l == Len(r.readReport)
      <4>1. l \in Nat /\ Rd(r) = Wb(r) + l
        BY <1>4 DEF Rd
      <4> HIDE DEF l
      <4>2. m \in 1 .. l /\ Wb(r) + m = i /\ m \in 1 .. l + 1
        BY <1>4, <3>2, <4>1
      <4> HIDE DEF m
      <4>3. InFlight(r)[Wb(r) + m] = r.readReport[m].write
        BY <2>1, <4>2 DEF l
      <4>4. InFlight(q)[Wb(r) + m] = q.readReport[m].write
        BY <1>9, <2>1, <4>2 DEF l
      <4>5. q.readReport[m] = r.readReport[m]
        BY <1>9, <4>2 DEF l
      <4> QED BY <4>2, <4>3, <4>4, <4>5
    <3> QED BY <3>1, <3>2
  <2>3. InFlight(q)[Rd(r) + 1] = c.write
    <3> DEFINE l == Len(r.readReport)
    <3>1. l \in Nat /\ Rd(r) = Wb(r) + l /\ Len(q.readReport) = l + 1
      BY <1>4, <1>9 DEF Rd
    <3> HIDE DEF l
    <3>2. l + 1 \in 1 .. Len(q.readReport) /\ Wb(r) + (l + 1) = Rd(r) + 1
      BY <1>4, <3>1
    <3>3. InFlight(q)[Wb(r) + (l + 1)] = q.readReport[l + 1].write
      BY <2>1, <3>2
    <3>4. q.readReport[l + 1] = c
      BY <1>9 DEF l
    <3> QED BY <3>2, <3>3, <3>4
  <2> QED BY <1>13, <2>2, <2>3
<1>15. \A s \in RenameReg : q.rnTags[s] = TagAfter(r, Request(t), s)
  BY <1>5, <1>8
<1>16. OperandsRead(r, q, t)
  BY <1>1, <1>8, <1>9, <1>10, <1>11, <1>12, <1>13, <1>14, <1>15 DEF OperandsRead
<1> QED BY <1>6, <1>7, <1>16 DEF q, t

(* The tags after operands have been read.                                 *)
Keeps(r, t, s) ==
  /\ s # r.nextReReg /\ r.rnTags[s].valid /\ r.rnTags[s].epoch = t.epoch
  /\ ~(Writes(t.inst) /\ r.rnTags[s].regNum = t.inst.dest)

LEMMA TagAfterRead ==
  ASSUME NEW r, NEW q, NEW t, OperandsRead(r, q, t), NEW s \in RenameReg
  PROVE  /\ s = r.nextReReg /\ Writes(t.inst) =>
              /\ q.rnTags[s].valid /\ q.rnTags[s].epoch = t.epoch
              /\ q.rnTags[s].regNum = t.inst.dest
              /\ q.rnTags[s].pending = (t.inst.kind = "load")
         /\ s = r.nextReReg /\ ~Writes(t.inst) => ~q.rnTags[s].valid
         /\ Keeps(r, t, s) => q.rnTags[s] = r.rnTags[s]
         /\ s # r.nextReReg /\ ~Keeps(r, t, s) => ~q.rnTags[s].valid
<1>1. q.rnTags[s] = TagAfter(r, Request(t), s)
  BY DEF OperandsRead
<1>2. CASE s = r.nextReReg
  <2>1. q.rnTags[s] = IF Writes(t.inst)
                      THEN [valid |-> TRUE, epoch |-> t.epoch, regNum |-> t.inst.dest,
                            pending |-> t.inst.kind = "load"]
                      ELSE NoTag
    BY <1>1, <1>2 DEF TagAfter, Request
  <2>2. ~Keeps(r, t, s)
    BY <1>2 DEF Keeps
  <2>3. CASE Writes(t.inst)
    <3> DEFINE l == t.inst.kind = "load"
    <3> HIDE DEF l
    <3>1. q.rnTags[s] = [valid |-> TRUE, epoch |-> t.epoch, regNum |-> t.inst.dest, pending |-> l]
      BY <2>1, <2>3 DEF l
    <3>2. /\ q.rnTags[s].valid = TRUE /\ q.rnTags[s].epoch = t.epoch
          /\ q.rnTags[s].regNum = t.inst.dest /\ q.rnTags[s].pending = l
      BY <3>1
    <3> QED BY <1>2, <2>2, <2>3, <3>2 DEF l
  <2>4. CASE ~Writes(t.inst)
    <3>1. q.rnTags[s].valid = FALSE
      BY <2>1, <2>4 DEF NoTag
    <3> QED BY <1>2, <2>2, <2>4, <3>1
  <2> QED BY <2>3, <2>4
<1>3. CASE s # r.nextReReg
  <2>1. q.rnTags[s] = IF Keeps(r, t, s) THEN r.rnTags[s] ELSE NoTag
    BY <1>1, <1>3 DEF TagAfter, Request, Keeps
  <2>2. NoTag.valid = FALSE
    BY DEF NoTag
  <2>3. CASE Keeps(r, t, s)
    BY <1>3, <2>1, <2>3
  <2>4. CASE ~Keeps(r, t, s)
    BY <1>3, <2>1, <2>2, <2>4
  <2> QED BY <2>3, <2>4
<1> QED BY <1>2, <1>3

LEMMA TagsAfterRead ==
  ASSUME NEW r, NEW q, NEW t, OperandsRead(r, q, t), TagsOK(r)
  PROVE  TagsOK(q) /\ TagsOf(q, t.epoch)
<1>1. ASSUME NEW s \in RenameReg, q.rnTags[s].valid
      PROVE  \/ /\ s = r.nextReReg /\ Writes(t.inst) /\ q.rnTags[s].regNum = t.inst.dest
                /\ q.rnTags[s].epoch = t.epoch
             \/ Keeps(r, t, s) /\ q.rnTags[s] = r.rnTags[s]
  BY <1>1, TagAfterRead
<1>2. ASSUME NEW s \in RenameReg, q.rnTags[s].valid PROVE q.rnTags[s].regNum # 0
  BY <1>1, <1>2 DEF TagsOK, Keeps, Writes
<1>3. ASSUME NEW s \in RenameReg, NEW u \in RenameReg, q.rnTags[s].valid, q.rnTags[u].valid,
             q.rnTags[u].regNum = q.rnTags[s].regNum
      PROVE  u = s
  <2>1. CASE Keeps(r, t, s) /\ q.rnTags[s] = r.rnTags[s] /\ Keeps(r, t, u) /\ q.rnTags[u] = r.rnTags[u]
    BY <1>3, <2>1 DEF TagsOK, Keeps
  <2>2. CASE /\ Keeps(r, t, s) /\ q.rnTags[s] = r.rnTags[s]
             /\ Writes(t.inst) /\ q.rnTags[u].regNum = t.inst.dest
    BY <1>3, <2>2 DEF Keeps
  <2>3. CASE /\ Keeps(r, t, u) /\ q.rnTags[u] = r.rnTags[u]
             /\ Writes(t.inst) /\ q.rnTags[s].regNum = t.inst.dest
    BY <1>3, <2>3 DEF Keeps
  <2> QED BY <1>1, <1>3, <2>1, <2>2, <2>3
<1>4. TagsOK(q)
  BY <1>2, <1>3 DEF TagsOK
<1>5. TagsOf(q, t.epoch)
  BY <1>1 DEF TagsOf, Keeps
<1> QED BY <1>4, <1>5

LEMMA ReadOrdered ==
  ASSUME NEW r, RegFileInv(r), r.limiter < RenameRegs, NEW p \in Seq(Token), NEW e, Ordered(p, e, r),
         Latest(p, e), NEW q, NEW t, t = p[Rd(r) + 1], Rd(r) + 1 \in 1 .. Len(p), t \in Token,
         OperandsRead(r, q, t)
  PROVE  Ordered(p, e, q)
<1> DEFINE d == Rd(r)
           f == InFlight(r)
           g == InFlight(q)
<1>1. /\ Wb(r) \in Nat /\ d \in Nat /\ Wb(r) <= d /\ f \in Seq(WriteReport) /\ Len(f) = d
      /\ RegFileOK(r)
  BY FlightIs DEF RegFileInv
<1>2. /\ RegFileOK(q) /\ Wb(q) = Wb(r) /\ Rd(q) = d + 1 /\ RolledIn(q) = RolledIn(r)
      /\ \A i \in 1 .. d : g[i] = f[i]
      /\ g[d + 1] = Newest(r, t)
  BY DEF OperandsRead
<1>3. g \in Seq(WriteReport) /\ Len(g) = d + 1
  BY <1>2, FlightIs
<1> HIDE DEF f, g
<1>4. Aligned(p, q)
  <2>1. Rd(q) + Len(q.readReq) <= Len(p)
    <3>1. /\ d + Len(r.readReq) <= Len(p) /\ Len(q.readReq) = Len(r.readReq) - 1
          /\ Len(r.readReq) \in Nat /\ Len(q.readReq) \in Nat /\ Len(p) \in Nat
      BY <1>1, <1>2, LenProperties DEF Ordered, Aligned, OperandsRead, RegFileOK, RegFileState
    <3> QED BY <1>1, <1>2, <3>1
  <2>2. ASSUME NEW i \in 1 .. Rd(q) PROVE Flags(p[i], g[i])
    <3>1. CASE i \in 1 .. d
      BY <1>2, <3>1 DEF Ordered, Aligned, f
    <3>2. CASE i = d + 1
      BY <1>2, <3>2 DEF Flags, Newest
    <3> QED BY <1>1, <1>2, <3>1, <3>2
  <2>3. ASSUME NEW i \in 1 .. Len(q.readReq) PROVE q.readReq[i] = Request(p[Rd(q) + i])
    <3>1. Len(q.readReq) = Len(r.readReq) - 1 /\ Len(r.readReq) \in Nat
      BY <1>1, LenProperties DEF OperandsRead, RegFileOK, RegFileState
    <3>2. i \in Nat /\ i + 1 \in 1 .. Len(r.readReq) /\ Rd(q) + i = d + (i + 1)
      <4>1. i \in 1 .. Len(r.readReq) - 1
        BY <3>1
      <4> QED BY <1>1, <1>2, <3>1, <4>1, SMTT(30)
    <3>3. q.readReq[i] = r.readReq[i + 1]
      BY DEF OperandsRead
    <3>4. r.readReq[i + 1] = Request(p[d + (i + 1)])
      BY <3>2 DEF Ordered, Aligned
    <3> QED BY <3>2, <3>3, <3>4
  <2> QED BY <2>1, <2>2, <2>3 DEF Aligned, g
<1>5. Separated(g)
  <2> SUFFICES ASSUME NEW i \in 1 .. d + 1, NEW j \in 1 .. d + 1, i < j, g[i].write
               PROVE  g[i].regNum # g[j].regNum
    BY <1>3 DEF Separated
  <2>1. i \in 1 .. d /\ g[i] = f[i]
    BY <1>1, <1>2
  <2>2. CASE j \in 1 .. d
    BY <1>1, <1>2, <2>1, <2>2 DEF Ordered, Separated, f
  <2>3. CASE j = d + 1
    BY <1>2, <2>1, <2>3, NextFree DEF Newest, f
  <2> QED BY <1>1, <2>2, <2>3
<1>6. Owing(q)
  <2>1. ASSUME NEW i \in 1 .. Wb(q), g[i].write, g[i].pending
        PROVE  ~RolledIn(q)[g[i].regNum].valid
    <3>1. i \in 1 .. Wb(r) /\ g[i] = f[i]
      BY <1>1, <1>2
    <3> QED BY <1>2, <2>1, <3>1 DEF Ordered, Owing, f
  <2>2. q.pendVal = r.pendVal
    BY DEF OperandsRead
  <2>3. q.pendVal # <<>> => ~q.rnRegs[q.pendVal[1].regNum].valid
    BY <2>2 DEF Ordered, Owing, OperandsRead
  <2> QED BY <2>1, <2>3 DEF Owing, g
<1>7. TagsOK(q) /\ TagsOf(q, t.epoch)
  <2>1. TagsOK(r)
    BY DEF Ordered
  <2> QED BY <2>1, TagsAfterRead
<1>8. TagsLive(p, e, q)
  <2> SUFFICES ASSUME NEW i \in 1 .. Rd(q), p[i].epoch = e PROVE TagsOf(q, e)
    BY DEF TagsLive
  <2>1. i <= d + 1 /\ i \in 1 .. Len(p)
    BY <1>1, <1>2, LenProperties
  <2>2. t.epoch = e
    BY <2>1 DEF Latest
  <2> QED BY <1>7, <2>2
<1> QED BY <1>4, <1>5, <1>6, <1>7, <1>8 DEF Ordered, g

LEMMA NoneLonger ==
  ASSUME NEW p, NEW e, NEW x, NEW a, NEW b \in Nat, NEW c, c = b + 1
  PROVE  /\ None(p, e, x, a, c) => None(p, e, x, a, b)
         /\ None(p, e, x, a, b) /\ ~MayWrite(p[b], e, x) => None(p, e, x, a, c)
<1>1. ASSUME None(p, e, x, a, c), NEW j \in a .. b - 1 PROVE ~MayWrite(p[j], e, x)
  <2>1. j \in a .. c - 1
    OBVIOUS
  <2> QED BY <1>1, <2>1 DEF None
<1>2. ASSUME None(p, e, x, a, b), ~MayWrite(p[b], e, x), NEW j \in a .. c - 1
      PROVE  ~MayWrite(p[j], e, x)
  <2>1. j = b \/ j \in a .. b - 1
    OBVIOUS
  <2> QED BY <1>2, <2>1 DEF None
<1> QED BY <1>1, <1>2 DEF None

(* The report just made is of what the register file holds.                *)
LEMMA ReadCurrent ==
  ASSUME NEW r, RegFileOK(r), NEW p, NEW q, NEW t, t = p[Rd(r) + 1], OperandsRead(r, q, t),
         NEW m \in 1 .. Len(q.readReport), NEW o \in Operands,
         m \in 1 .. Len(r.readReport) => Current(p, r, m, o)
  PROVE  Current(p, q, m, o)
<1> DEFINE l == Len(r.readReport)
<1>1. l \in Nat /\ Wb(r) \in Nat /\ Rd(r) = Wb(r) + l /\ Len(q.readReport) = l + 1
  BY FlightIs DEF Rd, OperandsRead
<1>2. q.regFile = r.regFile /\ Wb(q) = Wb(r)
  BY DEF OperandsRead
<1>3. CASE m \in 1 .. l
  <2>1. q.readReport[m] = r.readReport[m]
    BY <1>3 DEF OperandsRead
  <2> QED BY <1>2, <1>3, <2>1 DEF Current, ReadValue
<1>4. CASE m = l + 1
  <2>1. q.readReport[m].regFileVals[o] = ReadValue(r, t, t.inst[o])
    BY <1>4 DEF OperandsRead
  <2>2. Wb(q) + m = Rd(r) + 1
    BY <1>1, <1>2, <1>4
  <2> QED BY <1>2, <2>1, <2>2 DEF Current, ReadValue
<1> HIDE DEF l
<1> QED BY <1>1, <1>3, <1>4

(* What has been found for the instructions before does not change.        *)
LEMMA ReadSource ==
  ASSUME NEW r, RegFileOK(r), NEW p, NEW e, NEW q, NEW t, t = p[Rd(r) + 1], OperandsRead(r, q, t),
         NEW v, NEW i \in 1 .. Rd(r) + 1, NEW n, NEW x, Source(p, e, r, v, i, n, x)
  PROVE  Source(p, e, q, v, i, n, x)
<1>1. /\ Wb(r) \in Nat /\ Rd(r) \in Nat /\ Wb(q) = Wb(r) /\ q.regFile = r.regFile
      /\ RolledIn(q) = RolledIn(r)
      /\ \A j \in 1 .. Rd(r) : InFlight(q)[j] = InFlight(r)[j]
  BY FlightIs DEF OperandsRead
<1>2. \A j \in 1 .. i - 1 : InFlight(q)[j] = InFlight(r)[j]
  BY <1>1
<1>3. Named(p, e, InFlight(q), Wb(q), i, n, x)
  BY <1>1, <1>2 DEF Source, Named
<1>4. ASSUME UpToDate(p, e, r, i, x) PROVE UpToDate(p, e, q, i, x)
  <2> SUFFICES ASSUME NEW m \in 1 .. Len(q.readReport), NEW o \in Operands,
                      Wb(q) + m >= i, p[Wb(q) + m].epoch = e, p[Wb(q) + m].inst[o] = x
               PROVE  Current(p, q, m, o)
    BY DEF UpToDate
  <2>1. m \in 1 .. Len(r.readReport) => Current(p, r, m, o)
    BY <1>1, <1>4 DEF UpToDate
  <2> QED BY <2>1, ReadCurrent
<1>5. Steady(r, v, x) => Steady(q, v, x)
  BY <1>1 DEF Steady
<1>6. Valued(p, e, r, v, i, n, x) => Valued(p, e, q, v, i, n, x)
  BY <1>1, <1>4, <1>5 DEF Valued, Known
<1> QED BY <1>1, <1>3, <1>6 DEF Source

(* A register that no instruction in flight is to write is not renamed, or *)
(* no longer, and is in the register file.                                 *)
LEMMA Unrenamed ==
  ASSUME NEW r, RegFileOK(r), NEW p, NEW e, NEW k, NEW v, Course(p, e, r, k, v),
         NEW x \in Register, NEW i, i = Rd(r) + 1, None(p, e, x, 1, i)
  PROVE  Source(p, e, r, v, i, NotRenamed, x)
<1>1. Wb(r) \in Nat /\ Rd(r) \in Nat /\ Wb(r) <= Rd(r) /\ Len(r.readReport) \in Nat
      /\ Rd(r) = Wb(r) + Len(r.readReport)
  BY FlightIs DEF Rd
<1>2. 1 \in 1 .. Wb(r) + 1 /\ None(p, e, x, 1, Wb(r) + 1)
  BY <1>1 DEF None
<1>3. \A j \in 1 .. Wb(r) + 1 : v[j][x] = v[1][x]
  BY <1>2, Unchanging
<1>4. Steady(r, v, x)
  BY <1>3 DEF Steady, Course
<1>5. UpToDate(p, e, r, i, x)
  <2>1. ASSUME NEW m \in 1 .. Len(r.readReport) PROVE ~(Wb(r) + m >= i)
    BY <1>1
  <2> QED BY <2>1 DEF UpToDate
<1>6. Named(p, e, InFlight(r), Wb(r), i, NotRenamed, x)
  BY DEF Named, NotRenamed
<1>7. Valued(p, e, r, v, i, NotRenamed, x)
  BY <1>4, <1>5 DEF Valued, Known, NotRenamed
<1> QED BY <1>6, <1>7 DEF Source, NotRenamed

LEMMA ReadCourse ==
  ASSUME NEW r, RegFileOK(r), NEW p, NEW e, NEW q, NEW t, t = p[Rd(r) + 1], OperandsRead(r, q, t),
         NEW k, NEW v, Course(p, e, r, k, v)
  PROVE  Course(p, e, q, k, v)
<1>1. /\ Wb(r) \in Nat /\ Rd(r) \in Nat /\ Wb(r) <= Rd(r) /\ Wb(q) = Wb(r)
      /\ q.regFile = r.regFile /\ \A j \in 1 .. Rd(r) : InFlight(q)[j] = InFlight(r)[j]
  BY FlightIs DEF OperandsRead
<1>2. \A j \in 1 .. Wb(r) : InFlight(q)[j] = InFlight(r)[j]
  BY <1>1
<1> QED BY <1>1, <1>2 DEF Course

(* The tag of the instruction whose operands have been read.               *)
LEMMA ReadOwn ==
  ASSUME NEW r, RegFileInv(r), NEW p, NEW e, NEW q, NEW t, t = p[Rd(r) + 1], OperandsRead(r, q, t),
         TagsOK(r), NEW v, t \in Token, MayWrite(t, e, t.inst.dest),
         NEW i, i = Rd(r) + 1, NEW h, h = i + 1
  PROVE  Source(p, e, q, v, h, Renamed(q, e, t.inst.dest), t.inst.dest)
<1> DEFINE x == t.inst.dest
           s == r.nextReReg
<1>1. /\ Wb(r) \in Nat /\ Rd(r) \in Nat /\ Wb(r) <= Rd(r) /\ Wb(q) = Wb(r) /\ s \in RenameReg
      /\ InFlight(q)[i] = Newest(r, t)
  BY FlightIs DEF RegFileInv, RegFileOK, RegFileState, OperandsRead
<1>2. t.epoch = e /\ x # 0 /\ Writes(t.inst)
  BY DEF MayWrite, Writes
<1>3. /\ q.rnTags[s].valid /\ q.rnTags[s].epoch = e /\ q.rnTags[s].regNum = x
      /\ q.rnTags[s].pending = (t.inst.kind = "load")
  BY <1>1, <1>2, TagAfterRead
<1>4. TagsOK(q)
  BY TagsAfterRead
<1>5. Renamed(q, e, x) = [valid |-> TRUE, regNum |-> s, pending |-> q.rnTags[s].pending]
  BY <1>1, <1>3, <1>4, RenamedIs
<1>6. Renamed(q, e, x) = Names(InFlight(q)[i])
  <2>1. /\ InFlight(q)[i].regNum = s /\ InFlight(q)[i].pending = (t.inst.kind = "load")
    BY <1>1 DEF Newest
  <2> QED BY <1>3, <1>5, <2>1 DEF Names
<1>7. None(p, e, x, i + 1, h)
  BY <1>1 DEF None
<1>8. i \in 1 .. h - 1
  BY <1>1
<1>9. Named(p, e, InFlight(q), Wb(q), h, Renamed(q, e, x), x)
  BY <1>6, <1>7, <1>8 DEF Named
<1>10. ~None(p, e, x, Wb(q) + 1, h)
  <2>1. i \in Wb(q) + 1 .. h - 1
    BY <1>1
  <2> QED BY <2>1 DEF None
<1> QED BY <1>2, <1>9, <1>10 DEF Source

(* A register that this instruction does not write, and that is renamed.   *)
LEMMA ReadOther ==
  ASSUME NEW r, RegFileInv(r), r.limiter < RenameRegs, NEW p \in Seq(Token), NEW e \in Epoch, NEW q,
         NEW t, t = p[Rd(r) + 1], OperandsRead(r, q, t), Ordered(p, e, r), NEW k, NEW v,
         Course(p, e, r, k, v), t.epoch = e, NEW x \in Register, ~MayWrite(t, e, x),
         NEW i, i = Rd(r) + 1, NEW h, h = i + 1, Source(p, e, r, v, i, Renamed(r, e, x), x)
  PROVE  Source(p, e, q, v, h, Renamed(q, e, x), x)
<1> DEFINE n == Renamed(r, e, x)
<1>1. /\ Wb(r) \in Nat /\ Rd(r) \in Nat /\ Wb(r) <= Rd(r) /\ Wb(q) = Wb(r) /\ RegFileOK(r)
      /\ Rd(q) = Rd(r) + 1 /\ RegFileOK(q)
      /\ InFlight(q)[i] = Newest(r, t) /\ \A j \in 1 .. Rd(r) : InFlight(q)[j] = InFlight(r)[j]
  BY FlightIs DEF RegFileInv, OperandsRead
<1>2. TagsOK(r) /\ TagsOK(q)
  BY TagsAfterRead DEF Ordered
<1>3. n \in RenameReport
  BY <1>1, RenamedTyped
<1>4. Source(p, e, q, v, i, n, x) /\ i \in 1 .. Rd(r) + 1 /\ i \in Nat
  <2>1. i \in 1 .. Rd(r) + 1 /\ i \in Nat
    BY <1>1
  <2> HIDE DEF n
  <2>2. Source(p, e, r, v, i, n, x)
    BY DEF n
  <2> QED BY <1>1, <2>1, <2>2, ReadSource
<1>5. ASSUME n.valid, n.regNum # r.nextReReg PROVE Renamed(q, e, x) = n
  <2>1. PICK s \in RenameReg : r.rnTags[s].valid /\ r.rnTags[s].epoch = e /\ r.rnTags[s].regNum = x
    BY <1>2, <1>5, RenamedIs DEF NotRenamed
  <2>2. n = [valid |-> TRUE, regNum |-> s, pending |-> r.rnTags[s].pending]
    BY <1>2, <2>1, RenamedIs
  <2>3. Keeps(r, t, s)
    BY <1>2, <1>5, <2>1, <2>2 DEF Keeps, MayWrite, TagsOK
  <2>4. q.rnTags[s] = r.rnTags[s]
    BY <2>3, TagAfterRead
  <2> QED BY <1>2, <2>1, <2>2, <2>4, RenamedIs
<1>6. ASSUME NEW s \in RenameReg, q.rnTags[s].valid, q.rnTags[s].epoch = e, q.rnTags[s].regNum = x
      PROVE  n.valid /\ n.regNum # r.nextReReg
  <2>1. Keeps(r, t, s) /\ q.rnTags[s] = r.rnTags[s]
    <3>1. x # 0
      BY <1>2, <1>6 DEF TagsOK
    <3>2. ~(s = r.nextReReg /\ Writes(t.inst))
      <4> SUFFICES ASSUME s = r.nextReReg, Writes(t.inst) PROVE FALSE
        OBVIOUS
      <4>1. q.rnTags[s].regNum = t.inst.dest
        BY TagAfterRead
      <4> QED BY <1>6, <3>1, <4>1 DEF MayWrite
    <3> QED BY <1>6, <3>2, TagAfterRead
  <2>2. n = [valid |-> TRUE, regNum |-> s, pending |-> r.rnTags[s].pending]
    BY <1>2, <1>6, <2>1, RenamedIs
  <2> QED BY <2>1, <2>2 DEF Keeps
<1>7. ASSUME ~(n.valid /\ n.regNum # r.nextReReg) PROVE Renamed(q, e, x) = NotRenamed
  BY <1>2, <1>6, <1>7, RenamedIs
<1>8. CASE n.valid /\ n.regNum # r.nextReReg
  <2> HIDE DEF n
  <2>1. n.valid => x # 0
    BY <1>4 DEF Source
  <2>2. Named(p, e, InFlight(q), Wb(q), h, n, x)
    <3>1. Named(p, e, InFlight(q), Wb(q), i, n, x)
      BY <1>4 DEF Source
    <3>2. CASE \E j \in 1 .. i - 1 : /\ MayWrite(p[j], e, x) /\ None(p, e, x, j + 1, i)
                                     /\ n = Names(InFlight(q)[j])
      <4>1. PICK j \in 1 .. i - 1 : /\ MayWrite(p[j], e, x) /\ None(p, e, x, j + 1, i)
                                    /\ n = Names(InFlight(q)[j])
        BY <3>2
      <4>2. None(p, e, x, j + 1, h)
        <5> DEFINE a == j + 1
        <5>1. None(p, e, x, a, i)
          BY <4>1
        <5> HIDE DEF a
        <5>2. None(p, e, x, a, h)
          BY <1>4, <5>1, NoneLonger
        <5> QED BY <5>2 DEF a
      <4>3. j \in 1 .. h - 1
        BY <1>1, <1>4
      <4> QED BY <4>1, <4>2, <4>3 DEF Named
    <3>3. CASE /\ None(p, e, x, 1, i)
               /\ \A j \in 1 .. i - 1 : (j > Wb(q) \/ InFlight(q)[j].write) => InFlight(q)[j].regNum # n.regNum
      <4>1. None(p, e, x, 1, h)
        BY <1>1, <1>4, <3>3, NoneLonger
      <4>2. InFlight(q)[i].regNum # n.regNum
        BY <1>1, <1>8 DEF Newest
      <4>3. \A j \in 1 .. h - 1 : j \in 1 .. i - 1 \/ j = i
        BY <1>1
      <4> QED BY <3>3, <4>1, <4>2, <4>3 DEF Named
    <3> QED BY <1>8, <3>1, <3>2, <3>3 DEF Named
  <2>3. ASSUME None(p, e, x, Wb(q) + 1, h) PROVE Valued(p, e, q, v, h, n, x)
    <3>1. None(p, e, x, Wb(q) + 1, i)
      BY <1>4, <2>3, NoneLonger
    <3>2. Valued(p, e, q, v, i, n, x)
      BY <1>4, <3>1 DEF Source
    <3>3. UpToDate(p, e, q, i, x) => UpToDate(p, e, q, h, x)
      <4>1. ASSUME NEW m \in 1 .. Len(q.readReport), Wb(q) + m >= h PROVE Wb(q) + m >= i
        BY <1>1, <1>4, <4>1
      <4> QED BY <4>1 DEF UpToDate
    <3> QED BY <3>2, <3>3 DEF Valued
  <2> QED BY <1>5, <1>8, <2>1, <2>2, <2>3 DEF Source
<1>9. CASE ~(n.valid /\ n.regNum # r.nextReReg)
  <2>1. None(p, e, x, 1, i)
    <3>1. Named(p, e, InFlight(r), Wb(r), i, n, x)
      BY DEF Source
    <3>2. ASSUME NEW j \in 1 .. i - 1, MayWrite(p[j], e, x), n = Names(InFlight(r)[j]) PROVE FALSE
      <4>1. j \in 1 .. Rd(r)
        BY <1>1
      <4>2. InFlight(r)[j].write
        BY <1>1, <3>2, <4>1, FlagsAt DEF Ordered
      <4>3. InFlight(r)[j].regNum # r.nextReReg
        BY <4>1, <4>2, NextFree
      <4> QED BY <1>9, <3>2, <4>3 DEF Names
    <3> QED BY <3>1, <3>2 DEF Named
  <2>2. None(p, e, x, 1, h)
    BY <1>1, <1>4, <2>1, NoneLonger
  <2>3. Course(p, e, q, k, v)
    BY <1>1, ReadCourse
  <2>4. h = Rd(q) + 1
    BY <1>1
  <2> QED BY <1>1, <1>7, <1>9, <2>2, <2>3, <2>4, Unrenamed
<1> QED BY <1>8, <1>9

(* The operands of an instruction are read from the register file.         *)
LEMMA ReadValues ==
  ASSUME NEW r, RegFileInv(r), CanReadRegFiles(r), NEW p \in Seq(Token), NEW e \in Epoch,
         Ordered(p, e, r), Latest(p, e), NEW k, NEW v, Values(p, e, r, k, v)
  PROVE  LET q == readRegFiles(r) IN
         /\ Ordered(p, e, q) /\ Values(p, e, q, k, v)
         /\ Unwritten(p, r) => Unwritten(p, q)
         /\ q.regFile = r.regFile /\ Wb(q) = Wb(r) /\ Rd(q) = Rd(r) + 1
         /\ Len(q.readReport) = Len(r.readReport) + 1 /\ Len(q.readReq) = Len(r.readReq) - 1
<1> DEFINE q == readRegFiles(r)
           t == p[Rd(r) + 1]
           i == Rd(r) + 1
           h == i + 1
           l == Len(r.readReport)
<1>1. OperandsRead(r, q, t) /\ t \in Token /\ i \in 1 .. Len(p)
  BY OperandsReadIs
<1>2. r.limiter < RenameRegs
  BY DEF CanReadRegFiles
<1> HIDE DEF q
<1>3. /\ Wb(r) \in Nat /\ Rd(r) \in Nat /\ Wb(r) <= Rd(r) /\ l \in Nat /\ Rd(r) = Wb(r) + l
      /\ Wb(q) = Wb(r) /\ Rd(q) = Rd(r) + 1 /\ Len(q.readReport) = l + 1 /\ RegFileOK(r) /\ RegFileOK(q)
  BY <1>1, FlightIs DEF Rd, RegFileInv, OperandsRead
<1>4. Course(p, e, r, k, v) /\ Sources(p, e, r, v)
  BY DEF Values
<1> HIDE DEF t
<1>5. t = p[Rd(r) + 1]
  BY DEF t
<1>6. Ordered(p, e, q)
  BY <1>1, <1>2, <1>5, ReadOrdered
<1>7. Course(p, e, q, k, v)
  BY <1>1, <1>3, <1>4, <1>5, ReadCourse
<1>8. ASSUME NEW j \in 1 .. Rd(r) + 1, NEW n, NEW x, Source(p, e, r, v, j, n, x)
      PROVE  Source(p, e, q, v, j, n, x)
  BY <1>1, <1>3, <1>5, <1>8, ReadSource
<1>9. ASSUME NEW m \in 1 .. Len(q.readReport), p[Wb(q) + m].epoch = e
      PROVE  LET u == p[Wb(q) + m] IN
             /\ \A o \in Operands : Source(p, e, q, v, Wb(q) + m, q.readReport[m].srcs[o], u.inst[o])
             /\ Writes(u.inst) => Source(p, e, q, v, Wb(q) + m, q.readReport[m].old, u.inst.dest)
  <2> DEFINE u == p[Wb(r) + m]
             a == Wb(r) + m
  <2>1. CASE m \in 1 .. l
    <3>1. q.readReport[m] = r.readReport[m]
      BY <1>1, <2>1 DEF OperandsRead
    <3>2. a \in 1 .. Rd(r) + 1
      BY <1>3, <2>1
    <3>3. /\ \A o \in Operands : Source(p, e, r, v, a, r.readReport[m].srcs[o], u.inst[o])
          /\ Writes(u.inst) => Source(p, e, r, v, a, r.readReport[m].old, u.inst.dest)
      BY <1>3, <1>4, <1>9, <2>1 DEF Sources
    <3> HIDE DEF u, a
    <3>4. /\ \A o \in Operands : Source(p, e, q, v, a, r.readReport[m].srcs[o], u.inst[o])
          /\ Writes(u.inst) => Source(p, e, q, v, a, r.readReport[m].old, u.inst.dest)
      BY <1>8, <3>2, <3>3
    <3> QED BY <1>3, <3>1, <3>4 DEF u, a
  <2>2. CASE m = l + 1
    <3>1. a = i /\ Wb(q) + m = i /\ i \in 1 .. Rd(r) + 1
      <4> DEFINE b == Wb(r)
                 d == Rd(r)
      <4>1. b \in Nat /\ l \in Nat /\ d = b + l /\ Wb(q) = b
        BY <1>3
      <4> HIDE DEF b, d, l
      <4>2. b + m = d + 1 /\ d + 1 \in 1 .. d + 1
        BY <2>2, <4>1
      <4> QED BY <4>1, <4>2 DEF b, d
    <3>2. t.epoch = e /\ u = t
      BY <1>3, <1>9, <3>1 DEF t
    <3> DEFINE c == q.readReport[m]
    <3>3. /\ \A o \in Operands : c.srcs[o] = Renamed(r, e, t.inst[o])
          /\ Writes(t.inst) => c.old = Renamed(r, e, t.inst.dest)
      BY <1>1, <2>2, <3>2 DEF OperandsRead
    <3>4. t.inst.dest \in Register /\ \A o \in Operands : t.inst[o] \in Register
      BY <1>1, TokenTyped, OperandTyped
    <3>5. \A x \in Register : Source(p, e, r, v, i, Renamed(r, e, x), x)
      BY <1>4 DEF Sources
    <3>6. \A x \in Register : Source(p, e, q, v, i, Renamed(r, e, x), x)
      BY <1>8, <3>1, <3>5
    <3> HIDE DEF c, i
    <3>7. /\ \A o \in Operands : Source(p, e, q, v, i, c.srcs[o], t.inst[o])
          /\ Writes(t.inst) => Source(p, e, q, v, i, c.old, t.inst.dest)
      BY <3>3, <3>4, <3>6
    <3> QED BY <3>1, <3>2, <3>7 DEF c, t
  <2> HIDE DEF l
  <2> QED BY <1>3, <2>1, <2>2
<1>10. ASSUME NEW x \in Register PROVE Source(p, e, q, v, Rd(q) + 1, Renamed(q, e, x), x)
  <2>1. Rd(q) + 1 = h /\ h = i + 1 /\ i = Rd(r) + 1
    BY <1>3
  <2>2. TagsOK(r)
    BY DEF Ordered
  <2>3. Source(p, e, r, v, i, Renamed(r, e, x), x)
    BY <1>4 DEF Sources
  <2> HIDE DEF h, i
  <2>4. CASE MayWrite(t, e, x)
    <3>1. x = t.inst.dest
      BY <2>4 DEF MayWrite
    <3> QED BY <1>1, <1>5, <2>1, <2>2, <2>4, <3>1, ReadOwn
  <2>5. CASE t.epoch = e /\ ~MayWrite(t, e, x)
    BY <1>1, <1>2, <1>4, <1>5, <2>1, <2>3, <2>5, ReadOther
  <2>6. CASE t.epoch # e
    <3>1. \A j \in 1 .. h - 1 : ~MayWrite(p[j], e, x)
      <4> SUFFICES ASSUME NEW j \in 1 .. h - 1 PROVE p[j].epoch # e
        BY DEF MayWrite
      <4>1. j \in 1 .. Len(p) /\ i \in 1 .. Len(p) /\ j <= i
        BY <1>1, <1>3, <2>1, LenProperties, SMTT(30)
      <4>2. p[i] = t
        BY <2>1 DEF t
      <4> QED BY <2>6, <4>1, <4>2 DEF Latest
    <3>2. None(p, e, x, 1, h)
      BY <3>1 DEF None
    <3>3. TagsOf(q, t.epoch)
      BY <1>1, <2>2, TagsAfterRead
    <3>4. Renamed(q, e, x) = NotRenamed
      BY <2>6, <3>3 DEF Renamed, Holders, TagsOf
    <3> QED BY <1>3, <1>7, <2>1, <3>2, <3>4, Unrenamed
  <2> QED BY <2>4, <2>5, <2>6 DEF MayWrite
<1>11. Sources(p, e, q, v)
  BY <1>9, <1>10 DEF Sources
<1>12. ASSUME Unwritten(p, r) PROVE Unwritten(p, q)
  <2> SUFFICES ASSUME p[1].fromDebug, NEW m \in 1 .. Len(q.readReport), NEW o \in Operands
               PROVE  Current(p, q, m, o)
    BY DEF Unwritten
  <2>1. m \in 1 .. Len(r.readReport) => Current(p, r, m, o)
    BY <1>12 DEF Unwritten
  <2> QED BY <1>1, <1>3, <1>5, <2>1, ReadCurrent
<1>13. q.regFile = r.regFile /\ Len(q.readReq) = Len(r.readReq) - 1
  BY <1>1 DEF OperandsRead
<1> QED BY <1>3, <1>6, <1>7, <1>11, <1>12, <1>13 DEF Values, q

(* What the values depend on is the same in two states of the register     *)
(* file.                                                                   *)
Alike(r, q) ==
  /\ q.regFile = r.regFile /\ q.rnTags = r.rnTags /\ q.readReport = r.readReport
  /\ q.wbReRegWrite = r.wbReRegWrite /\ RolledIn(q) = RolledIn(r)

LEMMA AlikeSame ==
  ASSUME NEW r, NEW q, Alike(r, q), NEW p, NEW e, NEW k, NEW v
  PROVE  /\ InFlight(q) = InFlight(r) /\ Wb(q) = Wb(r) /\ Rd(q) = Rd(r)
         /\ Values(p, e, r, k, v) => Values(p, e, q, k, v)
         /\ Unwritten(p, r) => Unwritten(p, q)
         /\ Separated(InFlight(r)) => Separated(InFlight(q))
         /\ TagsOK(r) => TagsOK(q)
         /\ TagsLive(p, e, r) => TagsLive(p, e, q)
<1>1. InFlight(q) = InFlight(r) /\ Wb(q) = Wb(r) /\ Rd(q) = Rd(r)
  BY DEF Alike, InFlight, Wb, Rd
<1>2. \A m, o : Current(p, r, m, o) <=> Current(p, q, m, o)
  BY <1>1 DEF Alike, Current, ReadValue
<1>3. \A i, x : UpToDate(p, e, r, i, x) <=> UpToDate(p, e, q, i, x)
  BY <1>1, <1>2 DEF Alike, UpToDate
<1>4. \A x : Steady(r, v, x) <=> Steady(q, v, x)
  BY <1>1 DEF Alike, Steady
<1>5. \A n : Known(r, n) <=> Known(q, n)
  BY DEF Alike, Known
<1>6. \A i, n, x : Valued(p, e, r, v, i, n, x) <=> Valued(p, e, q, v, i, n, x)
  BY <1>1, <1>3, <1>4, <1>5 DEF Alike, Valued
<1>7. \A i, n, x : Source(p, e, r, v, i, n, x) <=> Source(p, e, q, v, i, n, x)
  BY <1>1, <1>6 DEF Source
<1>8. \A x : Renamed(q, e, x) = Renamed(r, e, x)
  BY DEF Alike, Renamed, Holders
<1>9. Sources(p, e, r, v) => Sources(p, e, q, v)
  BY <1>1, <1>7, <1>8 DEF Alike, Sources
<1>10. Course(p, e, r, k, v) => Course(p, e, q, k, v)
  BY <1>1 DEF Alike, Course
<1>11. Unwritten(p, r) => Unwritten(p, q)
  BY <1>2 DEF Alike, Unwritten
<1>12. (TagsOK(r) => TagsOK(q)) /\ (TagsLive(p, e, r) => TagsLive(p, e, q))
  BY <1>1 DEF Alike, TagsOK, TagsLive, TagsOf
<1> QED BY <1>1, <1>9, <1>10, <1>11, <1>12 DEF Values

LEMMA PendingValues ==
  ASSUME NEW r, RegFileInv(r), CanWritePending(r), NEW p, NEW e, Ordered(p, e, r), NEW k, NEW v,
         Values(p, e, r, k, v)
  PROVE  LET q == writePending(r) IN
         /\ Ordered(p, e, q) /\ Values(p, e, q, k, v)
         /\ Unwritten(p, r) => Unwritten(p, q)
         /\ q.regFile = r.regFile /\ Wb(q) = Wb(r) /\ Rd(q) = Rd(r)
         /\ q.readReq = r.readReq /\ q.readReport = r.readReport
<1> DEFINE q == writePending(r)
<1>1. /\ q.regFile = r.regFile /\ q.rnTags = r.rnTags /\ q.readReport = r.readReport
      /\ q.wbReRegWrite = r.wbReRegWrite /\ q.readReq = r.readReq
      /\ q.rnRegs = RolledIn(r) /\ q.pendVal = <<>>
  BY DEF RegFileInv, RegFileOK, RegFileState, writePending
<1> HIDE DEF q
<1>2. RolledIn(q) = RolledIn(r)
  BY <1>1 DEF RolledIn
<1>3. Alike(r, q)
  BY <1>1, <1>2 DEF Alike
<1>4. /\ InFlight(q) = InFlight(r) /\ Wb(q) = Wb(r) /\ Rd(q) = Rd(r)
      /\ Values(p, e, q, k, v) /\ (Unwritten(p, r) => Unwritten(p, q))
      /\ Separated(InFlight(q)) /\ TagsOK(q) /\ TagsLive(p, e, q)
  BY <1>3, AlikeSame DEF Ordered
<1>5. Aligned(p, q)
  BY <1>1, <1>4 DEF Ordered, Aligned
<1>6. Owing(q)
  BY <1>1, <1>2, <1>4 DEF Ordered, Owing
<1> QED BY <1>1, <1>4, <1>5, <1>6 DEF Ordered, q

-----------------------------------------------------------------------------
(* z has the instructions of p, and maybe more: they agree in what does    *)
(* not change on their way, and wholly when they have been executed.       *)
Kin(p, z, k) ==
  /\ p \in Seq(Token) /\ z \in Seq(Token) /\ Len(p) <= Len(z)
  /\ \A i \in 1 .. Len(p) :
       /\ z[i].epoch = p[i].epoch /\ z[i].inst = p[i].inst /\ z[i].fromDebug = p[i].fromDebug
       /\ i <= k => z[i] = p[i]

LEMMA KinValues ==
  ASSUME NEW r, RegFileOK(r), NEW p, NEW z, NEW e, NEW k \in Nat, Kin(p, z, k), Wb(r) <= k,
         k <= Len(p), Ordered(p, e, r)
  PROVE  /\ Ordered(z, e, r)
         /\ \A v : Values(p, e, r, k, v) => Values(z, e, r, k, v)
         /\ Unwritten(p, r) => Unwritten(z, r)
<1> DEFINE w == Wb(r)
           d == Rd(r)
           l == Len(p)
<1>1. /\ w \in Nat /\ d \in Nat /\ w <= d /\ Len(r.readReport) \in Nat /\ d = w + Len(r.readReport)
      /\ Len(r.readReq) \in Nat /\ d + Len(r.readReq) <= l /\ l \in Nat /\ Len(z) \in Nat /\ l <= Len(z)
  BY FlightIs, LenProperties DEF Rd, RegFileOK, RegFileState, Ordered, Aligned, Kin
<1>2. \A i \in 1 .. l : /\ z[i].epoch = p[i].epoch /\ z[i].inst = p[i].inst
                        /\ z[i].fromDebug = p[i].fromDebug
  BY DEF Kin
<1>3. \A i \in 1 .. k : z[i] = p[i]
  <2> SUFFICES ASSUME NEW i \in 1 .. k PROVE z[i] = p[i]
    OBVIOUS
  <2>1. i \in 1 .. Len(p) /\ i <= k
    BY <1>1
  <2> QED BY <2>1 DEF Kin
<1>a. d <= l /\ d + Len(r.readReq) <= Len(z)
      /\ \A i \in 1 .. Len(r.readReq) : d + i \in 1 .. l
  <2> DEFINE c == Len(r.readReq)
             n == Len(z)
  <2>1. d \in Nat /\ c \in Nat /\ l \in Nat /\ n \in Nat /\ d + c <= l /\ l <= n
    BY <1>1
  <2> HIDE DEF c, n, d, l
  <2>2. d <= l /\ d + c <= n /\ \A i \in 1 .. c : d + i \in 1 .. l
    BY <2>1
  <2> QED BY <2>2 DEF c, n
<1> HIDE DEF w, d, l
<1>4. \A i \in 1 .. d : i \in 1 .. l
  BY <1>1, <1>a
<1>5. \A m \in 1 .. Len(r.readReport) : w + m \in 1 .. d /\ w + m \in 1 .. l
  <2> SUFFICES ASSUME NEW m \in 1 .. Len(r.readReport) PROVE w + m \in 1 .. d
    BY <1>4
  <2>1. w \in Nat /\ Len(r.readReport) \in Nat /\ d = w + Len(r.readReport)
    BY <1>1
  <2> QED BY <2>1, Between
<1>6. Ordered(z, e, r)
  <2>1. Aligned(z, r)
    <3>1. \A i \in 1 .. d : Flags(z[i], InFlight(r)[i])
      BY <1>2, <1>4 DEF Ordered, Aligned, Flags, d
    <3>2. ASSUME NEW i \in 1 .. Len(r.readReq) PROVE r.readReq[i] = Request(z[d + i])
      <4>1. d + i \in 1 .. l
        BY <1>a
      <4>2. Request(z[d + i]) = Request(p[d + i])
        BY <1>2, <4>1 DEF Request
      <4> QED BY <4>2 DEF Ordered, Aligned, d
    <3>3. d + Len(r.readReq) <= Len(z)
      BY <1>a
    <3> QED BY <3>1, <3>2, <3>3 DEF Aligned, d
  <2>2. TagsLive(z, e, r)
    BY <1>2, <1>4 DEF Ordered, TagsLive, d
  <2> QED BY <2>1, <2>2 DEF Ordered
<1>7. \A x : \A i \in 1 .. l : MayWrite(z[i], e, x) <=> MayWrite(p[i], e, x)
  BY <1>2 DEF MayWrite
<1>8. \A x, a, b : a \in Nat \ {0} /\ b \in Nat /\ b <= d + 1 =>
        (None(z, e, x, a, b) <=> None(p, e, x, a, b))
  <2> SUFFICES ASSUME NEW x, NEW a \in Nat \ {0}, NEW b \in Nat, b <= d + 1
               PROVE  None(z, e, x, a, b) <=> None(p, e, x, a, b)
    OBVIOUS
  <2>1. \A j \in a .. b - 1 : j \in 1 .. l
    BY <1>1, <1>a
  <2> QED BY <1>7, <2>1 DEF None
<1>9. ASSUME NEW i \in 1 .. d + 1, NEW n, NEW x, NEW v, Source(p, e, r, v, i, n, x)
      PROVE  Source(z, e, r, v, i, n, x)
  <2>1. Named(z, e, InFlight(r), w, i, n, x)
    <3>1. Named(p, e, InFlight(r), w, i, n, x)
      BY <1>9 DEF Source, w
    <3>2. CASE \E j \in 1 .. i - 1 : /\ MayWrite(p[j], e, x) /\ None(p, e, x, j + 1, i)
                                     /\ n = Names(InFlight(r)[j])
      <4>1. PICK j \in 1 .. i - 1 : /\ MayWrite(p[j], e, x) /\ None(p, e, x, j + 1, i)
                                    /\ n = Names(InFlight(r)[j])
        BY <3>2
      <4>2. j \in 1 .. l /\ j + 1 \in Nat \ {0} /\ i \in Nat /\ i <= d + 1
        BY <1>1, <1>a
      <4>3. MayWrite(z[j], e, x)
        BY <1>7, <4>1, <4>2
      <4>4. None(z, e, x, j + 1, i)
        <5> DEFINE a == j + 1
        <5>1. a \in Nat \ {0} /\ None(p, e, x, a, i)
          BY <4>1, <4>2
        <5> HIDE DEF a
        <5>2. None(z, e, x, a, i)
          BY <1>8, <4>2, <5>1
        <5> QED BY <5>2 DEF a
      <4> QED BY <4>1, <4>3, <4>4 DEF Named
    <3>3. CASE /\ None(p, e, x, 1, i)
               /\ n.valid => \A j \in 1 .. i - 1 : (j > w \/ InFlight(r)[j].write)
                                                      => InFlight(r)[j].regNum # n.regNum
      <4>1. i \in Nat /\ i <= d + 1 /\ 1 \in Nat \ {0}
        BY <1>1
      <4>2. None(z, e, x, 1, i)
        BY <1>8, <3>3, <4>1
      <4> QED BY <3>3, <4>2 DEF Named
    <3> QED BY <3>1, <3>2, <3>3 DEF Named
  <2>2. ASSUME UpToDate(p, e, r, i, x) PROVE UpToDate(z, e, r, i, x)
    BY <1>2, <1>5, <2>2, SMTT(30) DEF UpToDate, Current, ReadValue, w
  <2>3. Valued(p, e, r, v, i, n, x) => Valued(z, e, r, v, i, n, x)
    BY <2>2 DEF Valued
  <2>4. None(z, e, x, w + 1, i) => None(p, e, x, w + 1, i)
    <3> DEFINE a == w + 1
    <3>1. a \in Nat \ {0} /\ i \in Nat /\ i <= d + 1
      BY <1>1
    <3> HIDE DEF a
    <3>2. None(z, e, x, a, i) => None(p, e, x, a, i)
      BY <1>8, <3>1
    <3> QED BY <3>2 DEF a
  <2> QED BY <1>9, <2>1, <2>3, <2>4 DEF Source, w
<1>10. ASSUME NEW v, Values(p, e, r, k, v) PROVE Values(z, e, r, k, v)
  <2>1. Course(p, e, r, k, v) /\ Sources(p, e, r, v)
    BY <1>10 DEF Values
  <2>2. Course(z, e, r, k, v)
    <3>1. \A i \in 1 .. w : i \in 1 .. k /\ z[i] = p[i]
      BY <1>1, <1>3 DEF w
    <3> QED BY <1>3, <2>1, <3>1 DEF Course, w
  <2>3. Sources(z, e, r, v)
    <3>1. ASSUME NEW m \in 1 .. Len(r.readReport), z[w + m].epoch = e
          PROVE  LET t == z[w + m] IN
                 /\ \A o \in Operands : Source(z, e, r, v, w + m, r.readReport[m].srcs[o], t.inst[o])
                 /\ Writes(t.inst) => Source(z, e, r, v, w + m, r.readReport[m].old, t.inst.dest)
      <4> DEFINE i == w + m
      <4>1. i \in 1 .. d + 1
        BY <1>1, <1>5
      <4>2. z[i].inst = p[i].inst /\ p[i].epoch = e
        BY <1>2, <1>5, <3>1
      <4>3. /\ \A o \in Operands : Source(p, e, r, v, i, r.readReport[m].srcs[o], p[i].inst[o])
            /\ Writes(p[i].inst) => Source(p, e, r, v, i, r.readReport[m].old, p[i].inst.dest)
        BY <2>1, <4>2 DEF Sources, w
      <4> HIDE DEF i
      <4>4. /\ \A o \in Operands : Source(z, e, r, v, i, r.readReport[m].srcs[o], p[i].inst[o])
            /\ Writes(p[i].inst) => Source(z, e, r, v, i, r.readReport[m].old, p[i].inst.dest)
        BY <1>9, <4>1, <4>3
      <4> QED BY <4>2, <4>4 DEF i
    <3>2. d + 1 \in 1 .. d + 1
      BY <1>1
    <3>3. \A x \in Register : Source(z, e, r, v, d + 1, Renamed(r, e, x), x)
      <4> DEFINE i == d + 1
      <4>1. \A x \in Register : Source(p, e, r, v, i, Renamed(r, e, x), x)
        BY <2>1 DEF Sources, d
      <4>2. i \in 1 .. d + 1
        BY <3>2
      <4> HIDE DEF i
      <4>3. \A x \in Register : Source(z, e, r, v, i, Renamed(r, e, x), x)
        BY <1>9, <4>1, <4>2
      <4> QED BY <4>3 DEF i
    <3> QED BY <3>1, <3>3 DEF Sources, w, d
  <2> QED BY <2>2, <2>3 DEF Values
<1>11. ASSUME Unwritten(p, r) PROVE Unwritten(z, r)
  <2> SUFFICES ASSUME z[1].fromDebug, NEW m \in 1 .. Len(r.readReport), NEW o \in Operands
               PROVE  Current(z, r, m, o)
    BY DEF Unwritten
  <2>1. 1 \in 1 .. l /\ w + m \in 1 .. l
    BY <1>1, <1>5
  <2>2. Current(p, r, m, o)
    BY <1>2, <1>11, <2>1 DEF Unwritten
  <2> QED BY <1>2, <2>1, <2>2 DEF Current, ReadValue, w
<1> QED BY <1>6, <1>10, <1>11

LEMMA RequestValues ==
  ASSUME NEW r, RegFileInv(r), CanRequest(r), NEW p, NEW e, Ordered(p, e, r), NEW k, NEW v,
         Values(p, e, r, k, v), NEW i, i = Rd(r) + Len(r.readReq) + 1, i <= Len(p), Len(p) \in Nat,
         NEW req \in ReadReq, req = Request(p[i])
  PROVE  LET q == reqRegs(r, req) IN
         /\ Ordered(p, e, q) /\ Values(p, e, q, k, v)
         /\ Unwritten(p, r) => Unwritten(p, q)
         /\ q.regFile = r.regFile /\ Wb(q) = Wb(r) /\ Rd(q) = Rd(r)
         /\ Len(q.readReq) = Len(r.readReq) + 1 /\ q.readReport = r.readReport
<1> DEFINE q == reqRegs(r, req)
           c == Len(r.readReq)
           d == Rd(r)
<1>1. RegFileOK(r) /\ r.readReq \in Seq(ReadReq)
  BY DEF RegFileInv, RegFileOK, RegFileState
<1>2. /\ q.regFile = r.regFile /\ q.rnTags = r.rnTags /\ q.readReport = r.readReport
      /\ q.wbReRegWrite = r.wbReRegWrite /\ q.readReq = Append(r.readReq, req)
      /\ q.rnRegs = r.rnRegs /\ q.pendVal = r.pendVal
  BY <1>1 DEF RegFileOK, RegFileState, reqRegs
<1> HIDE DEF q
<1>3. /\ Len(q.readReq) = c + 1 /\ q.readReq[c + 1] = req
      /\ \A j \in 1 .. c : q.readReq[j] = r.readReq[j]
  BY <1>1, <1>2
<1>4. RolledIn(q) = RolledIn(r)
  BY <1>2 DEF RolledIn
<1>5. Alike(r, q)
  BY <1>2, <1>4 DEF Alike
<1>6. /\ InFlight(q) = InFlight(r) /\ Wb(q) = Wb(r) /\ Rd(q) = d
      /\ Values(p, e, q, k, v) /\ (Unwritten(p, r) => Unwritten(p, q))
      /\ Separated(InFlight(q)) /\ TagsOK(q) /\ TagsLive(p, e, q)
  BY <1>5, AlikeSame DEF Ordered
<1>7. Aligned(p, q)
  <2>1. c \in Nat /\ d \in Nat
    BY <1>1, FlightIs, LenProperties
  <2>2. /\ d + c <= Len(p) /\ \A j \in 1 .. d : Flags(p[j], InFlight(r)[j])
        /\ \A j \in 1 .. c : r.readReq[j] = Request(p[d + j])
    BY DEF Ordered, Aligned
  <2> HIDE DEF c, d
  <2>3. d + Len(q.readReq) <= Len(p)
    BY <1>3, <2>1 DEF c, d
  <2>4. ASSUME NEW j \in 1 .. c + 1 PROVE q.readReq[j] = Request(p[d + j])
    <3>1. CASE j \in 1 .. c
      BY <1>3, <2>2, <3>1
    <3>2. CASE j = c + 1
      <4>1. d + j = i
        BY <2>1, <3>2 DEF c, d
      <4> QED BY <1>3, <3>2, <4>1
    <3> QED BY <2>1, <3>1, <3>2
  <2> QED BY <1>3, <1>6, <2>2, <2>3, <2>4 DEF Aligned
<1>8. Owing(q)
  BY <1>2, <1>4, <1>6 DEF Ordered, Owing
<1> QED BY <1>2, <1>3, <1>6, <1>7, <1>8 DEF Ordered, q

LEMMA TakenValues ==
  ASSUME NEW r, NEW p, NEW e, NEW k \in Nat, NEW v, Values(p, e, r, k, v), NEW h, h = k + 1,
         p[h].epoch = e => Right(p[h], v[h])
  PROVE  Values(p, e, r, h, v)
<1>1. \A i \in 1 .. h : i \in 1 .. k \/ i = h
  OBVIOUS
<1>2. Course(p, e, r, h, v)
  BY <1>1 DEF Values, Course
<1> QED BY <1>2 DEF Values

-----------------------------------------------------------------------------
(* Epochs.                                                                 *)
LEMMA LaterIs ==
  ASSUME Epochs >= 4, NEW x \in Epoch, NEW k \in 0 .. 3
  PROVE  Later(x, k) = IF x + k < Epochs THEN x + k ELSE x + k - Epochs
<1>1. Epochs \in Nat /\ x \in Nat /\ x < Epochs /\ k \in Nat /\ k <= 3
  BY RegisterFileAssumption DEF Epoch
<1>2. CASE x + k < Epochs
  BY <1>1, <1>2 DEF Later
<1>3. CASE ~(x + k < Epochs)
  BY <1>1, <1>3 DEF Later
<1> QED BY <1>2, <1>3

LEMMA LaterFacts ==
  ASSUME Epochs >= 4, NEW e \in Epoch
  PROVE  /\ Later(e, 1) \in Epoch /\ Later(e, 2) \in Epoch
         /\ Later(e, 1) # e /\ Later(e, 2) # e
         /\ Behind(e, e, 2) /\ Behind(e, Later(e, 1), 2) /\ Behind(e, Later(e, 2), 2)
<1>1. Epochs \in Nat /\ e \in Nat /\ e < Epochs
  BY RegisterFileAssumption DEF Epoch
<1>2. 0 \in 0 .. 3 /\ 1 \in 0 .. 3 /\ 2 \in 0 .. 3 /\ 0 \in 0 .. 2 /\ 1 \in 0 .. 2 /\ 2 \in 0 .. 2
  OBVIOUS
<1>3. /\ Later(e, 0) = IF e + 0 < Epochs THEN e + 0 ELSE e + 0 - Epochs
      /\ Later(e, 1) = IF e + 1 < Epochs THEN e + 1 ELSE e + 1 - Epochs
      /\ Later(e, 2) = IF e + 2 < Epochs THEN e + 2 ELSE e + 2 - Epochs
  BY <1>2, LaterIs
<1>4. Later(e, 0) = e
  BY <1>1, <1>3
<1>5. Later(e, 1) \in Epoch /\ Later(e, 2) \in Epoch
  BY LaterTyped
<1>6. Later(e, 1) # e /\ Later(e, 2) # e
  BY <1>1, <1>3
<1>7. Behind(e, e, 2) /\ Behind(e, Later(e, 1), 2) /\ Behind(e, Later(e, 2), 2)
  BY <1>2, <1>4 DEF Behind
<1> QED BY <1>5, <1>6, <1>7

LEMMA BehindNext ==
  ASSUME Epochs >= 4, NEW x, NEW e \in Epoch, Behind(x, e, 2)
  PROVE  x # Later(e, 1)
<1>1. PICK k \in 0 .. 2 : e = Later(x, k)
  BY DEF Behind
<1>2. Epochs \in Nat /\ e \in Nat /\ e < Epochs /\ x \in Epoch /\ x \in Nat /\ x < Epochs
  BY RegisterFileAssumption DEF Epoch, Behind
<1>3. k \in 0 .. 3 /\ 1 \in 0 .. 3 /\ k \in Nat /\ k <= 2
  OBVIOUS
<1>4. Later(x, k) = IF x + k < Epochs THEN x + k ELSE x + k - Epochs
  BY <1>2, <1>3, LaterIs
<1>5. Later(e, 1) = IF e + 1 < Epochs THEN e + 1 ELSE e + 1 - Epochs
  BY <1>3, LaterIs
<1> QED BY <1>1, <1>2, <1>3, <1>4, <1>5

(* z has the instructions of p, with other operands and results.           *)
Skeleton(p, z) ==
  /\ p \in Seq(Token) /\ z \in Seq(Token) /\ Len(z) = Len(p)
  /\ \A i \in 1 .. Len(p) :
       /\ z[i].pc = p[i].pc /\ z[i].epoch = p[i].epoch /\ z[i].fromDebug = p[i].fromDebug
       /\ z[i].inst = p[i].inst /\ z[i].branchDelay = p[i].branchDelay

LEMMA FirstIsOne ==
  ASSUME NEW p \in Seq(Token)
  PROVE  /\ FirstOf(p) \in 1 .. 2 /\ Len(p) \in Nat
         /\ FirstOf(p) = 2 <=> Len(p) >= 1 /\ p[1].fromDebug
         /\ p # <<>> <=> Len(p) >= 1
<1>1. Len(p) \in Nat /\ (p # <<>> <=> Len(p) >= 1)
  OBVIOUS
<1> QED BY <1>1 DEF FirstOf

LEMMA SkeletonControl ==
  ASSUME NEW p, NEW z, Skeleton(p, z), NEW g, g = FirstOf(p), NEW s, NEW c, Control(p, g, s, c)
  PROVE  g = FirstOf(z) /\ Control(z, g, s, c)
<1> DEFINE n == Len(p)
<1>1. /\ g \in 1 .. 2 /\ n \in Nat /\ (g = 2 <=> n >= 1 /\ p[1].fromDebug)
      /\ (p # <<>> <=> n >= 1) /\ (z # <<>> <=> n >= 1) /\ FirstOf(z) \in 1 .. 2
      /\ (FirstOf(z) = 2 <=> n >= 1 /\ z[1].fromDebug)
  BY FirstIsOne DEF Skeleton
<1>2. /\ Len(z) = n
      /\ \A i \in 1 .. n :
           /\ z[i].pc = p[i].pc /\ z[i].epoch = p[i].epoch /\ z[i].fromDebug = p[i].fromDebug
           /\ z[i].inst = p[i].inst /\ z[i].branchDelay = p[i].branchDelay
  BY DEF Skeleton
<1>3. s \in Nat /\ s <= n
  BY DEF Control, Counted
<1> HIDE DEF n
<1>4. \A i \in 1 .. n : Branches(z[i]) <=> Branches(p[i])
  BY <1>2 DEF Branches
<1>5. FirstOf(z) = g
  BY <1>1, <1>2
<1>6. Debugged(z, c)
  BY <1>1, <1>2 DEF Control, Debugged, n
<1>7. Issuing(z, c)
  BY <1>1, <1>2 DEF Control, Issuing, Latest, n
<1>8. Delays(z, g, s, c)
  <2>1. ASSUME NEW i \in g .. s, z[i].epoch = c.epoch
        PROVE  z[i].branchDelay <=> IF i = g THEN c.due.after # NoAddress
                                    ELSE z[i - 1].epoch = c.epoch /\ Branches(z[i - 1])
    <3>1. i \in 1 .. n /\ (i # g => i - 1 \in 1 .. n)
      BY <1>1, <1>3
    <3> QED BY <1>2, <1>4, <2>1, <3>1 DEF Control, Delays
  <2>2. s >= g => s \in 1 .. n
    BY <1>1, <1>3
  <2> QED BY <1>2, <1>4, <2>1, <2>2 DEF Control, Delays
<1>9. Checked(z, s, c)
  <2>1. \A i \in 1 .. s : i \in 1 .. n
    BY <1>1, <1>3
  <2> QED BY <1>4, <2>1 DEF Control, Checked
<1>10. Path(z, g, c)
  <2> SUFFICES ASSUME NEW i \in g .. n, z[i].epoch = c.epoch PROVE OnPath(z, g, c, i)
    BY <1>2 DEF Path
  <2>1. i \in 1 .. n /\ (i # g => i - 1 \in 1 .. n) /\ (i > g + 1 => i - 2 \in 1 .. n)
    BY <1>1
  <2>2. OnPath(p, g, c, i)
    BY <1>2, <2>1 DEF Control, Path, n
  <2> QED BY <1>1, <1>2, <1>4, <2>1, <2>2 DEF OnPath
<1>11. Counted(z, g, s, c)
  BY <1>2 DEF Control, Counted, n
<1>12. Predicted(z, g, s, c)
  <2> SUFFICES ASSUME NEW m \in 1 .. Len(c.predictions)
               PROVE  Foreseen(z, g, s, c, n + m - 2, c.predictions[m])
    BY <1>2 DEF Predicted
  <2> DEFINE i == n + m - 2
  <2>1. Foreseen(p, g, s, c, i, c.predictions[m])
    BY DEF Control, Predicted, n
  <2>2. i \in Int
    BY <1>1
  <2> HIDE DEF i
  <2>3. i >= g => i \in 1 .. n
    BY <1>1, <1>3, <2>1, <2>2 DEF Foreseen
  <2>4. Foreseen(z, g, s, c, i, c.predictions[m])
    BY <1>2, <1>4, <2>1, <2>3 DEF Foreseen
  <2> QED BY <2>4 DEF i
<1>13. Resumes(z, g, c)
  <2>1. n >= g => n \in 1 .. n
    BY <1>1
  <2> QED BY <1>2, <2>1 DEF Control, Resumes, n
<1>14. DelaySlot(z, g, c)
  <2>1. n >= g => g \in 1 .. n
    BY <1>1
  <2> QED BY <1>2, <2>1 DEF Control, DelaySlot, n
<1>15. Ages(z, g, s, c)
  <2>1. n >= g => g \in 1 .. n
    BY <1>1
  <2>2. Fresh(z, g, c) => Fresh(p, g, c)
    BY <1>2, <2>1 DEF Fresh, n
  <2> QED BY <1>2, <2>2 DEF Control, Ages, n
<1> QED BY <1>5, <1>6, <1>7, <1>8, <1>9, <1>10, <1>11, <1>12, <1>13, <1>14, <1>15 DEF Control

(* An instruction t of the program is fetched.                             *)
NextOf(c) ==
  LET q == c.predictions[1] IN
  IF c.issueEpoch = q.epoch /\ q.takeTarget THEN q.specTarget ELSE c.specPc

Fetches(c, x, t) ==
  /\ t \in Token /\ t.pc = NextOf(c) /\ t.epoch = c.issueEpoch /\ ~t.fromDebug
  /\ t.inst = Code[t.pc]
  /\ c.predictions \in Seq(Prediction) /\ c.predictions # <<>>
  /\ x.predictions = Tail(c.predictions) /\ x.issueEpoch = c.epoch
  /\ x.specPc = IF c.issueEpoch = c.epoch THEN Plus(t.pc, 1) ELSE c.pc
  /\ x.pc = c.pc /\ x.epoch = c.epoch /\ x.newEpoch = c.newEpoch /\ x.flushCount = c.flushCount
  /\ x.state = c.state /\ x.predictionCheck = c.predictionCheck /\ x.due = c.due
  /\ x.lastWasBranch = c.lastWasBranch /\ x.lastEpoch = c.lastEpoch

(* It is fetched from the right address.                                   *)
LEMMA FetchPath ==
  ASSUME NEW p \in Seq(Token), NEW g, g = FirstOf(p), NEW s, NEW c, Control(p, g, s, c),
         NEW n, n = Len(p), c.predictions # <<>>, c.predictions \in Seq(Prediction),
         c.issueEpoch = c.epoch
  PROVE  /\ n < g \/ p[n].epoch # c.epoch => NextOf(c) = c.due.at
         /\ n = g /\ p[n].epoch = c.epoch =>
              IF c.due.after # NoAddress THEN c.newEpoch = <<>> => NextOf(c) = c.due.after
              ELSE NextOf(c) = Plus(p[n].pc, 1)
         /\ n > g /\ p[n].epoch = c.epoch =>
              NextOf(c) = IF p[n - 1].epoch = c.epoch /\ Branches(p[n - 1])
                          THEN c.predictionCheck[n - 1].target ELSE Plus(p[n].pc, 1)
<1> DEFINE q == c.predictions[1]
<1>1. /\ g \in 1 .. 2 /\ n \in Nat /\ (g = 2 <=> n >= 1 /\ p[1].fromDebug)
  BY FirstIsOne
<1>2. 1 \in 1 .. Len(c.predictions) /\ Len(p) + 1 - 2 = n - 1
  BY <1>1
<1>3. Foreseen(p, g, s, c, n - 1, q)
  BY <1>2 DEF Control, Predicted
<1> HIDE DEF q
<1>4. NextOf(c) = IF Usable(q, c.epoch) THEN q.specTarget ELSE c.specPc
  BY DEF NextOf, Usable, q
<1>5. s \in Nat /\ s <= n
  BY DEF Control, Counted
<1>6. CASE n < g
  BY <1>1, <1>4, <1>6 DEF Control, Resumes, q
<1>7. CASE n >= g
  <2>1. c.specPc = IF p[n].epoch = c.epoch THEN Plus(p[n].pc, 1) ELSE c.due.at
    BY <1>1, <1>7 DEF Control, Resumes
  <2>2. CASE n = g
    <3>1. (Usable(q, c.epoch) <=> c.due.after # NoAddress)
          /\ (c.due.after # NoAddress /\ c.newEpoch = <<>> => q.specTarget = c.due.after)
      BY <1>1, <1>3, <2>2 DEF Foreseen
    <3>2. c.due.after # NoAddress => p[n].epoch = c.epoch
      BY <1>7, <2>2 DEF Control, DelaySlot
    <3> QED BY <1>1, <1>4, <2>1, <2>2, <3>1, <3>2
  <2>3. CASE n > g
    <3> DEFINE h == n - 1
    <3>1. h >= g /\ h \in 1 .. n
      BY <1>1, <2>3
    <3> HIDE DEF h
    <3>2. (q.takeTarget <=> Branches(p[h])) /\ q.specTarget = c.predictionCheck[h].target
          /\ q.epoch = p[h].epoch
      BY <1>3, <3>1 DEF Foreseen, h
    <3>3. p[n].epoch # c.epoch => p[h].epoch # c.epoch
      <4>1. h <= n /\ n \in 1 .. n
        BY <1>1, <3>1
      <4> QED BY <3>1, <4>1 DEF Control, Issuing, Latest
    <3>4. CASE p[n].epoch = c.epoch
      BY <1>1, <1>4, <2>1, <2>3, <3>2, <3>4 DEF Usable, h
    <3>5. CASE p[n].epoch # c.epoch
      BY <1>1, <1>4, <2>1, <2>3, <3>2, <3>3, <3>5 DEF Usable
    <3> QED BY <3>4, <3>5
  <2> QED BY <1>1, <1>7, <2>2, <2>3
<1> QED BY <1>1, <1>6, <1>7

Grows(p, t, z) == z = Append(p, t)

LEMMA FetchControl ==
  ASSUME Epochs >= 4, NEW p \in Seq(Token), NEW g, g = FirstOf(p), NEW s, NEW c, Control(p, g, s, c),
         c.epoch \in Epoch, NEW t, NEW x, Fetches(c, x, t), NEW z, Grows(p, t, z)
  PROVE  g = FirstOf(z) /\ Control(z, g, s, x)
<1> DEFINE n == Len(p)
<1>1. /\ g \in 1 .. 2 /\ n \in Nat /\ (g = 2 <=> n >= 1 /\ p[1].fromDebug)
      /\ (p # <<>> <=> n >= 1)
  BY FirstIsOne
<1>2. t \in Token /\ t.pc = NextOf(c) /\ t.epoch = c.issueEpoch /\ ~t.fromDebug /\ t.inst = Code[t.pc]
  BY DEF Fetches
<1>3. /\ z \in Seq(Token) /\ Len(z) = n + 1 /\ z[n + 1] = t
      /\ \A i \in 1 .. n : z[i] = p[i]
  BY <1>2 DEF Grows
<1>4. /\ x.pc = c.pc /\ x.epoch = c.epoch /\ x.newEpoch = c.newEpoch /\ x.flushCount = c.flushCount
      /\ x.state = c.state /\ x.predictionCheck = c.predictionCheck /\ x.due = c.due
      /\ x.lastWasBranch = c.lastWasBranch /\ x.lastEpoch = c.lastEpoch /\ x.issueEpoch = c.epoch
      /\ x.specPc = IF c.issueEpoch = c.epoch THEN Plus(t.pc, 1) ELSE c.pc
      /\ c.predictions \in Seq(Prediction) /\ c.predictions # <<>>
      /\ x.predictions = Tail(c.predictions)
  BY DEF Fetches
<1>5. /\ Len(x.predictions) = Len(c.predictions) - 1 /\ Len(c.predictions) \in Nat
      /\ Len(c.predictions) >= 1
      /\ \A m \in 1 .. Len(x.predictions) : x.predictions[m] = c.predictions[m + 1]
  BY <1>4
<1>6. s \in Nat /\ s <= n
  BY DEF Control, Counted
<1>7. c.issueEpoch \in Epoch
  BY DEF Control, Ages, Behind
<1> HIDE DEF n
<1>8. g = FirstOf(z)
  <2>1. z[1] = IF n >= 1 THEN p[1] ELSE t
    BY <1>1, <1>3
  <2>2. z # <<>>
    BY <1>1, <1>3, FirstIsOne
  <2> QED BY <1>1, <1>2, <2>1, <2>2 DEF FirstOf
<1>9. \A i \in 1 .. n + 1 : i \in 1 .. n \/ i = n + 1
  BY <1>1
<1>10. Debugged(z, x)
  <2>1. ASSUME NEW i \in 2 .. n + 1 PROVE ~z[i].fromDebug
    <3>1. i \in 2 .. n \/ i = n + 1
      BY <1>1
    <3>2. i \in 2 .. n => z[i] = p[i]
      BY <1>3
    <3> QED BY <1>2, <1>3, <3>1, <3>2 DEF Control, Debugged, n
  <2>2. ASSUME z[1].fromDebug PROVE p # <<>> /\ z[1] = p[1]
    BY <1>1, <1>2, <1>3, <2>2
  <2>3. \A i \in 1 .. n + 1 : ~z[i].fromDebug => z[i].inst = Code[z[i].pc]
    BY <1>2, <1>3, <1>9 DEF Control, Debugged, n
  <2> QED BY <1>3, <1>4, <2>1, <2>2, <2>3 DEF Control, Debugged
<1>11. Issuing(z, x)
  <2>1. \A i \in 1 .. n : p[i].epoch = c.epoch => c.issueEpoch = c.epoch
    BY DEF Control, Issuing, n
  <2>2. ASSUME NEW i \in 1 .. n + 1, NEW j \in 1 .. n + 1, z[i].epoch = c.epoch, i <= j
        PROVE  z[j].epoch = c.epoch
    <3>1. c.issueEpoch = c.epoch
      BY <1>2, <1>3, <1>9, <2>1, <2>2
    <3>2. CASE j = n + 1
      BY <1>2, <1>3, <3>1, <3>2
    <3>3. CASE j \in 1 .. n
      <4>1. i \in 1 .. n
        BY <1>1, <2>2, <3>3
      <4> QED BY <1>3, <2>2, <3>3, <4>1 DEF Control, Issuing, Latest, n
    <3> QED BY <1>9, <3>2, <3>3
  <2> QED BY <1>3, <1>4, <2>2 DEF Issuing, Latest
<1>12. Delays(z, g, s, x)
  <2>1. ASSUME NEW i \in g .. s
        PROVE  z[i] = p[i] /\ (i # g => z[i - 1] = p[i - 1])
    <3>1. i \in 1 .. n /\ (i # g => i - 1 \in 1 .. n)
      BY <1>1, <1>6
    <3> QED BY <1>3, <3>1
  <2>2. s >= g => z[s] = p[s]
    <3>1. s >= g => s \in 1 .. n
      BY <1>1, <1>6
    <3> QED BY <1>3, <3>1
  <2>3. ASSUME NEW i \in g .. s, z[i].epoch = c.epoch
        PROVE  z[i].branchDelay <=> IF i = g THEN c.due.after # NoAddress
                                    ELSE z[i - 1].epoch = c.epoch /\ Branches(z[i - 1])
    <3>1. p[i].branchDelay <=> IF i = g THEN c.due.after # NoAddress
                               ELSE p[i - 1].epoch = c.epoch /\ Branches(p[i - 1])
      BY <2>1, <2>3 DEF Control, Delays
    <3>2. CASE i = g
      BY <2>1, <3>1, <3>2
    <3>3. CASE i # g
      <4> DEFINE h == i - 1
      <4> HIDE DEF h
      <4>1. z[h] = p[h]
        BY <2>1, <3>3 DEF h
      <4>2. p[i].branchDelay <=> p[h].epoch = c.epoch /\ Branches(p[h])
        BY <3>1, <3>3 DEF h
      <4> QED BY <2>1, <3>3, <4>1, <4>2 DEF h
    <3> QED BY <3>2, <3>3
  <2> QED BY <1>4, <2>2, <2>3 DEF Control, Delays
<1>13. Checked(z, s, x)
  <2>1. \A i \in 1 .. s : z[i] = p[i]
    BY <1>1, <1>3, <1>6
  <2> QED BY <1>4, <2>1 DEF Control, Checked
<1>14. Path(z, g, x)
  <2> SUFFICES ASSUME NEW i \in g .. n + 1, z[i].epoch = c.epoch PROVE OnPath(z, g, x, i)
    BY <1>3, <1>4 DEF Path
  <2>1. CASE i \in g .. n
    <3>1. i \in 1 .. n /\ (i # g => i - 1 \in 1 .. n) /\ (i > g + 1 => i - 2 \in 1 .. n)
      BY <1>1, <2>1
    <3>2. /\ z[i] = p[i] /\ (i # g => z[i - 1] = p[i - 1]) /\ (i > g + 1 => z[i - 2] = p[i - 2])
      BY <1>3, <3>1
    <3>3. OnPath(p, g, c, i)
      BY <2>1, <3>2 DEF Control, Path, n
    <3> DEFINE h == i - 1
               l == i - 2
    <3> HIDE DEF h, l
    <3>4. (i # g => z[h] = p[h]) /\ (i > g + 1 => z[l] = p[l])
      BY <3>2 DEF h, l
    <3>5. (i > g + 1 => i # g) /\ (i = g + 1 => i # g)
      BY <1>1
    <3>6. i = g \/ z[h].epoch # c.epoch => p[i].pc = c.due.at
      BY <3>3, <3>4 DEF OnPath, h
    <3>7. i = g + 1 /\ z[h].epoch = c.epoch =>
            IF c.due.after # NoAddress THEN c.newEpoch = <<>> => p[i].pc = c.due.after
            ELSE p[i].pc = Plus(z[h].pc, 1)
      <4>1. i = g + 1 => z[h] = p[h]
        BY <3>4, <3>5
      <4> QED BY <3>3, <4>1 DEF OnPath, h
    <3>8. i > g + 1 /\ z[h].epoch = c.epoch =>
            p[i].pc = IF z[l].epoch = c.epoch /\ Branches(z[l])
                      THEN c.predictionCheck[l].target ELSE Plus(z[h].pc, 1)
      BY <3>3, <3>4, <3>5 DEF OnPath, h, l
    <3> QED BY <1>4, <3>2, <3>6, <3>7, <3>8 DEF OnPath, h, l
  <2>2. CASE i = n + 1
    <3>1. c.issueEpoch = c.epoch
      BY <1>2, <1>3, <2>2
    <3>2. /\ n < g \/ p[n].epoch # c.epoch => t.pc = c.due.at
          /\ n = g /\ p[n].epoch = c.epoch =>
               IF c.due.after # NoAddress THEN c.newEpoch = <<>> => t.pc = c.due.after
               ELSE t.pc = Plus(p[n].pc, 1)
          /\ n > g /\ p[n].epoch = c.epoch =>
               t.pc = IF p[n - 1].epoch = c.epoch /\ Branches(p[n - 1])
                      THEN c.predictionCheck[n - 1].target ELSE Plus(p[n].pc, 1)
      BY <1>2, <1>4, <3>1, FetchPath DEF n
    <3>3. n >= g => z[n] = p[n]
      BY <1>1, <1>3
    <3>4. n > g => z[n - 1] = p[n - 1]
      <4>1. n > g => n - 1 \in 1 .. n
        BY <1>1
      <4> QED BY <1>3, <4>1
    <3> DEFINE h == i - 1
               l == i - 2
    <3>5. h = n /\ l = n - 1 /\ (i = g + 1 <=> n = g) /\ (i > g + 1 <=> n > g)
          /\ (i = g <=> n < g)
      BY <1>1, <2>2
    <3>6. z[i] = t
      BY <1>3, <2>2
    <3> HIDE DEF h, l
    <3>a. n >= g => z[h] = p[n]
      BY <3>3, <3>5
    <3>b. n >= g \/ n < g
      BY <1>1
    <3>7. (i = g \/ z[h].epoch # c.epoch) => t.pc = c.due.at
      BY <3>2, <3>5, <3>a, <3>b
    <3>8. i = g + 1 /\ z[h].epoch = c.epoch =>
            IF c.due.after # NoAddress THEN c.newEpoch = <<>> => t.pc = c.due.after
            ELSE t.pc = Plus(z[h].pc, 1)
      BY <1>1, <3>2, <3>3, <3>5
    <3>9. i > g + 1 /\ z[h].epoch = c.epoch =>
            t.pc = IF z[l].epoch = c.epoch /\ Branches(z[l])
                   THEN c.predictionCheck[l].target ELSE Plus(z[h].pc, 1)
      <4>1. ASSUME n > g PROVE z[h] = p[n] /\ z[l] = p[n - 1]
        <5>1. n >= g
          BY <1>1, <4>1
        <5> QED BY <3>4, <3>5, <3>a, <4>1, <5>1
      <4> QED BY <3>2, <3>5, <4>1
    <3> QED BY <1>4, <3>6, <3>7, <3>8, <3>9 DEF OnPath, h, l
  <2> QED BY <1>1, <2>1, <2>2
<1>15. Counted(z, g, s, x)
  <2> DEFINE b == (IF s >= g THEN s ELSE g - 1) + (IF c.state = "Init" THEN c.flushCount ELSE 2)
             l == Len(c.predictions)
  <2>1. l + n = b
    BY DEF Control, Counted, n
  <2>2. l \in Nat /\ Len(x.predictions) = l - 1
    BY <1>5
  <2>3. /\ s \in Nat /\ s <= n
        /\ c.state = "Init" => s = 0 /\ c.flushCount <= 1 /\ c.due.after = NoAddress
    BY DEF Control, Counted, n
  <2> HIDE DEF b, l
  <2>4. Len(x.predictions) + Len(z) = b /\ s <= Len(z)
    BY <1>1, <1>3, <2>1, <2>2, <2>3
  <2> QED BY <1>4, <2>3, <2>4 DEF Counted, b
<1>16. ASSUME NEW m \in 1 .. Len(x.predictions)
       PROVE  m + 1 \in 1 .. Len(c.predictions) /\ Len(z) + m - 2 = n + (m + 1) - 2
  BY <1>1, <1>3, <1>5
<1>17. Predicted(z, g, s, x)
  <2> SUFFICES ASSUME NEW m \in 1 .. Len(x.predictions)
               PROVE  Foreseen(z, g, s, x, Len(z) + m - 2, x.predictions[m])
    BY DEF Predicted
  <2> DEFINE i == n + (m + 1) - 2
             q == c.predictions[m + 1]
  <2>1. Foreseen(p, g, s, c, i, q)
    BY <1>16 DEF Control, Predicted, n
  <2>2. x.predictions[m] = q /\ Len(z) + m - 2 = i /\ i \in Int
    <3>1. m \in Nat
      BY <1>5
    <3> QED BY <1>1, <1>5, <1>16, <3>1
  <2> HIDE DEF i, q
  <2>3. i >= g => z[i] = p[i]
    <3>1. i >= g => i \in 1 .. n
      BY <1>1, <1>6, <2>1, <2>2 DEF Foreseen
    <3> QED BY <1>3, <3>1
  <2>4. Foreseen(z, g, s, x, i, q)
    BY <1>4, <2>1, <2>3 DEF Foreseen
  <2> QED BY <2>2, <2>4
<1>18. Resumes(z, g, x)
  <2>1. c.issueEpoch # c.epoch => c.pc = c.due.at
    BY DEF Control, Resumes
  <2> QED BY <1>1, <1>2, <1>3, <1>4, <2>1 DEF Resumes
<1>19. (n + 1 >= g => z[g].epoch = c.epoch) => (n >= g => p[g].epoch = c.epoch)
  BY <1>1, <1>3
<1>20. DelaySlot(z, g, x)
  <2>1. ASSUME c.due.after # NoAddress, n + 1 >= g PROVE z[g].epoch = c.epoch
    <3>1. c.issueEpoch = c.epoch /\ (n >= g => p[g].epoch = c.epoch)
      BY <2>1 DEF Control, DelaySlot, n
    <3>2. CASE n >= g
      BY <1>1, <1>3, <3>1, <3>2
    <3>3. CASE g = n + 1
      BY <1>2, <1>3, <3>1, <3>3
    <3> QED BY <1>1, <2>1, <3>2, <3>3
  <2> QED BY <1>3, <1>4, <2>1 DEF Control, DelaySlot, n
<1>21. Ages(z, g, s, x)
  <2>1. Behind(c.epoch, c.epoch, 2)
    BY LaterFacts
  <2>2. \A i \in 1 .. n + 1 : Behind(z[i].epoch, c.epoch, 2)
    BY <1>2, <1>3, <1>9 DEF Control, Ages, n
  <2>3. Fresh(z, g, x) => Fresh(p, g, c)
    <3> SUFFICES ASSUME Fresh(z, g, x) PROVE Fresh(p, g, c)
      OBVIOUS
    <3>1. z[g].epoch = c.epoch /\ n + 1 >= g
      BY <1>1, <1>3, <1>4 DEF Fresh
    <3>2. CASE n >= g
      <4>1. p[g].epoch = c.epoch /\ g \in 1 .. n
        BY <1>1, <1>3, <3>1, <3>2
      <4> QED BY <4>1 DEF Fresh, Control, Issuing, n
    <3>3. CASE n < g
      <4>1. z[g] = t
        BY <1>1, <1>3, <3>1, <3>3
      <4> QED BY <1>1, <1>2, <3>1, <3>3, <4>1 DEF Fresh, n
    <3> QED BY <1>1, <3>2, <3>3
  <2>4. ASSUME Fresh(p, g, c), NEW m \in 1 .. Len(x.predictions), Len(z) + m - 2 = g - 1
        PROVE  Behind(x.predictions[m].epoch, c.epoch, 2)
    <3>1. m + 1 \in 1 .. Len(c.predictions) /\ n + (m + 1) - 2 = g - 1
      BY <1>16, <2>4
    <3>2. Behind(c.predictions[m + 1].epoch, c.epoch, 2)
      BY <2>4, <3>1 DEF Control, Ages, n
    <3> QED BY <1>5, <3>2
  <2>5. Fresh(p, g, c) /\ s < g => Behind(c.lastEpoch, c.epoch, 2)
    BY DEF Control, Ages
  <2> QED BY <1>3, <1>4, <2>1, <2>2, <2>3, <2>4, <2>5 DEF Ages
<1> QED BY <1>8, <1>10, <1>11, <1>12, <1>13, <1>14, <1>15, <1>17, <1>18, <1>20, <1>21 DEF Control

(* An instruction t of the debug unit's is fetched in a settled core.      *)
LEMMA DebugFetchControl ==
  ASSUME NEW s, NEW c, Control(<< >>, 1, s, c), c.epoch \in Epoch, Epochs >= 4,
         c.issueEpoch = c.epoch, c.newEpoch = <<>>,
         c.flushCount \in Nat, c.predictions \in Seq(Prediction),
         NEW t \in Token, t.fromDebug, t.epoch = c.epoch, ~t.branchDelay,
         t.inst \in DebugInstructions, t.pc = Reset, NEW z, z = << t >>
  PROVE  FirstOf(z) = 2 /\ Control(z, 2, s, c)
<1> DEFINE p == << >>
<1>1. Len(p) = 0 /\ Len(z) = 1 /\ z[1] = t /\ z # <<>>
  OBVIOUS
<1>2. s = 0
  BY <1>1 DEF Control, Counted
<1> HIDE DEF p
<1>3. /\ Issuing(p, c) /\ Delays(p, 1, s, c) /\ Checked(p, s, c)
      /\ Counted(p, 1, s, c) /\ Predicted(p, 1, s, c) /\ Resumes(p, 1, c) /\ DelaySlot(p, 1, c)
      /\ Ages(p, 1, s, c)
  BY DEF Control, p
<1>4. FirstOf(z) = 2
  BY <1>1 DEF FirstOf
<1>5. Debugged(z, c)
  BY <1>1 DEF Debugged
<1>6. Issuing(z, c)
  BY <1>1 DEF Issuing, Latest
<1>7. Delays(z, 2, s, c)
  BY <1>2, <1>3 DEF Delays
<1>8. Checked(z, s, c)
  BY <1>2, <1>3 DEF Checked
<1>9. Path(z, 2, c)
  BY <1>1 DEF Path
<1>10. Counted(z, 2, s, c)
  <2> DEFINE l == Len(c.predictions)
             a == IF c.state = "Init" THEN c.flushCount ELSE 2
  <2>1. l + 0 = 0 + a
    BY <1>1, <1>2, <1>3 DEF Counted
  <2>3. l \in Nat /\ a \in Nat
    OBVIOUS
  <2> HIDE DEF l, a
  <2>2. l + 1 = 1 + a
    BY <2>1, <2>3
  <2> QED BY <1>1, <1>2, <1>3, <2>2 DEF Counted, l, a
<1>11. Predicted(z, 2, s, c)
  <2> SUFFICES ASSUME NEW m \in 1 .. Len(c.predictions)
               PROVE  Foreseen(z, 2, s, c, 1 + m - 2, c.predictions[m])
    BY <1>1 DEF Predicted
  <2>1. Foreseen(p, 1, s, c, 0 + m - 2, c.predictions[m])
    BY <1>1, <1>3 DEF Predicted
  <2> DEFINE i == 0 + m - 2
             j == 1 + m - 2
  <2>2. i \in Int /\ j = i + 1
    OBVIOUS
  <2>3. Foreseen(p, 1, s, c, i, c.predictions[m])
    BY <2>1
  <2> HIDE DEF i, j
  <2>4. ~(i >= 1) /\ ~(j >= 2) /\ (j = 2 - 1 => i = 1 - 1)
    BY <1>2, <2>2, <2>3 DEF Foreseen
  <2>5. Foreseen(z, 2, s, c, j, c.predictions[m])
    BY <2>3, <2>4 DEF Foreseen
  <2> QED BY <2>5 DEF j
<1>12. Resumes(z, 2, c)
  BY <1>1, <1>3 DEF Resumes
<1>13. DelaySlot(z, 2, c)
  BY <1>1, <1>3 DEF DelaySlot
<1>14. Ages(z, 2, s, c)
  <2>1. Fresh(p, 1, c)
    BY <1>1 DEF Fresh
  <2>2. \A m \in 1 .. Len(c.predictions) : Len(z) + m - 2 = 2 - 1 => Len(p) + m - 2 = 1 - 1
    BY <1>1
  <2>3. Behind(c.epoch, c.epoch, 2)
    BY LaterFacts
  <2>4. s < 1
    BY <1>2
  <2> QED BY <1>1, <1>3, <2>1, <2>2, <2>3, <2>4 DEF Ages
<1> QED BY <1>4, <1>5, <1>6, <1>7, <1>8, <1>9, <1>10, <1>11, <1>12, <1>13, <1>14 DEF Control

-----------------------------------------------------------------------------
(* A prediction is put at the start.                                       *)
Primes(c, x) ==
  /\ c.state = "Init" /\ x.state = IF c.flushCount = 1 THEN "Run" ELSE "Init"
  /\ c.flushCount \in Nat /\ x.flushCount = c.flushCount + 1 /\ c.predictions \in Seq(Prediction)
  /\ \E t \in Prediction : /\ ~t.takeTarget /\ t.epoch = c.epoch
                           /\ x.predictions = Append(c.predictions, t)
  /\ x.pc = c.pc /\ x.specPc = c.specPc /\ x.epoch = c.epoch /\ x.issueEpoch = c.issueEpoch
  /\ x.newEpoch = c.newEpoch /\ x.predictionCheck = c.predictionCheck /\ x.due = c.due
  /\ x.lastWasBranch = c.lastWasBranch /\ x.lastEpoch = c.lastEpoch

LEMMA PrimeControl ==
  ASSUME Epochs >= 4, NEW p \in Seq(Token), NEW g, g = FirstOf(p), NEW s, NEW c, Control(p, g, s, c),
         c.epoch \in Epoch, NEW x, Primes(c, x)
  PROVE  Control(p, g, s, x)
<1> DEFINE n == Len(p)
           l == Len(c.predictions)
<1>1. PICK t \in Prediction : /\ ~t.takeTarget /\ t.epoch = c.epoch
                              /\ x.predictions = Append(c.predictions, t)
  BY DEF Primes
<1>2. /\ g \in 1 .. 2 /\ n \in Nat
  BY FirstIsOne
<1>3. /\ x.pc = c.pc /\ x.specPc = c.specPc /\ x.epoch = c.epoch /\ x.issueEpoch = c.issueEpoch
      /\ x.newEpoch = c.newEpoch /\ x.predictionCheck = c.predictionCheck /\ x.due = c.due
      /\ x.lastWasBranch = c.lastWasBranch /\ x.lastEpoch = c.lastEpoch
      /\ c.state = "Init" /\ x.state = IF c.flushCount = 1 THEN "Run" ELSE "Init"
      /\ c.flushCount \in Nat /\ x.flushCount = c.flushCount + 1
  BY DEF Primes
<1>4. /\ l \in Nat /\ Len(x.predictions) = l + 1 /\ x.predictions[l + 1] = t
      /\ \A m \in 1 .. l : x.predictions[m] = c.predictions[m]
      /\ x.predictions # <<>> /\ x.predictions[1] = IF l = 0 THEN t ELSE c.predictions[1]
      /\ (c.predictions # <<>> <=> l >= 1)
  <2>1. c.predictions \in Seq(Prediction)
    BY DEF Primes
  <2> QED BY <1>1, <2>1
<1>5. /\ s = 0 /\ c.flushCount <= 1 /\ c.due.after = NoAddress
      /\ l + n = g - 1 + c.flushCount
  BY <1>2, <1>3 DEF Control, Counted
<1> HIDE DEF n, l
<1>6. Debugged(p, x) /\ Issuing(p, x) /\ Delays(p, g, s, x) /\ Checked(p, s, x)
  BY <1>3, SMTT(30) DEF Control, Debugged, Issuing, Delays, Checked
<1>7. Path(p, g, x)
  BY <1>3 DEF Control, Path, OnPath
<1>8. Counted(p, g, s, x)
  BY <1>2, <1>3, <1>4, <1>5, SMTT(30) DEF Counted, n
<1>9. \A m \in 1 .. l + 1 : m \in 1 .. l \/ m = l + 1
  BY <1>4
<1>10. Predicted(p, g, s, x)
  <2> SUFFICES ASSUME NEW m \in 1 .. l + 1
               PROVE  Foreseen(p, g, s, x, n + m - 2, x.predictions[m])
    BY <1>4 DEF Predicted, n
  <2>1. CASE m \in 1 .. l
    <3>1. Foreseen(p, g, s, c, n + m - 2, c.predictions[m])
      BY <2>1 DEF Control, Predicted, n, l
    <3> QED BY <1>3, <1>4, <2>1, <3>1 DEF Foreseen
  <2>2. CASE m = l + 1
    <3>1. ~(n + m - 2 >= g)
      BY <1>2, <1>3, <1>4, <1>5, <2>2
    <3> QED BY <1>1, <1>3, <1>4, <1>5, <2>2, <3>1 DEF Foreseen, Usable
  <2> QED BY <1>9, <2>1, <2>2
<1>11. Resumes(p, g, x)
  <2>1. l = 0 => ~Usable(x.predictions[1], c.epoch)
    BY <1>1, <1>4 DEF Usable
  <2>2. CASE l = 0
    BY <1>3, <1>4, <2>1, <2>2 DEF Control, Resumes
  <2>3. CASE l # 0
    BY <1>3, <1>4, <2>3 DEF Control, Resumes
  <2> QED BY <2>2, <2>3
<1>12. DelaySlot(p, g, x)
  BY <1>3 DEF Control, DelaySlot
<1>13. Ages(p, g, s, x)
  <2>1. Behind(t.epoch, c.epoch, 2)
    BY <1>1, LaterFacts
  <2>2. ASSUME Fresh(p, g, c), NEW m \in 1 .. Len(x.predictions), n + m - 2 = g - 1
        PROVE  Behind(x.predictions[m].epoch, c.epoch, 2)
    <3>1. m \in 1 .. l + 1
      BY <1>4
    <3>2. CASE m \in 1 .. l
      BY <1>4, <2>2, <3>2 DEF Control, Ages, n, l
    <3>3. CASE m = l + 1
      BY <1>4, <2>1, <3>3
    <3> QED BY <1>9, <3>1, <3>2, <3>3
  <2>3. Fresh(p, g, x) <=> Fresh(p, g, c)
    BY <1>3 DEF Fresh
  <2> QED BY <1>3, <2>2, <2>3 DEF Control, Ages, n
<1> QED BY <1>6, <1>7, <1>8, <1>10, <1>11, <1>12, <1>13 DEF Control

(* The instruction after the first s passes the scheduler, which predicts  *)
(* the target y.                                                           *)
Scheduling(c, t) ==
  [t EXCEPT !.branchDelay = c.lastWasBranch /\ c.lastEpoch = t.epoch /\ ~t.fromDebug]

Schedules(c, x, u, y) ==
  /\ c.state = "Run" /\ x.state = c.state
  /\ c.predictions \in Seq(Prediction) /\ c.predictionCheck \in Seq(PredictionRecord) /\ y \in Address
  /\ x.predictionCheck = Append(c.predictionCheck, [target |-> y, isBranch |-> Branches(u)])
  /\ u.fromDebug => /\ x.predictions = c.predictions
                    /\ x.lastWasBranch = c.lastWasBranch /\ x.lastEpoch = c.lastEpoch
  /\ ~u.fromDebug =>
       /\ x.predictions = Append(c.predictions, [takeTarget |-> Branches(u), specTarget |-> y,
                                                 epoch |-> u.epoch])
       /\ (x.lastWasBranch <=> Branches(u)) /\ x.lastEpoch = u.epoch
  /\ x.pc = c.pc /\ x.specPc = c.specPc /\ x.epoch = c.epoch /\ x.issueEpoch = c.issueEpoch
  /\ x.newEpoch = c.newEpoch /\ x.flushCount = c.flushCount /\ x.due = c.due

LEMMA ScheduleDebugControl ==
  ASSUME NEW p \in Seq(Token), NEW s, NEW c, Control(p, 2, s, c), 2 = FirstOf(p),
         s + 1 <= Len(p), p[s + 1].fromDebug,
         NEW x, NEW y, Schedules(c, x, Scheduling(c, p[s + 1]), y)
  PROVE  /\ s = 0 /\ Scheduling(c, p[s + 1]) = p[s + 1]
         /\ Control(p, 2, s + 1, x)
<1> DEFINE n == Len(p)
<1>1. n \in Nat /\ n >= 1 /\ p[1].fromDebug /\ p # <<>>
  BY FirstIsOne
<1>2. s = 0
  <2>1. s \in Nat /\ s + 1 <= n
    BY DEF Control, Counted
  <2>2. \A i \in 2 .. n : ~p[i].fromDebug
    BY DEF Control, Debugged
  <2>3. ~(s + 1 \in 2 .. n)
    BY <2>2
  <2> QED BY <1>1, <2>1, <2>3
<1>3. s + 1 = 1
  BY <1>2
<1>4. Scheduling(c, p[1]) = p[1]
  <2>1. p[1] \in Token /\ ~p[1].branchDelay
    BY <1>1 DEF Control, Debugged
  <2> QED BY <1>1, <2>1 DEF Scheduling, Token
<1>5. Schedules(c, x, p[1], y)
  BY <1>3, <1>4
<1>6. /\ c.state = "Run" /\ x.state = c.state
      /\ x.predictionCheck = Append(c.predictionCheck, [target |-> y, isBranch |-> Branches(p[1])])
      /\ c.predictionCheck \in Seq(PredictionRecord) /\ y \in Address
      /\ x.predictions = c.predictions
      /\ x.lastWasBranch = c.lastWasBranch /\ x.lastEpoch = c.lastEpoch
      /\ x.pc = c.pc /\ x.specPc = c.specPc /\ x.epoch = c.epoch /\ x.issueEpoch = c.issueEpoch
      /\ x.newEpoch = c.newEpoch /\ x.flushCount = c.flushCount /\ x.due = c.due
      /\ c.predictions \in Seq(Prediction)
  BY <1>1, <1>5 DEF Schedules
<1>7. Len(c.predictions) + n = 1 + 2 /\ Len(c.predictions) \in Nat
  BY <1>2, <1>6 DEF Control, Counted
<1>8. Len(c.predictionCheck) = 0
  BY <1>2 DEF Control, Checked
<1>9. /\ Len(x.predictionCheck) = 1 /\ (x.predictionCheck[1].isBranch <=> Branches(p[1]))
  BY <1>6, <1>8
<1>10. n <= 3
  BY <1>1, <1>7
<1> HIDE DEF n
<1>11. Debugged(p, x) /\ Issuing(p, x) /\ Resumes(p, 2, x) /\ DelaySlot(p, 2, x)
  BY <1>6 DEF Control, Debugged, Issuing, Resumes, DelaySlot
<1>12. Delays(p, 2, 1, x)
  BY <1>2, <1>6 DEF Control, Delays
<1>13. Checked(p, 1, x)
  BY <1>9 DEF Checked
<1>14. Path(p, 2, x)
  <2> SUFFICES ASSUME NEW i \in 2 .. n, p[i].epoch = c.epoch PROVE OnPath(p, 2, x, i)
    BY <1>6 DEF Path, n
  <2>1. ~(i > 2 + 1)
    BY <1>1, <1>10
  <2>2. OnPath(p, 2, c, i)
    BY DEF Control, Path, n
  <2> QED BY <1>6, <2>1, <2>2 DEF OnPath
<1>15. Counted(p, 2, 1, x)
  BY <1>1, <1>2, <1>6, <1>7 DEF Counted, n
<1>16. Predicted(p, 2, 1, x)
  <2> SUFFICES ASSUME NEW m \in 1 .. Len(c.predictions)
               PROVE  Foreseen(p, 2, 1, x, n + m - 2, c.predictions[m])
    BY <1>6 DEF Predicted, n
  <2> DEFINE i == n + m - 2
  <2>1. Foreseen(p, 2, 0, c, i, c.predictions[m])
    BY <1>2 DEF Control, Predicted, n
  <2>2. i \in Int
    BY <1>1
  <2> HIDE DEF i
  <2>3. ~(i >= 2)
    BY <2>1, <2>2 DEF Foreseen
  <2>4. Foreseen(p, 2, 1, x, i, c.predictions[m])
    BY <1>6, <2>1, <2>3 DEF Foreseen
  <2> QED BY <2>4 DEF i
<1>17. Ages(p, 2, 1, x)
  <2>1. Fresh(p, 2, x) <=> Fresh(p, 2, c)
    BY <1>6 DEF Fresh
  <2>2. 0 < 2
    OBVIOUS
  <2> QED BY <1>2, <1>6, <2>1, <2>2 DEF Control, Ages
<1> QED BY <1>2, <1>3, <1>4, <1>11, <1>12, <1>13, <1>14, <1>15, <1>16, <1>17 DEF Control

Replaces(p, i, u, z) == z = [p EXCEPT ![i] = u]

LEMMA ScheduleControl ==
  ASSUME NEW p \in Seq(Token), NEW g, g = FirstOf(p), NEW s, NEW c, Control(p, g, s, c),
         NEW k, k = s + 1, k <= Len(p), ~p[k].fromDebug,
         NEW u, u = Scheduling(c, p[k]), u \in Token,
         NEW x, NEW y, Schedules(c, x, u, y), NEW z, Replaces(p, k, u, z)
  PROVE  g = FirstOf(z) /\ Control(z, g, k, x)
<1> DEFINE n == Len(p)
           l == Len(c.predictions)
<1>1. /\ g \in 1 .. 2 /\ n \in Nat /\ (g = 2 <=> n >= 1 /\ p[1].fromDebug)
      /\ (p # <<>> <=> n >= 1)
  BY FirstIsOne
<1>2. s \in Nat /\ k \in Nat /\ k = s + 1 /\ k <= n /\ k \in 1 .. n
  BY <1>1 DEF Control, Counted
<1>3. s >= g - 1 /\ k >= g
  <2>1. ~(k = 1 /\ g = 2)
    BY <1>1
  <2> QED BY <1>1, <1>2, <2>1
<1>4. /\ u.pc = p[k].pc /\ u.epoch = p[k].epoch /\ u.fromDebug = p[k].fromDebug
      /\ u.inst = p[k].inst
      /\ (u.branchDelay <=> c.lastWasBranch /\ c.lastEpoch = p[k].epoch)
  <2>1. p[k] \in Token
    BY <1>2
  <2> QED BY <2>1 DEF Scheduling, Token
<1>5. /\ z \in Seq(Token) /\ Len(z) = n /\ z[k] = u
      /\ \A i \in 1 .. n : i # k => z[i] = p[i]
  BY <1>2 DEF Replaces
<1>6. /\ \A i \in 1 .. n : z[i].pc = p[i].pc
      /\ \A i \in 1 .. n : z[i].epoch = p[i].epoch
      /\ \A i \in 1 .. n : z[i].fromDebug = p[i].fromDebug
      /\ \A i \in 1 .. n : z[i].inst = p[i].inst
  BY <1>4, <1>5
<1>7. /\ c.state = "Run" /\ x.state = c.state
      /\ x.predictionCheck = Append(c.predictionCheck, [target |-> y, isBranch |-> Branches(u)])
      /\ c.predictionCheck \in Seq(PredictionRecord) /\ y \in Address
      /\ c.predictions \in Seq(Prediction)
  BY DEF Schedules
<1>8. /\ x.predictions = Append(c.predictions, [takeTarget |-> Branches(u), specTarget |-> y,
                                                epoch |-> u.epoch])
      /\ (x.lastWasBranch <=> Branches(u)) /\ x.lastEpoch = u.epoch
  BY <1>4 DEF Schedules
<1>9. /\ x.pc = c.pc /\ x.specPc = c.specPc /\ x.epoch = c.epoch /\ x.issueEpoch = c.issueEpoch
      /\ x.newEpoch = c.newEpoch /\ x.flushCount = c.flushCount /\ x.due = c.due
  BY DEF Schedules
<1>10. l + n = s + 2 /\ l \in Nat
  <2>1. l + n = (IF s >= g THEN s ELSE g - 1) + 2 /\ l \in Nat
    BY <1>7 DEF Control, Counted
  <2> HIDE DEF l, n
  <2> QED BY <1>1, <1>2, <1>3, <2>1
<1>11. Len(c.predictionCheck) = s
  BY DEF Control, Checked
<1>12. /\ Len(x.predictionCheck) = k /\ (x.predictionCheck[k].isBranch <=> Branches(u))
       /\ x.predictionCheck[k].target = y
       /\ \A i \in 1 .. s : x.predictionCheck[i] = c.predictionCheck[i]
  BY <1>2, <1>7, <1>11
<1>13. /\ Len(x.predictions) = l + 1
       /\ (x.predictions[l + 1].takeTarget <=> Branches(u)) /\ x.predictions[l + 1].specTarget = y
       /\ x.predictions[l + 1].epoch = u.epoch
       /\ \A m \in 1 .. l : x.predictions[m] = c.predictions[m]
  <2>1. [takeTarget |-> Branches(u), specTarget |-> y, epoch |-> u.epoch] \in Prediction
    BY <1>4, <1>7 DEF Prediction, Token, Branches, IsBranch
  <2> QED BY <1>7, <1>8, <1>10, <2>1
<1> HIDE DEF n, l
<1>14. \A i \in 1 .. s : i \in 1 .. n /\ z[i] = p[i]
  BY <1>1, <1>2, <1>5
<1>15. g = FirstOf(z)
  <2>1. z[1].fromDebug = p[1].fromDebug /\ z # <<>>
    BY <1>1, <1>2, <1>5, <1>6
  <2> QED BY <1>1, <1>2, <2>1 DEF FirstOf
<1>16. Debugged(z, x)
  <2>1. \A i \in 2 .. n : ~z[i].fromDebug
    BY <1>6 DEF Control, Debugged, n
  <2>2. ASSUME z[1].fromDebug PROVE p # <<>> /\ p[1].fromDebug /\ z[1] = p[1]
    <3>1. n >= 1 /\ 1 \in 1 .. n
      BY <1>1, <1>2
    <3>2. p[1].fromDebug /\ k # 1
      BY <1>6, <2>2, <3>1
    <3> QED BY <1>1, <1>5, <3>1, <3>2
  <2>3. \A i \in 1 .. n : ~z[i].fromDebug => z[i].inst = Code[z[i].pc]
    BY <1>6 DEF Control, Debugged, n
  <2> QED BY <1>5, <1>9, <2>1, <2>2, <2>3 DEF Control, Debugged
<1>17. Issuing(z, x)
  BY <1>5, <1>6, <1>9 DEF Control, Issuing, Latest, n
<1>18. Delays(z, g, k, x)
  <2>1. ASSUME NEW i \in g .. k, z[i].epoch = c.epoch
        PROVE  z[i].branchDelay <=> IF i = g THEN c.due.after # NoAddress
                                    ELSE z[i - 1].epoch = c.epoch /\ Branches(z[i - 1])
    <3>1. CASE i \in g .. s
      <4>1. i \in 1 .. s /\ (i # g => i - 1 \in 1 .. s)
        BY <1>1, <1>2, <3>1
      <4>2. p[i].branchDelay <=> IF i = g THEN c.due.after # NoAddress
                                 ELSE p[i - 1].epoch = c.epoch /\ Branches(p[i - 1])
        BY <1>14, <2>1, <3>1, <4>1 DEF Control, Delays
      <4> DEFINE h == i - 1
      <4>3. i # g => z[h] = p[h]
        BY <1>14, <4>1
      <4> HIDE DEF h
      <4>4. z[i] = p[i]
        BY <1>14, <4>1
      <4> QED BY <4>2, <4>3, <4>4 DEF h
    <3>2. CASE i = k
      <4>1. z[i] = u /\ (u.branchDelay <=> c.lastWasBranch /\ c.lastEpoch = c.epoch)
        BY <1>4, <1>5, <2>1, <3>2
      <4>2. CASE k = g
        <5>1. s < g
          BY <1>1, <1>2, <4>2
        <5> QED BY <3>2, <4>1, <4>2, <5>1 DEF Control, Delays
      <4>3. CASE k # g
        <5>1. s >= g /\ s \in 1 .. s /\ k - 1 = s
          BY <1>1, <1>2, <1>3, <4>3
        <5>2. (c.lastWasBranch <=> Branches(p[s])) /\ c.lastEpoch = p[s].epoch
          BY <5>1 DEF Control, Delays
        <5>3. z[k - 1] = p[s]
          BY <1>14, <5>1
        <5> QED BY <3>2, <4>1, <4>3, <5>2, <5>3
      <4> QED BY <4>2, <4>3
    <3> QED BY <1>1, <1>2, <3>1, <3>2
  <2>2. ~(k < g)
    BY <1>1, <1>2, <1>3
  <2> QED BY <1>5, <1>8, <1>9, <2>1, <2>2 DEF Delays
<1>19. Checked(z, k, x)
  <2>1. ASSUME NEW i \in 1 .. k PROVE x.predictionCheck[i].isBranch <=> Branches(z[i])
    <3>1. CASE i = k
      BY <1>5, <1>12, <3>1
    <3>2. CASE i \in 1 .. s
      <4>1. c.predictionCheck[i].isBranch <=> Branches(p[i])
        BY <3>2 DEF Control, Checked
      <4>2. z[i] = p[i] /\ x.predictionCheck[i] = c.predictionCheck[i]
        BY <1>12, <1>14, <3>2
      <4> QED BY <4>1, <4>2
    <3> QED BY <1>2, <3>1, <3>2
  <2> QED BY <1>12, <2>1 DEF Checked
<1>20. Path(z, g, x)
  <2> SUFFICES ASSUME NEW i \in g .. n, z[i].epoch = c.epoch PROVE OnPath(z, g, x, i)
    BY <1>5, <1>9 DEF Path
  <2>1. /\ i \in 1 .. n /\ (i # g => i - 1 \in 1 .. n) /\ (i > g + 1 => i - 2 \in 1 .. s)
        /\ (i > g + 1 => i # g) /\ (i = g + 1 => i # g)
    BY <1>1, <1>2, <1>10
  <2>2. OnPath(p, g, c, i)
    BY <1>6, <2>1 DEF Control, Path, n
  <2> DEFINE h == i - 1
             j == i - 2
  <2>3. i # g => z[h].pc = p[h].pc /\ z[h].epoch = p[h].epoch
    BY <1>6, <2>1
  <2>4. i > g + 1 => z[j] = p[j] /\ x.predictionCheck[j] = c.predictionCheck[j]
    BY <1>12, <1>14, <2>1
  <2>5. z[i].pc = p[i].pc
    BY <1>6, <2>1
  <2> HIDE DEF h, j
  <2>6. i = g \/ z[h].epoch # c.epoch => p[i].pc = c.due.at
    BY <2>2, <2>3 DEF OnPath, h
  <2>7. i = g + 1 /\ z[h].epoch = c.epoch =>
          IF c.due.after # NoAddress THEN c.newEpoch = <<>> => p[i].pc = c.due.after
          ELSE p[i].pc = Plus(z[h].pc, 1)
    <3>1. i = g + 1 => z[h].pc = p[h].pc /\ z[h].epoch = p[h].epoch
      BY <2>1, <2>3
    <3> QED BY <2>2, <3>1 DEF OnPath, h
  <2>8. i > g + 1 /\ z[h].epoch = c.epoch =>
          p[i].pc = IF z[j].epoch = c.epoch /\ Branches(z[j])
                    THEN x.predictionCheck[j].target ELSE Plus(z[h].pc, 1)
    <3>1. i > g + 1 => z[h].pc = p[h].pc /\ z[h].epoch = p[h].epoch
      BY <2>1, <2>3
    <3> QED BY <2>2, <2>4, <3>1 DEF OnPath, h, j
  <2> QED BY <1>9, <2>5, <2>6, <2>7, <2>8 DEF OnPath, h, j
<1>21. Counted(z, g, k, x)
  BY <1>2, <1>3, <1>5, <1>7, <1>10, <1>13 DEF Counted
<1>22. \A m \in 1 .. l + 1 : m \in 1 .. l \/ m = l + 1
  BY <1>10
<1>23. Predicted(z, g, k, x)
  <2> SUFFICES ASSUME NEW m \in 1 .. l + 1
               PROVE  Foreseen(z, g, k, x, n + m - 2, x.predictions[m])
    BY <1>5, <1>13 DEF Predicted
  <2> DEFINE i == n + m - 2
             q == x.predictions[m]
  <2>0. i \in Int
    BY <1>1, <1>10
  <2>1. CASE m \in 1 .. l
    <3>1. Foreseen(p, g, s, c, i, q)
      BY <1>13, <2>1 DEF Control, Predicted, n, l
    <3> HIDE DEF i, q
    <3>2. ASSUME i >= g PROVE i \in 1 .. s /\ i <= k
      BY <1>1, <1>2, <2>0, <3>1, <3>2 DEF Foreseen
    <3>3. i >= g => z[i] = p[i] /\ x.predictionCheck[i] = c.predictionCheck[i] /\ i <= k
      BY <1>12, <1>14, <3>2
    <3>4. Foreseen(z, g, k, x, i, q)
      BY <1>9, <3>1, <3>3 DEF Foreseen
    <3> QED BY <3>4 DEF i, q
  <2>2. CASE m = l + 1
    <3>1. i = k /\ i # g - 1
      BY <1>1, <1>2, <1>3, <1>10, <2>2
    <3>2. (q.takeTarget <=> Branches(u)) /\ q.specTarget = y /\ q.epoch = u.epoch
      BY <1>13, <2>2
    <3> HIDE DEF i, q
    <3>3. Foreseen(z, g, k, x, i, q)
      BY <1>2, <1>5, <1>12, <3>1, <3>2 DEF Foreseen
    <3> QED BY <3>3 DEF i, q
  <2> QED BY <1>22, <2>1, <2>2
<1>24. Resumes(z, g, x)
  <2>1. n >= g /\ n \in 1 .. n /\ ~(n < g)
    BY <1>1, <1>2, <1>3
  <2>2. z[n].pc = p[n].pc /\ z[n].epoch = p[n].epoch
    BY <1>6, <2>1
  <2> QED BY <1>5, <1>9, <2>1, <2>2 DEF Control, Resumes, n
<1>25. g \in 1 .. n
  BY <1>1, <1>2, <1>3
<1>26. z[g].epoch = p[g].epoch
  BY <1>6, <1>25
<1>27. DelaySlot(z, g, x)
  BY <1>5, <1>9, <1>26 DEF Control, DelaySlot, n
<1>28. Ages(z, g, k, x)
  <2>1. Fresh(z, g, x) <=> Fresh(p, g, c)
    BY <1>5, <1>9, <1>26 DEF Fresh, n
  <2>2. \A i \in 1 .. n : Behind(z[i].epoch, c.epoch, 2)
    BY <1>6 DEF Control, Ages, n
  <2>3. ASSUME Fresh(p, g, c), NEW m \in 1 .. l + 1, n + m - 2 = g - 1
        PROVE  Behind(x.predictions[m].epoch, c.epoch, 2)
    <3>1. m # l + 1
      BY <1>1, <1>2, <1>3, <1>10, <2>3
    <3>2. m \in 1 .. l
      BY <1>22, <3>1
    <3> QED BY <1>13, <2>3, <3>2 DEF Control, Ages, n, l
  <2>4. ~(k < g)
    BY <1>1, <1>2, <1>3
  <2> QED BY <1>5, <1>9, <1>13, <2>1, <2>2, <2>3, <2>4 DEF Control, Ages
<1> QED BY <1>15, <1>16, <1>17, <1>18, <1>19, <1>20, <1>21, <1>23, <1>24, <1>27, <1>28 DEF Control

(* The first instruction leaves the pipeline; the rest z has k that have   *)
(* passed the scheduler.                                                   *)
Completing(p, k, c, x, z) ==
  /\ p \in Seq(Token) /\ p # <<>> /\ z = Tail(p) /\ k \in Nat
  /\ c.predictionCheck \in Seq(PredictionRecord) /\ c.predictions \in Seq(Prediction)
  /\ x.predictionCheck = Tail(c.predictionCheck) /\ x.predictions = c.predictions
  /\ x.specPc = c.specPc /\ x.issueEpoch = c.issueEpoch /\ x.flushCount = c.flushCount
  /\ x.state = c.state /\ x.lastWasBranch = c.lastWasBranch /\ x.lastEpoch = c.lastEpoch

(* What is the same whatever the first instruction was.                    *)
Completed(p, k, c, x, z, n) ==
  /\ n \in Nat /\ n >= 1 /\ k \in Nat /\ k + 1 <= n
  /\ z \in Seq(Token) /\ Len(z) = n - 1 /\ \A i \in 1 .. n - 1 : z[i] = p[i + 1]
  /\ \A i \in 1 .. k : x.predictionCheck[i] = c.predictionCheck[i + 1]
  /\ c.state # "Init" /\ Len(c.predictions) + n = k + 3 /\ Len(c.predictions) \in Nat

LEMMA CompletedShape ==
  ASSUME NEW p, NEW k, NEW c, NEW x, NEW z, Completing(p, k, c, x, z),
         NEW g, g = FirstOf(p), NEW s, s = k + 1, Control(p, g, s, c), NEW n, n = Len(p)
  PROVE  /\ g \in 1 .. 2 /\ (g = 2 <=> p[1].fromDebug) /\ Completed(p, k, c, x, z, n)
         /\ FirstOf(z) = 1 /\ Debugged(z, x) /\ Checked(z, k, x) /\ Counted(z, 1, k, x)
<1>1. /\ p \in Seq(Token) /\ p # <<>> /\ z = Tail(p) /\ k \in Nat
      /\ c.predictionCheck \in Seq(PredictionRecord) /\ c.predictions \in Seq(Prediction)
      /\ x.predictionCheck = Tail(c.predictionCheck) /\ x.predictions = c.predictions
      /\ x.state = c.state
  BY DEF Completing
<1>2. /\ g \in 1 .. 2 /\ n \in Nat /\ n >= 1 /\ (g = 2 <=> p[1].fromDebug)
  BY <1>1, FirstIsOne
<1>3. z \in Seq(Token) /\ Len(z) = n - 1 /\ \A i \in 1 .. n - 1 : z[i] = p[i + 1]
  BY <1>1
<1>4. s \in Nat /\ s <= n /\ s >= 1 /\ c.state # "Init"
  BY <1>1 DEF Control, Counted
<1>5. Len(c.predictions) + n = s + 2 /\ Len(c.predictions) \in Nat
  <2>1. Len(c.predictions) + n = (IF s >= g THEN s ELSE g - 1) + 2 /\ Len(c.predictions) \in Nat
    BY <1>1, <1>4 DEF Control, Counted
  <2> QED BY <1>2, <1>4, <2>1
<1>6. /\ Len(c.predictionCheck) = s
      /\ \A i \in 1 .. s : c.predictionCheck[i].isBranch <=> Branches(p[i])
  BY DEF Control, Checked
<1>7. /\ Len(x.predictionCheck) = k
      /\ \A i \in 1 .. k : x.predictionCheck[i] = c.predictionCheck[i + 1]
  <2>1. c.predictionCheck # <<>> /\ s - 1 = k
    BY <1>1, <1>4, <1>6
  <2> QED BY <1>1, <1>6, <2>1
<1>8. \A i \in 2 .. n : ~p[i].fromDebug
  BY DEF Control, Debugged
<1>9. \A i \in 1 .. n - 1 : i + 1 \in 2 .. n /\ i + 1 \in 1 .. n
  BY <1>2
<1>10. \A i \in 1 .. n - 1 : ~z[i].fromDebug
  BY <1>3, <1>8, <1>9
<1>11. ~(z # <<>> /\ z[1].fromDebug)
  <2> SUFFICES ASSUME z # <<>> PROVE ~z[1].fromDebug
    OBVIOUS
  <2>1. 1 \in 1 .. n - 1
    BY <1>2, <1>3
  <2> QED BY <1>10, <2>1
<1>12. FirstOf(z) = 1
  BY <1>11 DEF FirstOf
<1>13. Debugged(z, x)
  <2>1. \A i \in 1 .. n - 1 : ~z[i].fromDebug => z[i].inst = Code[z[i].pc]
    BY <1>3, <1>9 DEF Control, Debugged
  <2>2. \A i \in 2 .. n - 1 : ~z[i].fromDebug
    BY <1>2, <1>10
  <2> QED BY <1>3, <1>11, <2>1, <2>2 DEF Debugged
<1>14. Checked(z, k, x)
  <2>1. ASSUME NEW i \in 1 .. k PROVE x.predictionCheck[i].isBranch <=> Branches(z[i])
    <3>1. i \in 1 .. n - 1 /\ i + 1 \in 1 .. s
      BY <1>1, <1>2, <1>4
    <3> DEFINE j == i + 1
    <3>2. z[i] = p[j] /\ x.predictionCheck[i] = c.predictionCheck[j]
      BY <1>3, <1>7, <3>1
    <3>3. c.predictionCheck[j].isBranch <=> Branches(p[j])
      BY <1>6, <3>1
    <3> QED BY <3>2, <3>3
  <2> QED BY <1>7, <2>1 DEF Checked
<1>15. Counted(z, 1, k, x)
  BY <1>1, <1>2, <1>3, <1>4, <1>5 DEF Counted
<1>16. Completed(p, k, c, x, z, n)
  BY <1>1, <1>2, <1>3, <1>4, <1>5, <1>7 DEF Completed
<1> QED BY <1>2, <1>12, <1>13, <1>14, <1>15, <1>16

(* A dead instruction leaves.                                              *)
LEMMA DeadControl ==
  ASSUME NEW p, NEW k, NEW c, NEW x, NEW z, Completing(p, k, c, x, z),
         NEW s, s = k + 1, Control(p, 1, s, c), 1 = FirstOf(p), p[1].epoch # c.epoch,
         x.pc = c.pc, x.epoch = c.epoch, x.newEpoch = c.newEpoch, x.due = c.due
  PROVE  c.newEpoch = <<>> /\ Control(z, 1, k, x)
<1> DEFINE n == Len(p)
           e == c.epoch
<1> HIDE DEF n
<1>0. n = Len(p)
  BY DEF n
<1>1. /\ n \in Nat /\ n >= 1
      /\ z \in Seq(Token) /\ Len(z) = n - 1
      /\ \A i \in 1 .. n - 1 : z[i] = p[i + 1]
      /\ k \in Nat /\ s <= n
      /\ \A i \in 1 .. k : x.predictionCheck[i] = c.predictionCheck[i + 1]
      /\ Len(c.predictions) + n = s + 2 /\ Len(c.predictions) \in Nat
  <2>1. Completed(p, k, c, x, z, n)
    BY <1>0, CompletedShape
  <2> QED BY <2>1 DEF Completed
<1>2. Debugged(z, x) /\ Checked(z, k, x) /\ Counted(z, 1, k, x)
  BY CompletedShape
<1>3. /\ x.specPc = c.specPc /\ x.issueEpoch = c.issueEpoch /\ x.flushCount = c.flushCount
      /\ x.state = c.state /\ x.lastWasBranch = c.lastWasBranch /\ x.lastEpoch = c.lastEpoch
      /\ x.predictions = c.predictions
  BY DEF Completing
<1>4. \A i \in 1 .. n - 1 : i + 1 \in 1 .. n /\ z[i] = p[i + 1]
  BY <1>1
<1>5. c.due.after = NoAddress /\ c.newEpoch = <<>>
  BY <1>1 DEF Control, DelaySlot, n
<1>6. Issuing(z, x)
  <2>1. \A i \in 1 .. n : p[i].epoch = e => c.issueEpoch = e
    BY DEF Control, Issuing, n
  <2>2. \A i, j \in 1 .. n - 1 : i <= j => i + 1 <= j + 1
    BY <1>1
  <2>3. ASSUME NEW i \in 1 .. n - 1, NEW j \in 1 .. n - 1, z[i].epoch = e, i <= j
        PROVE  z[j].epoch = e
    BY <1>4, <2>2, <2>3 DEF Control, Issuing, Latest, n
  <2>4. x.epoch = e /\ x.issueEpoch = c.issueEpoch /\ 1 .. Len(z) = 1 .. n - 1
    BY <1>1, <1>3
  <2>5. Latest(z, e)
    BY <2>3, <2>4 DEF Latest
  <2>6. \A i \in 1 .. n - 1 : z[i].epoch = e => c.issueEpoch = e
    BY <1>4, <2>1
  <2> QED BY <2>4, <2>5, <2>6 DEF Issuing
<1>7. Delays(z, 1, k, x)
  <2>1. ASSUME NEW i \in 1 .. k, z[i].epoch = e
        PROVE  z[i].branchDelay <=> IF i = 1 THEN c.due.after # NoAddress
                                    ELSE z[i - 1].epoch = e /\ Branches(z[i - 1])
    <3> DEFINE j == i + 1
               h == i - 1
    <3>1. i \in 1 .. n - 1 /\ j \in 1 .. s /\ j # 1 /\ j - 1 = i /\ (i = 1 => j - 1 = 1)
      BY <1>1
    <3>2. z[i] = p[j]
      BY <1>4, <3>1
    <3>3. p[j].branchDelay <=> p[i].epoch = e /\ Branches(p[i])
      <4> HIDE DEF j, h
      <4> QED BY <2>1, <3>1, <3>2 DEF Control, Delays
    <3>4. i # 1 => h \in 1 .. n - 1 /\ h + 1 = i
      BY <1>1, <3>1
    <3>5. i # 1 => z[h] = p[i]
      <4> HIDE DEF h
      <4> QED BY <1>4, <3>4
    <3> QED BY <1>5, <3>2, <3>3, <3>5
  <2>2. s >= 1 /\ ~(s < 1)
    BY <1>1
  <2>3. (c.lastWasBranch <=> Branches(p[s])) /\ c.lastEpoch = p[s].epoch
    BY <2>2 DEF Control, Delays
  <2>4. k >= 1 => z[k] = p[s]
    BY <1>1
  <2>5. k < 1 => p[s] = p[1]
    BY <1>1
  <2> QED BY <1>3, <1>5, <2>1, <2>3, <2>4, <2>5 DEF Delays
<1>8. Path(z, 1, x)
  <2> SUFFICES ASSUME NEW i \in 1 .. n - 1, z[i].epoch = e PROVE OnPath(z, 1, x, i)
    BY <1>1 DEF Path
  <2> DEFINE j == i + 1
             h == i - 1
             l == i - 2
  <2>1. j \in 1 .. n /\ j # 1 /\ j - 1 = i /\ z[i] = p[j] /\ j \in Int
        /\ (j > 2 <=> i # 1) /\ (j = 2 <=> i = 1)
    BY <1>4
  <2>2. /\ i # 1 => h \in 1 .. n - 1 /\ h + 1 = i
        /\ i > 2 => l \in 1 .. k /\ l \in 1 .. n - 1 /\ l + 1 = h /\ j - 2 = h
        /\ j - 2 = h
    BY <1>1
  <2>3. /\ i # 1 => z[h] = p[i]
        /\ i > 2 => z[l] = p[h] /\ x.predictionCheck[l] = c.predictionCheck[h]
    <3> HIDE DEF h, l
    <3> QED BY <1>1, <1>4, <2>2
  <2> HIDE DEF j
  <2>4. OnPath(p, 1, c, j)
    BY <2>1 DEF Control, Path, n
  <2>5. /\ p[i].epoch # e => p[j].pc = c.due.at
        /\ i # 1 /\ p[i].epoch = e =>
             p[j].pc = IF p[h].epoch = e /\ Branches(p[h])
                       THEN c.predictionCheck[h].target ELSE Plus(p[i].pc, 1)
    <3>1. /\ j = 1 \/ p[j - 1].epoch # e => p[j].pc = c.due.at
          /\ j > 1 + 1 /\ p[j - 1].epoch = e =>
             p[j].pc = IF p[j - 2].epoch = e /\ Branches(p[j - 2])
                       THEN c.predictionCheck[j - 2].target ELSE Plus(p[j - 1].pc, 1)
      BY <2>4 DEF OnPath
    <3> HIDE DEF h
    <3> QED BY <2>1, <2>2, <3>1
  <2>6. i = 2 => h = 1
    OBVIOUS
  <2>7. (i = 1 + 1 <=> i = 2) /\ (i > 1 + 1 <=> i > 2) /\ (i = 2 => i # 1) /\ (i > 2 => i # 1)
    OBVIOUS
  <2> HIDE DEF h, l
  <2>8. i = 1 \/ z[h].epoch # e => z[i].pc = c.due.at
    BY <2>1, <2>3, <2>5
  <2>9. i = 2 /\ z[h].epoch = e => z[i].pc = Plus(z[h].pc, 1)
    BY <2>1, <2>3, <2>5, <2>6, <2>7
  <2>10. i > 2 /\ z[h].epoch = e =>
           z[i].pc = IF z[l].epoch = e /\ Branches(z[l])
                     THEN x.predictionCheck[l].target ELSE Plus(z[h].pc, 1)
    BY <2>1, <2>3, <2>5, <2>7
  <2> QED BY <1>5, <2>7, <2>8, <2>9, <2>10 DEF OnPath, h, l
<1>9. ASSUME NEW m \in 1 .. Len(c.predictions)
      PROVE  /\ n + m - 2 \in Int /\ (n - 1) + m - 2 = (n + m - 2) - 1
             /\ Foreseen(p, 1, s, c, n + m - 2, c.predictions[m])
  BY <1>1 DEF Control, Predicted, n
<1>10. Predicted(z, 1, k, x)
  <2> SUFFICES ASSUME NEW m \in 1 .. Len(c.predictions)
               PROVE  Foreseen(z, 1, k, x, (n - 1) + m - 2, c.predictions[m])
    BY <1>1, <1>3 DEF Predicted
  <2> DEFINE j == n + m - 2
             i == (n - 1) + m - 2
             q == c.predictions[m]
  <2>1. j \in Int /\ i = j - 1 /\ Foreseen(p, 1, s, c, j, q)
    BY <1>9
  <2> HIDE DEF i, j, q
  <2>2. i \in Int /\ j = i + 1 /\ (i >= 1 => j >= 1) /\ (i = 0 => j >= 1 /\ j = 1)
    BY <2>1
  <2>3. j >= 1 => /\ j <= s /\ (q.takeTarget <=> Branches(p[j]))
                  /\ q.specTarget = c.predictionCheck[j].target /\ q.epoch = p[j].epoch
    BY <2>1 DEF Foreseen
  <2>4. i >= 1 => /\ i <= k /\ (q.takeTarget <=> Branches(z[i]))
                  /\ q.specTarget = x.predictionCheck[i].target /\ q.epoch = z[i].epoch
    <3> SUFFICES ASSUME i >= 1
                 PROVE  /\ i <= k /\ (q.takeTarget <=> Branches(z[i]))
                        /\ q.specTarget = x.predictionCheck[i].target /\ q.epoch = z[i].epoch
      OBVIOUS
    <3>1. i \in 1 .. k /\ i \in 1 .. n - 1
      BY <1>1, <2>2, <2>3
    <3> QED BY <1>1, <2>2, <2>3, <3>1, SMTT(30)
  <2>5. i = 1 - 1 => ~Usable(q, e)
    BY <2>2, <2>3 DEF Usable
  <2>6. Foreseen(z, 1, k, x, i, q)
    BY <1>5, <2>4, <2>5 DEF Foreseen
  <2> QED BY <2>6 DEF i, q
<1>11. Resumes(z, 1, x)
  <2>1. ASSUME c.issueEpoch = e, n - 1 >= 1
        PROVE  x.specPc = IF z[n - 1].epoch = e THEN Plus(z[n - 1].pc, 1) ELSE c.due.at
    <3>1. n >= 1 /\ z[n - 1] = p[n]
      BY <1>1, <2>1
    <3> QED BY <1>3, <2>1, <3>1 DEF Control, Resumes, n
  <2>2. ASSUME c.issueEpoch = e, n - 1 < 1
        PROVE  c.specPc = c.due.at /\ (c.predictions # <<>> => ~Usable(c.predictions[1], e))
    <3>1. n = 1 /\ n >= 1
      BY <1>1, <2>2
    <3>2. c.specPc = c.due.at
      BY <2>2, <3>1 DEF Control, Resumes, n
    <3>3. ASSUME c.predictions # <<>> PROVE ~Usable(c.predictions[1], e)
      <4>1. 1 \in 1 .. Len(c.predictions) /\ n + 1 - 2 = 0 /\ 0 = 1 - 1
        <5>1. c.predictions \in Seq(Prediction)
          BY DEF Completing
        <5> QED BY <3>1, <3>3, <5>1
      <4>2. Foreseen(p, 1, s, c, 0, c.predictions[1])
        BY <1>9, <4>1
      <4> QED BY <1>5, <4>1, <4>2 DEF Foreseen
    <3> QED BY <3>2, <3>3
  <2> QED BY <1>1, <1>3, <2>1, <2>2 DEF Control, Resumes
<1>12. DelaySlot(z, 1, x)
  BY <1>3, <1>5 DEF DelaySlot
<1>13. Ages(z, 1, k, x)
  <2>1. Behind(c.issueEpoch, e, 2) /\ \A i \in 1 .. n : Behind(p[i].epoch, e, 2)
    BY DEF Control, Ages, n
  <2>2. ASSUME k < 1 PROVE Behind(c.lastEpoch, e, 2)
    <3>1. s >= 1 /\ s = 1 /\ 1 \in 1 .. n
      BY <1>1, <2>2
    <3>2. c.lastEpoch = p[s].epoch
      BY <3>1 DEF Control, Delays
    <3> QED BY <2>1, <3>1, <3>2
  <2>3. ASSUME NEW m \in 1 .. Len(c.predictions), (n - 1) + m - 2 = 1 - 1
        PROVE  Behind(c.predictions[m].epoch, e, 2)
    <3> DEFINE j == n + m - 2
    <3>1. j = 1 /\ Foreseen(p, 1, s, c, j, c.predictions[m])
      BY <1>9, <2>3
    <3> HIDE DEF j
    <3>2. c.predictions[m].epoch = p[1].epoch /\ 1 \in 1 .. n
      BY <1>1, <3>1 DEF Foreseen
    <3> QED BY <2>1, <3>2
  <2> QED BY <1>1, <1>3, <1>4, <2>1, <2>2, <2>3 DEF Ages
<1> QED BY <1>2, <1>5, <1>6, <1>7, <1>8, <1>10, <1>11, <1>12, <1>13 DEF Control

(* An instruction of the debug unit's leaves that does not branch.         *)
LEMMA DebugControl ==
  ASSUME NEW p, NEW k, NEW c, NEW x, NEW z, Completing(p, k, c, x, z),
         NEW s, s = k + 1, Control(p, 2, s, c), 2 = FirstOf(p),
         x.epoch = c.epoch, x.newEpoch = <<>>, x.due = c.due
  PROVE  Control(z, 1, k, x)
<1> DEFINE n == Len(p)
           e == c.epoch
<1> HIDE DEF n
<1>0. n = Len(p)
  BY DEF n
<1>1. /\ n \in Nat /\ n >= 1
      /\ z \in Seq(Token) /\ Len(z) = n - 1
      /\ \A i \in 1 .. n - 1 : z[i] = p[i + 1]
      /\ k \in Nat /\ s <= n
      /\ \A i \in 1 .. k : x.predictionCheck[i] = c.predictionCheck[i + 1]
      /\ Len(c.predictions) + n = s + 2 /\ Len(c.predictions) \in Nat
  <2>1. Completed(p, k, c, x, z, n)
    BY <1>0, CompletedShape
  <2> QED BY <2>1 DEF Completed
<1>2. p[1].fromDebug /\ Debugged(z, x) /\ Checked(z, k, x) /\ Counted(z, 1, k, x)
  BY <1>0, CompletedShape
<1>3. /\ x.specPc = c.specPc /\ x.issueEpoch = c.issueEpoch /\ x.flushCount = c.flushCount
      /\ x.state = c.state /\ x.lastWasBranch = c.lastWasBranch /\ x.lastEpoch = c.lastEpoch
      /\ x.predictions = c.predictions
  BY DEF Completing
<1>4. \A i \in 1 .. n - 1 : i + 1 \in 1 .. n /\ z[i] = p[i + 1]
  BY <1>1
<1>5. p[1].epoch = e /\ c.newEpoch = <<>> /\ c.issueEpoch = e /\ \A i \in 1 .. n : p[i].epoch = e
  <2>1. p # <<>> /\ 1 \in 1 .. n
    BY <1>0, <1>1 DEF Completing
  <2>2. p[1].epoch = e /\ c.newEpoch = <<>>
    BY <1>2, <2>1 DEF Control, Debugged
  <2>3. \A i \in 1 .. n : 1 <= i
    BY <1>1
  <2> QED BY <1>0, <2>1, <2>2, <2>3 DEF Control, Issuing, Latest
<1>6. Issuing(z, x)
  <2>1. \A i \in 1 .. n - 1 : z[i].epoch = e
    BY <1>4, <1>5
  <2> QED BY <1>1, <1>3, <1>5, <2>1 DEF Issuing, Latest
<1>7. Delays(z, 1, k, x)
  <2>1. ASSUME NEW i \in 1 .. k
        PROVE  z[i].branchDelay <=> IF i = 1 THEN c.due.after # NoAddress
                                    ELSE z[i - 1].epoch = e /\ Branches(z[i - 1])
    <3> DEFINE j == i + 1
               h == i - 1
    <3>1. i \in 1 .. n - 1 /\ j \in 2 .. s /\ j - 1 = i /\ (i = 1 <=> j = 2) /\ j \in 1 .. n
      BY <1>1, SMTT(30)
    <3>2. z[i] = p[j]
      BY <1>4, <3>1
    <3>3. p[j].branchDelay <=> IF j = 2 THEN c.due.after # NoAddress
                               ELSE p[i].epoch = e /\ Branches(p[i])
      <4> HIDE DEF j, h
      <4> QED BY <1>5, <3>1, <3>2 DEF Control, Delays
    <3>4. i # 1 => h \in 1 .. n - 1 /\ h + 1 = i
      BY <1>1, <3>1
    <3>5. i # 1 => z[h] = p[i]
      <4> HIDE DEF h
      <4> QED BY <1>4, <3>4
    <3> QED BY <3>1, <3>2, <3>3, <3>5
  <2>2. (k >= 1 <=> s >= 2) /\ (k < 1 <=> s < 2)
    BY <1>1
  <2>3. /\ s >= 2 => (c.lastWasBranch <=> Branches(p[s])) /\ c.lastEpoch = p[s].epoch
        /\ s < 2 => (c.lastWasBranch /\ c.lastEpoch = c.epoch <=> c.due.after # NoAddress)
    BY DEF Control, Delays
  <2>4. k >= 1 => z[k] = p[s]
    BY <1>1
  <2> QED BY <1>3, <2>1, <2>2, <2>3, <2>4 DEF Delays
<1>8. Path(z, 1, x)
  <2> SUFFICES ASSUME NEW i \in 1 .. n - 1, z[i].epoch = e PROVE OnPath(z, 1, x, i)
    BY <1>1 DEF Path
  <2> DEFINE j == i + 1
             h == i - 1
             l == i - 2
  <2>1. j \in 2 .. n /\ j \in 1 .. n /\ j - 1 = i /\ z[i] = p[j] /\ j \in Int
        /\ (i = 1 => j = 2) /\ (i = 2 => j = 2 + 1) /\ (i > 2 => j > 2 + 1)
    BY <1>4
  <2>2. /\ i # 1 => h \in 1 .. n - 1 /\ h + 1 = i
        /\ i > 2 => l \in 1 .. k /\ l \in 1 .. n - 1 /\ l + 1 = h
        /\ j - 2 = h
    BY <1>1
  <2>3. /\ i # 1 => z[h] = p[i]
        /\ i > 2 => z[l] = p[h] /\ x.predictionCheck[l] = c.predictionCheck[h]
    <3> HIDE DEF h, l
    <3> QED BY <1>1, <1>4, <2>2
  <2> HIDE DEF j
  <2>4. OnPath(p, 2, c, j)
    BY <1>5, <2>1 DEF Control, Path, n
  <2>5. /\ j = 2 => p[j].pc = c.due.at
        /\ j = 2 + 1 => IF c.due.after # NoAddress THEN p[j].pc = c.due.after
                        ELSE p[j].pc = Plus(p[i].pc, 1)
        /\ j > 2 + 1 => p[j].pc = IF p[h].epoch = e /\ Branches(p[h])
                                  THEN c.predictionCheck[h].target ELSE Plus(p[i].pc, 1)
    <3>1. p[i].epoch = e
      BY <1>1, <1>5
    <3> HIDE DEF h
    <3> QED BY <1>5, <2>1, <2>2, <2>4, <3>1 DEF OnPath
  <2>6. (i = 2 => h = 1) /\ (i = 1 + 1 <=> i = 2) /\ (i > 1 + 1 <=> i > 2)
        /\ (i = 2 => i # 1) /\ (i > 2 => i # 1) /\ (i # 1 => i \in 2 .. n - 1)
    BY <1>1
  <2> HIDE DEF h, l
  <2>7. i # 1 => z[h].epoch = e
    BY <1>1, <1>5, <2>3
  <2>8. i = 1 => z[i].pc = c.due.at
    BY <2>1, <2>5
  <2>9. i = 2 => IF c.due.after # NoAddress THEN z[i].pc = c.due.after
                 ELSE z[i].pc = Plus(z[h].pc, 1)
    BY <2>1, <2>3, <2>5, <2>6
  <2>10. i > 2 => z[i].pc = IF z[l].epoch = e /\ Branches(z[l])
                            THEN x.predictionCheck[l].target ELSE Plus(z[h].pc, 1)
    BY <2>1, <2>3, <2>5, <2>6
  <2> QED BY <2>6, <2>7, <2>8, <2>9, <2>10 DEF OnPath, h, l
<1>9. ASSUME NEW m \in 1 .. Len(c.predictions)
      PROVE  /\ n + m - 2 \in Int /\ (n - 1) + m - 2 = (n + m - 2) - 1
             /\ Foreseen(p, 2, s, c, n + m - 2, c.predictions[m])
  BY <1>1, SMTT(30) DEF Control, Predicted, n
<1>10. Predicted(z, 1, k, x)
  <2> SUFFICES ASSUME NEW m \in 1 .. Len(c.predictions)
               PROVE  Foreseen(z, 1, k, x, (n - 1) + m - 2, c.predictions[m])
    BY <1>1, <1>3 DEF Predicted
  <2> DEFINE j == n + m - 2
             i == (n - 1) + m - 2
             q == c.predictions[m]
  <2>1. j \in Int /\ i = j - 1 /\ Foreseen(p, 2, s, c, j, q)
    BY <1>9
  <2> HIDE DEF i, j, q
  <2>2. i \in Int /\ j = i + 1 /\ (i >= 1 => j >= 2) /\ (i = 1 - 1 => j = 2 - 1)
    BY <2>1
  <2>3. j >= 2 => /\ j <= s /\ (q.takeTarget <=> Branches(p[j]))
                  /\ q.specTarget = c.predictionCheck[j].target /\ q.epoch = p[j].epoch
    BY <2>1 DEF Foreseen
  <2>4. i >= 1 => /\ i <= k /\ (q.takeTarget <=> Branches(z[i]))
                  /\ q.specTarget = x.predictionCheck[i].target /\ q.epoch = z[i].epoch
    <3> SUFFICES ASSUME i >= 1
                 PROVE  /\ i <= k /\ (q.takeTarget <=> Branches(z[i]))
                        /\ q.specTarget = x.predictionCheck[i].target /\ q.epoch = z[i].epoch
      OBVIOUS
    <3>1. i \in 1 .. k /\ i \in 1 .. n - 1
      BY <1>1, <2>2, <2>3
    <3> QED BY <1>1, <2>2, <2>3, <3>1
  <2>5. i = 1 - 1 => /\ Usable(q, e) <=> c.due.after # NoAddress
                     /\ c.due.after # NoAddress => q.specTarget = c.due.after
    BY <1>5, <2>1, <2>2 DEF Foreseen
  <2>6. Foreseen(z, 1, k, x, i, q)
    BY <2>4, <2>5 DEF Foreseen
  <2> QED BY <2>6 DEF i, q
<1>11. Resumes(z, 1, x)
  <2>1. ASSUME n - 1 >= 1
        PROVE  x.specPc = IF z[n - 1].epoch = e THEN Plus(z[n - 1].pc, 1) ELSE c.due.at
    <3>1. n >= 2 /\ z[n - 1] = p[n]
      BY <1>1, <2>1
    <3> QED BY <1>3, <1>5, <3>1 DEF Control, Resumes, n
  <2>2. ASSUME n - 1 < 1
        PROVE  IF c.predictions # <<>> /\ Usable(c.predictions[1], c.epoch)
               THEN c.predictions[1].specTarget = c.due.at ELSE c.specPc = c.due.at
    <3>1. n < 2
      BY <1>1, <2>2
    <3> QED BY <1>5, <3>1 DEF Control, Resumes, n
  <2> QED BY <1>1, <1>3, <1>5, <2>1, <2>2 DEF Resumes
<1>12. DelaySlot(z, 1, x)
  <2>1. ASSUME c.due.after # NoAddress PROVE Code[c.due.at].kind # "eret"
    BY <2>1 DEF Control, DelaySlot
  <2>2. n - 1 >= 1 => z[1].epoch = e
    BY <1>1, <1>4, <1>5, SMTT(30)
  <2> QED BY <1>1, <1>3, <1>5, <2>1, <2>2 DEF DelaySlot
<1>13. Ages(z, 1, k, x)
  <2>1. Behind(c.issueEpoch, e, 2) /\ \A i \in 1 .. n : Behind(p[i].epoch, e, 2)
    BY DEF Control, Ages, n
  <2>2. Fresh(p, 2, c)
    <3>1. n >= 2 => 2 \in 1 .. n
      BY <1>1
    <3> QED BY <1>5, <3>1 DEF Fresh, n
  <2>3. k < 1 => s < 2
    BY <1>1
  <2>4. s < 2 => Behind(c.lastEpoch, e, 2)
    BY <2>2 DEF Control, Ages
  <2>5. ASSUME NEW m \in 1 .. Len(c.predictions), (n - 1) + m - 2 = 1 - 1
        PROVE  Behind(c.predictions[m].epoch, e, 2)
    <3>1. n + m - 2 = 2 - 1
      BY <1>1, <2>5
    <3> QED BY <2>2, <3>1 DEF Control, Ages, n
  <2> QED BY <1>1, <1>3, <1>4, <2>1, <2>3, <2>4, <2>5 DEF Ages
<1> QED BY <1>2, <1>6, <1>7, <1>8, <1>10, <1>11, <1>12, <1>13 DEF Control

(* An instruction t of the program's leaves, and the epoch stays.          *)
Follows(c, t) ==
  CASE t.branchDelay                  -> [at |-> c.due.after, after |-> NoAddress]
    [] ~t.branchDelay /\ Branches(t)  -> [at |-> Plus(t.pc, 1), after |-> Target(t)]
    [] ~t.branchDelay /\ ~Branches(t) -> [at |-> Plus(t.pc, 1), after |-> NoAddress]

Missed(c, t) == Branches(t) /\ c.predictionCheck[1].target # Target(t)

Retires(c, x, t) ==
  /\ x.epoch = c.epoch /\ x.newEpoch = IF Missed(c, t) THEN <<Later(c.epoch, 1)>> ELSE <<>>
  /\ ~t.branchDelay => x.pc = Target(t)
  /\ x.due = Follows(c, t)

LEMMA RetireDue ==
  ASSUME NEW c, NEW x, NEW t \in Token, Retires(c, x, t), t.branchDelay <=> c.due.after # NoAddress
  PROVE  /\ x.due.at = IF c.due.after # NoAddress THEN c.due.after ELSE Plus(t.pc, 1)
         /\ (x.due.after # NoAddress <=> Branches(t))
         /\ Branches(t) => x.due.after = Target(t) /\ x.due.at = Plus(t.pc, 1) /\ x.pc = Target(t)
         /\ (x.newEpoch = <<>> <=> ~Missed(c, t))
         /\ x.newEpoch # <<>> => x.newEpoch = <<Later(c.epoch, 1)>> /\ Branches(t)
<1>1. Target(t) # NoAddress
  BY TargetTyped, PipelineAssumption
<1>2. Branches(t) => ~t.branchDelay
  BY DEF Branches
<1>3. <<Later(c.epoch, 1)>> # <<>>
  OBVIOUS
<1>4. x.newEpoch = IF Missed(c, t) THEN <<Later(c.epoch, 1)>> ELSE <<>>
  BY DEF Retires
<1>5. Missed(c, t) => Branches(t)
  BY DEF Missed
<1>6. t.branchDelay \in BOOLEAN /\ x.due = Follows(c, t) /\ (~t.branchDelay => x.pc = Target(t))
  BY DEF Token, Retires
<1>7. CASE t.branchDelay
  <2>1. x.due = [at |-> c.due.after, after |-> NoAddress]
    BY <1>6, <1>7 DEF Follows
  <2> QED BY <1>2, <1>3, <1>4, <1>5, <1>7, <2>1
<1>8. CASE ~t.branchDelay /\ Branches(t)
  <2>1. x.due = [at |-> Plus(t.pc, 1), after |-> Target(t)]
    BY <1>6, <1>8 DEF Follows
  <2> QED BY <1>1, <1>3, <1>4, <1>5, <1>6, <1>8, <2>1
<1>9. CASE ~t.branchDelay /\ ~Branches(t)
  <2>1. x.due = [at |-> Plus(t.pc, 1), after |-> NoAddress]
    BY <1>6, <1>9 DEF Follows
  <2> QED BY <1>3, <1>4, <1>5, <1>9, <2>1
<1> QED BY <1>7, <1>8, <1>9

LEMMA TwoNotNone ==
  ASSUME NEW q \in Seq(Prediction), Len(q) = 2
  PROVE  q # <<>>
OBVIOUS

LEMMA RetireControl ==
  ASSUME Epochs >= 4, NEW p, NEW k, NEW c, NEW x, NEW z, Completing(p, k, c, x, z),
         NEW s, s = k + 1, Control(p, 1, s, c), 1 = FirstOf(p), c.epoch \in Epoch,
         NEW t, t = p[1], t.epoch = c.epoch, c.newEpoch = <<>>, Retires(c, x, t)
  PROVE  /\ t.pc = c.due.at /\ (t.branchDelay <=> c.due.after # NoAddress)
         /\ Control(z, 1, k, x)
<1> DEFINE n == Len(p)
           e == c.epoch
<1> HIDE DEF n
<1>0. n = Len(p)
  BY DEF n
<1>1. /\ n \in Nat /\ n >= 1
      /\ z \in Seq(Token) /\ Len(z) = n - 1
      /\ \A i \in 1 .. n - 1 : z[i] = p[i + 1]
      /\ k \in Nat /\ s <= n
      /\ \A i \in 1 .. k : x.predictionCheck[i] = c.predictionCheck[i + 1]
      /\ Len(c.predictions) + n = s + 2 /\ Len(c.predictions) \in Nat
  <2>1. Completed(p, k, c, x, z, n)
    BY <1>0, CompletedShape
  <2> QED BY <2>1 DEF Completed
<1>2. ~p[1].fromDebug /\ Debugged(z, x) /\ Checked(z, k, x) /\ Counted(z, 1, k, x)
  BY <1>0, CompletedShape
<1>3. /\ x.specPc = c.specPc /\ x.issueEpoch = c.issueEpoch /\ x.flushCount = c.flushCount
      /\ x.state = c.state /\ x.lastWasBranch = c.lastWasBranch /\ x.lastEpoch = c.lastEpoch
      /\ x.predictions = c.predictions /\ x.epoch = e
  BY DEF Completing, Retires
<1>4. \A i \in 1 .. n - 1 : i + 1 \in 1 .. n /\ z[i] = p[i + 1]
  BY <1>1
<1>5. 1 \in 1 .. n /\ 1 \in 1 .. s /\ s >= 1 /\ ~(s < 1) /\ t \in Token
  <2>1. 1 \in 1 .. n /\ 1 \in 1 .. s /\ s >= 1 /\ ~(s < 1)
    BY <1>1
  <2> QED BY <1>0, <2>1 DEF Completing
<1>6. c.issueEpoch = e /\ \A i \in 1 .. n : p[i].epoch = e
  <2>1. \A i \in 1 .. n : 1 <= i
    BY <1>1
  <2> QED BY <1>0, <1>5, <2>1 DEF Control, Issuing, Latest
<1>7. t.branchDelay <=> c.due.after # NoAddress
  BY <1>5 DEF Control, Delays
<1>8. t.pc = c.due.at
  BY <1>0, <1>5 DEF Control, Path, OnPath
<1>9. t.inst = Code[t.pc] /\ t.pc \in Address
  BY <1>0, <1>2, <1>5 DEF Control, Debugged, Token
<1>10. /\ x.due.at = IF c.due.after # NoAddress THEN c.due.after ELSE Plus(t.pc, 1)
       /\ (x.due.after # NoAddress <=> Branches(t))
       /\ Branches(t) => x.due.after = Target(t) /\ x.due.at = Plus(t.pc, 1) /\ x.pc = Target(t)
       /\ (x.newEpoch = <<>> <=> ~Missed(c, t))
       /\ x.newEpoch # <<>> => x.newEpoch = <<Later(c.epoch, 1)>> /\ Branches(t)
  BY <1>5, <1>7, RetireDue
<1>11. x.newEpoch = <<>> /\ Branches(t) => c.predictionCheck[1].target = x.due.after
  BY <1>10 DEF Missed
<1>12. Issuing(z, x)
  <2>1. \A i \in 1 .. n - 1 : z[i].epoch = e
    BY <1>4, <1>6
  <2> QED BY <1>1, <1>3, <1>6, <2>1 DEF Issuing, Latest
<1>13. Delays(z, 1, k, x)
  <2>1. ASSUME NEW i \in 1 .. k
        PROVE  z[i].branchDelay <=> IF i = 1 THEN x.due.after # NoAddress
                                    ELSE z[i - 1].epoch = e /\ Branches(z[i - 1])
    <3> DEFINE j == i + 1
               h == i - 1
    <3>1. i \in 1 .. n - 1 /\ j \in 1 .. s /\ j - 1 = i /\ j # 1 /\ j \in 1 .. n /\ i \in 1 .. n
      BY <1>1
    <3>2. z[i] = p[j]
      BY <1>4, <3>1
    <3>3. p[j].branchDelay <=> Branches(p[i])
      <4> HIDE DEF j, h
      <4> QED BY <1>6, <3>1, <3>2 DEF Control, Delays
    <3>4. i # 1 => h \in 1 .. n - 1 /\ h + 1 = i
      BY <1>1, <3>1
    <3>5. i # 1 => z[h] = p[i]
      <4> HIDE DEF h
      <4> QED BY <1>4, <3>4
    <3> QED BY <1>6, <1>10, <3>1, <3>2, <3>3, <3>5
  <2>2. (c.lastWasBranch <=> Branches(p[s])) /\ c.lastEpoch = p[s].epoch
    BY <1>5 DEF Control, Delays
  <2>3. k >= 1 => z[k] = p[s]
    BY <1>1
  <2>4. k < 1 => p[s] = t
    BY <1>1
  <2> QED BY <1>3, <1>10, <2>1, <2>2, <2>3, <2>4 DEF Delays
<1>14. Path(z, 1, x)
  <2> SUFFICES ASSUME NEW i \in 1 .. n - 1, z[i].epoch = e PROVE OnPath(z, 1, x, i)
    BY <1>1, <1>3 DEF Path
  <2> DEFINE j == i + 1
             h == i - 1
             l == i - 2
  <2>1. j \in 1 .. n /\ j - 1 = i /\ z[i] = p[j] /\ j \in Int /\ j # 1 /\ i \in 1 .. n
        /\ (i = 1 <=> j = 1 + 1) /\ (i # 1 <=> j > 1 + 1)
    BY <1>1, <1>4
  <2>2. /\ i # 1 => h \in 1 .. n - 1 /\ h + 1 = i
        /\ i > 2 => l \in 1 .. k /\ l \in 1 .. n - 1 /\ l + 1 = h
        /\ j - 2 = h
    BY <1>1
  <2>3. /\ i # 1 => z[h] = p[i]
        /\ i > 2 => z[l] = p[h] /\ x.predictionCheck[l] = c.predictionCheck[h]
    <3> HIDE DEF h, l
    <3> QED BY <1>1, <1>4, <2>2
  <2>4. (i = 2 => h = 1) /\ (i = 1 + 1 <=> i = 2) /\ (i > 1 + 1 <=> i > 2)
        /\ (i = 2 => i # 1) /\ (i > 2 => i # 1) /\ (i # 1 => i > 2 \/ i = 2)
    BY <1>1
  <2> HIDE DEF j
  <2>5. OnPath(p, 1, c, j)
    BY <1>0, <1>6, <2>1 DEF Control, Path
  <2>6. /\ i = 1 => IF c.due.after # NoAddress THEN p[j].pc = c.due.after
                    ELSE p[j].pc = Plus(p[1].pc, 1)
        /\ i # 1 => p[j].pc = IF Branches(p[h])
                              THEN c.predictionCheck[h].target ELSE Plus(p[i].pc, 1)
    <3>1. p[i].epoch = e /\ (i # 1 => p[h].epoch = e)
      <4>1. i # 1 => h \in 1 .. n
        BY <1>1, <2>2
      <4> HIDE DEF h
      <4> QED BY <1>6, <2>1, <4>1
    <3> HIDE DEF h
    <3> QED BY <2>1, <2>2, <2>5, <3>1 DEF OnPath
  <2> HIDE DEF h, l
  <2>7. i # 1 => z[h].epoch = e
    BY <1>6, <2>1, <2>3
  <2>a. i > 2 => z[l].epoch = e
    <3>1. i > 2 => l + 1 \in 1 .. n /\ z[l] = p[l + 1]
      BY <1>4, <2>2
    <3> QED BY <1>6, <3>1
  <2>8. i = 1 => z[i].pc = x.due.at
    BY <1>10, <2>1, <2>6
  <2>9. i = 2 => IF x.due.after # NoAddress THEN x.newEpoch = <<>> => z[i].pc = x.due.after
                 ELSE z[i].pc = Plus(z[h].pc, 1)
    <3> SUFFICES ASSUME i = 2
                 PROVE  IF x.due.after # NoAddress THEN x.newEpoch = <<>> => z[i].pc = x.due.after
                        ELSE z[i].pc = Plus(z[h].pc, 1)
      OBVIOUS
    <3>1. z[h] = p[i] /\ p[h] = t /\ h = 1 /\ z[i] = p[j]
      BY <2>1, <2>3, <2>4
    <3>2. z[i].pc = IF Branches(t) THEN c.predictionCheck[1].target ELSE Plus(z[h].pc, 1)
      BY <2>4, <2>6, <3>1
    <3> QED BY <1>10, <1>11, <3>2
  <2>10. i > 2 => z[i].pc = IF z[l].epoch = e /\ Branches(z[l])
                            THEN x.predictionCheck[l].target ELSE Plus(z[h].pc, 1)
    BY <2>1, <2>3, <2>4, <2>6, <2>a
  <2> QED BY <1>3, <2>4, <2>7, <2>8, <2>9, <2>10 DEF OnPath, h, l
<1>15. ASSUME NEW m \in 1 .. Len(c.predictions)
       PROVE  /\ n + m - 2 \in Int /\ (n - 1) + m - 2 = (n + m - 2) - 1
              /\ Foreseen(p, 1, s, c, n + m - 2, c.predictions[m])
  BY <1>1 DEF Control, Predicted, n
<1>16. Predicted(z, 1, k, x)
  <2> SUFFICES ASSUME NEW m \in 1 .. Len(c.predictions)
               PROVE  Foreseen(z, 1, k, x, (n - 1) + m - 2, c.predictions[m])
    BY <1>1, <1>3 DEF Predicted
  <2> DEFINE j == n + m - 2
             i == (n - 1) + m - 2
             q == c.predictions[m]
  <2>1. j \in Int /\ i = j - 1 /\ Foreseen(p, 1, s, c, j, q)
    BY <1>15
  <2> HIDE DEF i, j, q
  <2>2. i \in Int /\ j = i + 1 /\ (i >= 1 => j >= 1) /\ (i = 1 - 1 => j = 1 /\ j >= 1)
    BY <2>1
  <2>3. j >= 1 => /\ j <= s /\ (q.takeTarget <=> Branches(p[j]))
                  /\ q.specTarget = c.predictionCheck[j].target /\ q.epoch = p[j].epoch
    BY <2>1 DEF Foreseen
  <2>4. i >= 1 => /\ i <= k /\ (q.takeTarget <=> Branches(z[i]))
                  /\ q.specTarget = x.predictionCheck[i].target /\ q.epoch = z[i].epoch
    <3> SUFFICES ASSUME i >= 1
                 PROVE  /\ i <= k /\ (q.takeTarget <=> Branches(z[i]))
                        /\ q.specTarget = x.predictionCheck[i].target /\ q.epoch = z[i].epoch
      OBVIOUS
    <3>1. i \in 1 .. k /\ i \in 1 .. n - 1
      BY <1>1, <2>2, <2>3
    <3> QED BY <1>1, <2>2, <2>3, <3>1
  <2>5. i = 1 - 1 => /\ Usable(q, e) <=> x.due.after # NoAddress
                     /\ x.due.after # NoAddress /\ x.newEpoch = <<>> => q.specTarget = x.due.after
    BY <1>10, <1>11, <2>2, <2>3 DEF Usable
  <2>6. Foreseen(z, 1, k, x, i, q)
    BY <1>3, <2>4, <2>5 DEF Foreseen
  <2> QED BY <2>6 DEF i, q
<1>17. Resumes(z, 1, x)
  <2>1. ASSUME n - 1 >= 1
        PROVE  x.specPc = IF z[n - 1].epoch = e THEN Plus(z[n - 1].pc, 1) ELSE x.due.at
    <3>1. n >= 1 /\ z[n - 1] = p[n] /\ n \in 1 .. n
      BY <1>1, <2>1
    <3>2. c.specPc = Plus(p[n].pc, 1)
      BY <1>0, <1>6, <3>1 DEF Control, Resumes
    <3> QED BY <1>3, <1>6, <3>1, <3>2
  <2>2. ASSUME n - 1 < 1
        PROVE  IF c.predictions # <<>> /\ Usable(c.predictions[1], e)
               THEN c.predictions[1].specTarget = x.due.at ELSE c.specPc = x.due.at
    <3>0. n = 1 /\ s = 1
      BY <1>1, <2>2
    <3>a. Len(c.predictions) = 2
      <4> DEFINE l == Len(c.predictions)
      <4>1. l + n = s + 2 /\ l \in Nat
        BY <1>1
      <4> HIDE DEF l
      <4>2. l = 2
        BY <3>0, <4>1
      <4> QED BY <4>2 DEF l
    <3>1. n = 1 /\ n >= 1 /\ n + 1 - 2 = 0 /\ 0 = 1 - 1 /\ ~(0 >= 1)
          /\ 1 \in 1 .. Len(c.predictions)
      BY <3>0, <3>a
    <3>2. c.predictions # <<>>
      <4>1. c.predictions \in Seq(Prediction)
        BY DEF Completing
      <4> QED BY <3>a, <4>1, TwoNotNone
    <3>3. c.specPc = Plus(t.pc, 1)
      BY <1>0, <1>6, <3>1 DEF Control, Resumes
    <3>4. Foreseen(p, 1, s, c, 0, c.predictions[1])
      BY <1>15, <3>1
    <3>5. /\ Usable(c.predictions[1], e) <=> c.due.after # NoAddress
          /\ c.due.after # NoAddress => c.predictions[1].specTarget = c.due.after
      BY <3>1, <3>4 DEF Foreseen
    <3> QED BY <1>10, <3>2, <3>3, <3>5
  <2> QED BY <1>1, <1>3, <1>6, <2>1, <2>2 DEF Resumes
<1>18. DelaySlot(z, 1, x)
  <2>1. ASSUME x.due.after # NoAddress PROVE Code[x.due.at].kind # "eret"
    BY <1>9, <1>10, <2>1, CodeAssumption DEF Branches
  <2>2. n - 1 >= 1 => z[1].epoch = e
    BY <1>1, <1>4, <1>6
  <2>3. x.newEpoch # <<>> => x.newEpoch = <<Later(e, 1)>> /\ x.due.after # NoAddress /\ x.pc = x.due.after
    BY <1>10
  <2> QED BY <1>1, <1>3, <1>6, <2>1, <2>2, <2>3 DEF DelaySlot
<1>19. Ages(z, 1, k, x)
  <2>1. Behind(c.issueEpoch, e, 2) /\ \A i \in 1 .. n : Behind(p[i].epoch, e, 2)
    BY DEF Control, Ages, n
  <2>2. Behind(e, e, 2)
    BY LaterFacts
  <2>3. ASSUME k < 1 PROVE Behind(c.lastEpoch, e, 2)
    <3>1. s = 1
      BY <1>1, <2>3
    <3> QED BY <1>5, <2>2, <3>1 DEF Control, Delays
  <2>4. ASSUME NEW m \in 1 .. Len(c.predictions), (n - 1) + m - 2 = 1 - 1
        PROVE  Behind(c.predictions[m].epoch, e, 2)
    <3> DEFINE j == n + m - 2
    <3>1. j = 1 /\ Foreseen(p, 1, s, c, j, c.predictions[m])
      BY <1>15, <2>4
    <3> HIDE DEF j
    <3>2. c.predictions[m].epoch = e
      BY <3>1 DEF Foreseen
    <3> QED BY <2>2, <3>2
  <2> QED BY <1>1, <1>3, <1>4, <2>1, <2>3, <2>4 DEF Ages
<1> QED BY <1>2, <1>7, <1>8, <1>12, <1>13, <1>14, <1>16, <1>17, <1>18, <1>19 DEF Control

(* A live instruction leaves and begins a new epoch: the rest are dead.    *)
Restarts(c, x, g) ==
  /\ x.epoch \in { Later(c.epoch, 1), Later(c.epoch, 2) } /\ (g = 2 => x.epoch = Later(c.epoch, 1))
  /\ x.newEpoch = <<>> /\ x.pc = x.due.at /\ x.due.after = NoAddress

LEMMA RestartControl ==
  ASSUME Epochs >= 4, NEW p, NEW k, NEW c, NEW x, NEW z, Completing(p, k, c, x, z),
         NEW g, g = FirstOf(p), NEW s, s = k + 1, Control(p, g, s, c), c.epoch \in Epoch,
         p[1].epoch = c.epoch, Restarts(c, x, g)
  PROVE  /\ c.issueEpoch = c.epoch /\ \A i \in 1 .. Len(p) : p[i].epoch = c.epoch
         /\ Control(z, 1, k, x)
<1> DEFINE n == Len(p)
           e == c.epoch
           f == x.epoch
<1> HIDE DEF n
<1>0. n = Len(p)
  BY DEF n
<1>1. /\ n \in Nat /\ n >= 1
      /\ z \in Seq(Token) /\ Len(z) = n - 1
      /\ \A i \in 1 .. n - 1 : z[i] = p[i + 1]
      /\ k \in Nat /\ s <= n
      /\ \A i \in 1 .. k : x.predictionCheck[i] = c.predictionCheck[i + 1]
      /\ Len(c.predictions) + n = s + 2 /\ Len(c.predictions) \in Nat
  <2>1. Completed(p, k, c, x, z, n)
    BY <1>0, CompletedShape
  <2>2. n \in Nat /\ k \in Nat /\ k + 1 <= n
        /\ Len(c.predictions) + n = k + 3 /\ Len(c.predictions) \in Nat
    BY <2>1 DEF Completed
  <2>3. s <= n /\ n >= 1 /\ Len(c.predictions) + n = s + 2
    BY <2>2
  <2> QED BY <2>1, <2>2, <2>3 DEF Completed
<1>2. g \in 1 .. 2 /\ Debugged(z, x) /\ Checked(z, k, x) /\ Counted(z, 1, k, x)
  BY <1>0, CompletedShape
<1>3. /\ x.specPc = c.specPc /\ x.issueEpoch = c.issueEpoch /\ x.flushCount = c.flushCount
      /\ x.state = c.state /\ x.lastWasBranch = c.lastWasBranch /\ x.lastEpoch = c.lastEpoch
      /\ x.predictions = c.predictions
  BY DEF Completing
<1>4. \A i \in 1 .. n - 1 : i + 1 \in 1 .. n /\ z[i] = p[i + 1]
  BY <1>1
<1>5. /\ f \in Epoch /\ f # e /\ Behind(e, f, 2) /\ (g = 2 => f = Later(e, 1))
      /\ x.newEpoch = <<>> /\ x.pc = x.due.at /\ x.due.after = NoAddress
  BY LaterFacts DEF Restarts
<1>6. c.issueEpoch = e /\ \A i \in 1 .. n : p[i].epoch = e
  <2>1. 1 \in 1 .. n /\ \A i \in 1 .. n : 1 <= i
    BY <1>1
  <2> QED BY <1>0, <2>1 DEF Control, Issuing, Latest
<1>7. \A i \in 1 .. n - 1 : z[i].epoch = e
  BY <1>4, <1>6
<1>8. Fresh(p, g, c)
  <2>1. n >= g => g \in 1 .. n
    BY <1>1, <1>2
  <2> QED BY <1>0, <1>6, <2>1 DEF Fresh
<1>9. Issuing(z, x)
  BY <1>1, <1>5, <1>7 DEF Issuing, Latest
<1>10. Delays(z, 1, k, x)
  <2>1. ASSUME NEW i \in 1 .. k PROVE z[i].epoch # f
    <3>1. i \in 1 .. n - 1
      BY <1>1
    <3> QED BY <1>5, <1>7, <3>1
  <2>2. ASSUME k >= 1 PROVE (c.lastWasBranch <=> Branches(z[k])) /\ c.lastEpoch = z[k].epoch
    <3>1. s >= g /\ z[k] = p[s]
      BY <1>1, <1>2, <2>2
    <3> QED BY <3>1 DEF Control, Delays
  <2>3. ASSUME k < 1 PROVE c.lastEpoch # f
    <3>1. s = 1
      BY <1>1, <2>3
    <3>2. CASE g = 1
      <4>1. s >= g /\ 1 \in 1 .. n
        BY <1>1, <3>1, <3>2
      <4>2. c.lastEpoch = e
        BY <1>6, <3>1, <4>1 DEF Control, Delays
      <4> QED BY <1>5, <4>2
    <3>3. CASE g = 2
      <4>1. s < g
        BY <3>1, <3>3
      <4>2. Behind(c.lastEpoch, e, 2)
        BY <1>8, <4>1 DEF Control, Ages
      <4> QED BY <1>5, <3>3, <4>2, BehindNext
    <3> QED BY <1>2, <3>2, <3>3
  <2> QED BY <1>3, <1>5, <2>1, <2>2, <2>3 DEF Delays
<1>11. Path(z, 1, x)
  BY <1>1, <1>5, <1>7 DEF Path
<1>12. ASSUME NEW m \in 1 .. Len(c.predictions)
       PROVE  /\ n + m - 2 \in Int /\ (n - 1) + m - 2 = (n + m - 2) - 1
              /\ Foreseen(p, g, s, c, n + m - 2, c.predictions[m])
  BY <1>1 DEF Control, Predicted, n
<1>13. Predicted(z, 1, k, x)
  <2> SUFFICES ASSUME NEW m \in 1 .. Len(c.predictions)
               PROVE  Foreseen(z, 1, k, x, (n - 1) + m - 2, c.predictions[m])
    BY <1>1, <1>3 DEF Predicted
  <2> DEFINE j == n + m - 2
             i == (n - 1) + m - 2
             q == c.predictions[m]
  <2>1. j \in Int /\ i = j - 1 /\ Foreseen(p, g, s, c, j, q)
    BY <1>12
  <2>a. j = g - 1 => Behind(q.epoch, e, 2)
    BY <1>0, <1>8 DEF Control, Ages
  <2> HIDE DEF i, j, q
  <2>2. i \in Int /\ j = i + 1 /\ (i >= 1 => j >= g) /\ (i = 1 - 1 => j = 1)
    BY <1>2, <2>1
  <2>3. j >= g => /\ j <= s /\ (q.takeTarget <=> Branches(p[j]))
                  /\ q.specTarget = c.predictionCheck[j].target /\ q.epoch = p[j].epoch
    BY <2>1 DEF Foreseen
  <2>4. i >= 1 => /\ i <= k /\ (q.takeTarget <=> Branches(z[i]))
                  /\ q.specTarget = x.predictionCheck[i].target /\ q.epoch = z[i].epoch
    <3> SUFFICES ASSUME i >= 1
                 PROVE  /\ i <= k /\ (q.takeTarget <=> Branches(z[i]))
                        /\ q.specTarget = x.predictionCheck[i].target /\ q.epoch = z[i].epoch
      OBVIOUS
    <3>1. i \in 1 .. k /\ i \in 1 .. n - 1
      BY <1>1, <2>2, <2>3
    <3> QED BY <1>1, <2>2, <2>3, <3>1
  <2>5. ASSUME i = 1 - 1 PROVE ~Usable(q, f)
    <3>1. CASE g = 1
      <4>1. q.epoch = p[1].epoch
        BY <2>2, <2>3, <2>5, <3>1
      <4> QED BY <1>5, <4>1 DEF Usable
    <3>2. CASE g = 2
      <4>1. q.epoch # f
        BY <1>5, <2>2, <2>5, <2>a, <3>2, BehindNext
      <4> QED BY <4>1 DEF Usable
    <3> QED BY <1>2, <3>1, <3>2
  <2>6. Foreseen(z, 1, k, x, i, q)
    BY <1>5, <2>4, <2>5 DEF Foreseen
  <2> QED BY <2>6 DEF i, q
<1>14. Resumes(z, 1, x) /\ DelaySlot(z, 1, x)
  BY <1>3, <1>5, <1>6 DEF Resumes, DelaySlot
<1>15. Ages(z, 1, k, x)
  <2>1. ~Fresh(z, 1, x)
    BY <1>3, <1>5, <1>6 DEF Fresh
  <2> QED BY <1>1, <1>3, <1>5, <1>6, <1>7, <2>1 DEF Ages
<1>16. \A i \in 1 .. Len(p) : p[i].epoch = c.epoch
  BY <1>0, <1>6
<1> QED BY <1>2, <1>6, <1>9, <1>10, <1>11, <1>13, <1>14, <1>15, <1>16 DEF Control

-----------------------------------------------------------------------------
(* The pipeline as a sequence of instructions, oldest first.               *)
LEMMA ChainIs ==
  ASSUME NEW a \in Seq(Token), NEW b \in Seq(Token), NEW c \in Seq(Token), NEW d \in Seq(Token),
         NEW e \in Seq(Token), NEW f \in Seq(Token)
  PROVE  /\ Chain(a, b, c, d, e, f) \in Seq(Token)
         /\ Len(Chain(a, b, c, d, e, f)) = Len(a) + Len(b) + Len(c) + Len(d) + Len(e) + Len(f)
         /\ Chain(a, b, c, d, e, f) = (a \o b) \o (c \o (d \o (e \o f)))
         /\ Chain(a, b, c, d, e, f) = (a \o (b \o c)) \o (d \o (e \o f))
         /\ Chain(a, b, c, d, e, f) = (a \o (b \o (c \o d))) \o (e \o f)
         /\ Chain(a, b, c, d, e, f) = (a \o (b \o (c \o (d \o e)))) \o f
         /\ Len(a \o b) = Len(a) + Len(b) /\ a \o b \in Seq(Token)
         /\ Len(a \o (b \o (c \o (d \o e)))) = Len(a) + Len(b) + Len(c) + Len(d) + Len(e)
         /\ a \o (b \o (c \o (d \o e))) \in Seq(Token)
         /\ a \o (b \o (c \o d)) \in Seq(Token) /\ a \o (b \o c) \in Seq(Token)
<1>1. /\ Len(a) \in Nat /\ Len(b) \in Nat /\ Len(c) \in Nat /\ Len(d) \in Nat /\ Len(e) \in Nat
      /\ Len(f) \in Nat
  OBVIOUS
<1>2. e \o f \in Seq(Token) /\ Len(e \o f) = Len(e) + Len(f)
  BY ConcatProperties
<1>3. d \o (e \o f) \in Seq(Token) /\ Len(d \o (e \o f)) = Len(d) + Len(e \o f)
      /\ d \o e \in Seq(Token) /\ Len(d \o e) = Len(d) + Len(e)
  BY <1>2, ConcatProperties
<1>4. c \o (d \o (e \o f)) \in Seq(Token) /\ Len(c \o (d \o (e \o f))) = Len(c) + Len(d \o (e \o f))
      /\ c \o (d \o e) \in Seq(Token) /\ Len(c \o (d \o e)) = Len(c) + Len(d \o e)
      /\ c \o d \in Seq(Token)
  BY <1>3, ConcatProperties
<1>5. /\ b \o (c \o (d \o (e \o f))) \in Seq(Token)
      /\ Len(b \o (c \o (d \o (e \o f)))) = Len(b) + Len(c \o (d \o (e \o f)))
      /\ b \o (c \o (d \o e)) \in Seq(Token)
      /\ Len(b \o (c \o (d \o e))) = Len(b) + Len(c \o (d \o e))
      /\ b \o c \in Seq(Token) /\ b \o (c \o d) \in Seq(Token)
  BY <1>4, ConcatProperties
<1>6. /\ a \o (b \o (c \o (d \o (e \o f)))) \in Seq(Token)
      /\ Len(a \o (b \o (c \o (d \o (e \o f))))) = Len(a) + Len(b \o (c \o (d \o (e \o f))))
      /\ a \o (b \o (c \o (d \o e))) \in Seq(Token)
      /\ Len(a \o (b \o (c \o (d \o e)))) = Len(a) + Len(b \o (c \o (d \o e)))
      /\ a \o b \in Seq(Token) /\ Len(a \o b) = Len(a) + Len(b)
      /\ a \o (b \o (c \o d)) \in Seq(Token) /\ a \o (b \o c) \in Seq(Token)
  BY <1>5, ConcatProperties
<1>7. /\ (a \o b) \o (c \o (d \o (e \o f))) = a \o (b \o (c \o (d \o (e \o f))))
      /\ (a \o (b \o c)) \o (d \o (e \o f)) = a \o (b \o (c \o (d \o (e \o f))))
      /\ (a \o (b \o (c \o d))) \o (e \o f) = a \o (b \o (c \o (d \o (e \o f))))
      /\ (a \o (b \o (c \o (d \o e)))) \o f = a \o (b \o (c \o (d \o (e \o f))))
  <2>1. LET s == Joined(a, Joined(b, Joined(c, Joined(d, Joined(e, f))))) IN
        /\ Joined(Joined(a, b), Joined(c, Joined(d, Joined(e, f)))) = s
        /\ Joined(Joined(a, Joined(b, c)), Joined(d, Joined(e, f))) = s
        /\ Joined(Joined(a, Joined(b, Joined(c, d))), Joined(e, f)) = s
        /\ Joined(Joined(a, Joined(b, Joined(c, Joined(d, e)))), f) = s
    BY RegroupJoined, SMTT(30)
  <2> QED BY <2>1 DEF Joined
<1>8. Len(a \o (b \o (c \o (d \o (e \o f))))) = Len(a) + Len(b) + Len(c) + Len(d) + Len(e) + Len(f)
       /\ Len(a \o (b \o (c \o (d \o e)))) = Len(a) + Len(b) + Len(c) + Len(d) + Len(e)
  BY <1>1, <1>2, <1>3, <1>4, <1>5, <1>6
<1> QED BY <1>6, <1>7, <1>8 DEF Chain

LEMMA ChainJoined ==
  ASSUME NEW a, NEW b, NEW c, NEW d, NEW e, NEW f
  PROVE  Chain(a, b, c, d, e, f) = Joined(a, Joined(b, Joined(c, Joined(d, Joined(e, f)))))
BY DEF Chain, Joined

(* An element goes to the end. *)
FetchesOne(a, b, c, d, e, f, t) ==
  Chain(a, b, c, d, e, Append(f, t)) = Append(Chain(a, b, c, d, e, f), t)

LEMMA ChainFetch ==
  ASSUME NEW a \in Seq(Token), NEW b \in Seq(Token), NEW c \in Seq(Token), NEW d \in Seq(Token),
         NEW e \in Seq(Token), NEW f \in Seq(Token), NEW t \in Token
  PROVE  FetchesOne(a, b, c, d, e, f, t)
<1>1. Joined(e, f) \in Seq(Token)
  BY JoinedTyped
<1>2. Joined(d, Joined(e, f)) \in Seq(Token)
  BY <1>1, JoinedTyped
<1>3. Joined(c, Joined(d, Joined(e, f))) \in Seq(Token)
  BY <1>2, JoinedTyped
<1>4. Joined(b, Joined(c, Joined(d, Joined(e, f)))) \in Seq(Token)
  BY <1>3, JoinedTyped
<1>5. Joined(e, Append(f, t)) = Append(Joined(e, f), t)
  BY JoinedAppend
<1>6. Joined(d, Joined(e, Append(f, t))) = Append(Joined(d, Joined(e, f)), t)
  BY <1>1, <1>5, JoinedAppend
<1>7. Joined(c, Joined(d, Joined(e, Append(f, t)))) = Append(Joined(c, Joined(d, Joined(e, f))), t)
  BY <1>2, <1>6, JoinedAppend
<1>8. Joined(b, Joined(c, Joined(d, Joined(e, Append(f, t)))))
      = Append(Joined(b, Joined(c, Joined(d, Joined(e, f)))), t)
  BY <1>3, <1>7, JoinedAppend
<1>9. Joined(a, Joined(b, Joined(c, Joined(d, Joined(e, Append(f, t))))))
      = Append(Joined(a, Joined(b, Joined(c, Joined(d, Joined(e, f))))), t)
  BY <1>4, <1>8, JoinedAppend
<1> QED BY <1>9, ChainJoined DEF FetchesOne

LastIs(a, b, c, d, e, f) ==
  Joined(Joined(a, Joined(b, Joined(c, Joined(d, e)))), f) = Chain(a, b, c, d, e, f)

LEMMA JoinedLast ==
  ASSUME NEW a \in Seq(Token), NEW b \in Seq(Token), NEW c \in Seq(Token), NEW d \in Seq(Token),
         NEW e \in Seq(Token), NEW f \in Seq(Token)
  PROVE  LastIs(a, b, c, d, e, f)
<1>1. Joined(Joined(a, Joined(b, Joined(c, Joined(d, e)))), f)
      = Joined(a, Joined(b, Joined(c, Joined(d, Joined(e, f)))))
  BY RegroupJoined, SMTT(30)
<1> QED BY <1>1, ChainJoined DEF LastIs

LEMMA JoinedFirst ==
  ASSUME NEW a \in Seq(Token), NEW b \in Seq(Token), NEW d \in Seq(Token),
         NEW e \in Seq(Token), NEW f \in Seq(Token)
  PROVE  Chain(a, b, <<>>, d, e, f) = Joined(Joined(a, b), Joined(d, Joined(e, f)))
<1> DEFINE z == Joined(d, Joined(e, f))
<1>1. Joined(e, f) \in Seq(Token)
  BY JoinedTyped
<1>2. z \in Seq(Token)
  BY <1>1, JoinedTyped
<1>3. Chain(a, b, <<>>, d, e, f) = Joined(a, Joined(b, Joined(<<>>, z)))
  BY ChainJoined
<1> HIDE DEF z
<1>4. Joined(<<>>, z) = z
  <2>1. <<>> \o z = z
    BY <1>2, ConcatEmptySeq
  <2> QED BY <2>1 DEF Joined
<1>5. Joined(Joined(a, b), z) = Joined(a, Joined(b, z))
  BY <1>2, JoinedOne
<1>6. Chain(a, b, <<>>, d, e, f) = Joined(Joined(a, b), z)
  BY <1>3, <1>4, <1>5
<1> QED BY <1>6 DEF z

Schedulable(a, b, c, d, e, f, u, i) ==
  /\ i \in 1 .. Len(Chain(a, b, c, d, e, f)) /\ Chain(a, b, c, d, e, f)[i] = f[1]
  /\ Chain(a, b, c, d, Append(e, u), Tail(f)) = [Chain(a, b, c, d, e, f) EXCEPT ![i] = u]

LEMMA ChainSchedule ==
  ASSUME NEW a \in Seq(Token), NEW b \in Seq(Token), NEW c \in Seq(Token), NEW d \in Seq(Token),
         NEW e \in Seq(Token), NEW f \in Seq(Token), f # <<>>, NEW u \in Token,
         NEW i, i = Len(a) + Len(b) + Len(c) + Len(d) + Len(e) + 1
  PROVE  Schedulable(a, b, c, d, e, f, u, i)
<1> DEFINE x == Joined(a, Joined(b, Joined(c, Joined(d, e))))
           m == Append(e, u)
           n == Tail(f)
           y == Append(x, u)
<1>1. Joined(d, e) \in Seq(Token)
  BY JoinedTyped
<1>2. Joined(c, Joined(d, e)) \in Seq(Token)
  BY <1>1, JoinedTyped
<1>3. Joined(b, Joined(c, Joined(d, e))) \in Seq(Token)
  BY <1>2, JoinedTyped
<1>4. x \in Seq(Token)
  BY <1>3, JoinedTyped
<1>5. n \in Seq(Token) /\ m \in Seq(Token)
  OBVIOUS
<1>6. Len(x) = Len(a) + Len(b) + Len(c) + Len(d) + Len(e)
  BY ChainIs DEF Joined
<1>7. Joined(d, m) = Append(Joined(d, e), u)
  BY JoinedAppend
<1>8. Joined(c, Joined(d, m)) = Append(Joined(c, Joined(d, e)), u)
  BY <1>1, <1>7, JoinedAppend
<1>9. Joined(b, Joined(c, Joined(d, m))) = Append(Joined(b, Joined(c, Joined(d, e))), u)
  BY <1>2, <1>8, JoinedAppend
<1>10. Joined(a, Joined(b, Joined(c, Joined(d, m)))) = y
  BY <1>3, <1>9, JoinedAppend
<1>11. Joined(x, f) = Chain(a, b, c, d, e, f)
  BY JoinedLast DEF LastIs
<1>12. Joined(y, n) = Chain(a, b, c, d, m, n)
  <2> HIDE DEF m, n, x, y
  <2>1. Joined(Joined(a, Joined(b, Joined(c, Joined(d, m)))), n) = Chain(a, b, c, d, m, n)
    <3>1. LastIs(a, b, c, d, m, n)
      BY <1>5, JoinedLast, Zenon
    <3> QED BY <3>1 DEF LastIs
  <2> QED BY <2>1, <1>10
<1> HIDE DEF x
<1>13. i = Len(x) + 1
  BY <1>6
<1>15. MovesTo(x, f, u, i)
  BY <1>4, <1>13, MovesToEnd
<1>14. /\ i \in 1 .. Len(Joined(x, f)) /\ Joined(x, f)[i] = f[1]
       /\ Joined(y, n) = [Joined(x, f) EXCEPT ![i] = u]
  BY <1>15 DEF MovesTo
<1> HIDE DEF y, m, n
<1>16. /\ i \in 1 .. Len(Chain(a, b, c, d, e, f)) /\ Chain(a, b, c, d, e, f)[i] = f[1]
       /\ Chain(a, b, c, d, m, n) = [Chain(a, b, c, d, e, f) EXCEPT ![i] = u]
  BY <1>11, <1>12, <1>14
<1> QED BY <1>16 DEF Schedulable, m, n

LEMMA ChainDecode ==
  ASSUME NEW a \in Seq(Token), NEW b \in Seq(Token), NEW c \in Seq(Token), NEW d \in Seq(Token),
         NEW e \in Seq(Token), NEW f \in Seq(Token), e # <<>>
  PROVE  Chain(a, b, c, Append(d, Head(e)), Tail(e), f) = Chain(a, b, c, d, e, f)
<1> DEFINE m == Append(d, Head(e))
           n == Tail(e)
<1>1. m \in Seq(Token) /\ n \in Seq(Token)
  OBVIOUS
<1>2. Joined(m, n) = Joined(d, e)
  BY JoinedSame
<1> HIDE DEF m, n
<1>3. Joined(m, Joined(n, f)) = Joined(d, Joined(e, f))
  BY <1>1, <1>2, JoinedPair
<1>4. Chain(a, b, c, m, n, f) = Chain(a, b, c, d, e, f)
  BY <1>3, ChainJoined
<1> QED BY <1>4 DEF m, n

Executes(a, b, d, e, f, u, i) ==
  /\ i \in 1 .. Len(Chain(a, b, <<>>, d, e, f)) /\ Chain(a, b, <<>>, d, e, f)[i] = d[1]
  /\ Chain(a, Append(b, u), <<>>, Tail(d), e, f) = [Chain(a, b, <<>>, d, e, f) EXCEPT ![i] = u]

LEMMA ChainExecute ==
  ASSUME NEW a \in Seq(Token), NEW b \in Seq(Token), NEW d \in Seq(Token),
         NEW e \in Seq(Token), NEW f \in Seq(Token), d # <<>>, NEW u \in Token,
         NEW i, i = Len(a) + Len(b) + 1
  PROVE  Executes(a, b, d, e, f, u, i)
<1> DEFINE x == Joined(a, b)
           y == Joined(e, f)
           z == Joined(d, y)
           m == Append(b, u)
           n == Tail(d)
           v == Append(x, u)
           w == Tail(z)
<1>1. x \in Seq(Token) /\ y \in Seq(Token)
  BY JoinedTyped
<1>2. n \in Seq(Token) /\ m \in Seq(Token)
  OBVIOUS
<1>3. z \in Seq(Token)
  BY <1>1, JoinedTyped
<1>4. Len(x) = Len(a) + Len(b)
  BY ChainIs DEF Joined
<1>5. z # <<>> /\ z[1] = Head(d) /\ w = Joined(n, y) /\ Head(d) = d[1]
  BY <1>1, JoinedTail
<1>6. Chain(a, b, <<>>, d, e, f) = Joined(x, z)
  BY JoinedFirst
<1>7. Joined(a, m) = v
  BY JoinedAppend
<1>8. Chain(a, m, <<>>, n, e, f) = Joined(v, w)
  <2> HIDE DEF m, n, v, w
  <2>1. Chain(a, m, <<>>, n, e, f) = Joined(Joined(a, m), Joined(n, y))
    BY <1>2, JoinedFirst
  <2> QED BY <2>1, <1>5, <1>7
<1> HIDE DEF x, z
<1>10. i = Len(x) + 1
  BY <1>4
<1>11. MovesTo(x, z, u, i)
  BY <1>1, <1>3, <1>10, <1>5, MovesToEnd
<1>9. /\ i \in 1 .. Len(Joined(x, z)) /\ Joined(x, z)[i] = z[1]
      /\ Joined(v, w) = [Joined(x, z) EXCEPT ![i] = u]
  BY <1>11 DEF MovesTo
<1> HIDE DEF v, w, m, n, y
<1>12. /\ i \in 1 .. Len(Chain(a, b, <<>>, d, e, f)) /\ Chain(a, b, <<>>, d, e, f)[i] = d[1]
       /\ Chain(a, m, <<>>, n, e, f) = [Chain(a, b, <<>>, d, e, f) EXCEPT ![i] = u]
  BY <1>5, <1>6, <1>8, <1>9
<1> QED BY <1>12 DEF Executes, m, n

LEMMA ChainDeliver ==
  ASSUME NEW a \in Seq(Token), NEW b \in Seq(Token), NEW d \in Seq(Token),
         NEW e \in Seq(Token), NEW f \in Seq(Token), NEW u \in Token
  PROVE  Chain(a, Append(b, u), <<>>, d, e, f) = Chain(a, b, << u >>, d, e, f)
<1> DEFINE z == Joined(d, Joined(e, f))
           m == Append(b, u)
           n == << u >>
<1>1. Joined(e, f) \in Seq(Token)
  BY JoinedTyped
<1>2. z \in Seq(Token)
  BY <1>1, JoinedTyped
<1>3. Joined(b, n) = m /\ m \in Seq(Token) /\ n \in Seq(Token)
  BY JoinedWith
<1>4. Chain(a, b, n, d, e, f) = Joined(a, Joined(b, Joined(n, z)))
  BY ChainJoined
<1> HIDE DEF m, n
<1>5. Chain(a, m, <<>>, d, e, f) = Joined(Joined(a, m), z)
  BY <1>3, JoinedFirst
<1> HIDE DEF z
<1>6. Joined(Joined(a, m), z) = Joined(a, Joined(m, z))
  BY <1>2, <1>3, JoinedOne
<1>7. Joined(Joined(b, n), z) = Joined(b, Joined(n, z))
  BY <1>2, <1>3, JoinedOne
<1>8. Chain(a, m, <<>>, d, e, f) = Chain(a, b, n, d, e, f)
  BY <1>3, <1>4, <1>5, <1>6, <1>7
<1> QED BY <1>8 DEF m, n

(* The same with the result kept beside the stage. *)
LEMMA ChainKeep ==
  ASSUME NEW a \in Seq(Token), NEW b \in Seq(Token), NEW d \in Seq(Token),
         NEW e \in Seq(Token), NEW f \in Seq(Token), d # <<>>, NEW u \in Token,
         NEW i, i = Len(a) + Len(b) + 1
  PROVE  Chain(a, b, << u >>, Tail(d), e, f) = [Chain(a, b, <<>>, d, e, f) EXCEPT ![i] = u]
<1> DEFINE n == Tail(d)
<1>1. n \in Seq(Token)
  OBVIOUS
<1>2. Chain(a, Append(b, u), <<>>, n, e, f) = [Chain(a, b, <<>>, d, e, f) EXCEPT ![i] = u]
  <2>1. Executes(a, b, d, e, f, u, i)
    BY ChainExecute, Zenon
  <2> QED BY <2>1 DEF Executes
<1> HIDE DEF n
<1>3. Chain(a, Append(b, u), <<>>, n, e, f) = Chain(a, b, << u >>, n, e, f)
  BY <1>1, ChainDeliver
<1>4. Chain(a, b, << u >>, n, e, f) = [Chain(a, b, <<>>, d, e, f) EXCEPT ![i] = u]
  BY <1>2, <1>3
<1> QED BY <1>4 DEF n

LEMMA ChainAccess ==
  ASSUME NEW a \in Seq(Token), NEW b \in Seq(Token), NEW c \in Seq(Token), NEW d \in Seq(Token),
         NEW e \in Seq(Token), NEW f \in Seq(Token), b # <<>>
  PROVE  Chain(Append(a, Head(b)), Tail(b), c, d, e, f) = Chain(a, b, c, d, e, f)
<1> DEFINE z == Joined(c, Joined(d, Joined(e, f)))
           m == Append(a, Head(b))
           n == Tail(b)
<1>1. Joined(e, f) \in Seq(Token)
  BY JoinedTyped
<1>2. Joined(d, Joined(e, f)) \in Seq(Token)
  BY <1>1, JoinedTyped
<1>3. z \in Seq(Token)
  BY <1>2, JoinedTyped
<1>4. m \in Seq(Token) /\ n \in Seq(Token)
  OBVIOUS
<1>5. Joined(m, n) = Joined(a, b)
  BY JoinedSame
<1> HIDE DEF m, n
<1>6. Chain(m, n, c, d, e, f) = Joined(m, Joined(n, z))
  BY ChainJoined
<1>7. Chain(a, b, c, d, e, f) = Joined(a, Joined(b, z))
  BY ChainJoined
<1> HIDE DEF z
<1>8. Joined(m, Joined(n, z)) = Joined(a, Joined(b, z))
  BY <1>3, <1>4, <1>5, JoinedPair
<1>9. Chain(m, n, c, d, e, f) = Chain(a, b, c, d, e, f)
  BY <1>6, <1>7, <1>8
<1> QED BY <1>9 DEF m, n

Leads(a, b, c, d, e, f) ==
  /\ Chain(a, b, c, d, e, f) # <<>> /\ Chain(a, b, c, d, e, f)[1] = Head(a)
  /\ Chain(Tail(a), b, c, d, e, f) = Tail(Chain(a, b, c, d, e, f))

LEMMA ChainTail ==
  ASSUME NEW a \in Seq(Token), NEW b \in Seq(Token), NEW c \in Seq(Token), NEW d \in Seq(Token),
         NEW e \in Seq(Token), NEW f \in Seq(Token), a # <<>>
  PROVE  Leads(a, b, c, d, e, f)
<1> DEFINE z == Joined(b, Joined(c, Joined(d, Joined(e, f))))
<1>1. Joined(e, f) \in Seq(Token)
  BY JoinedTyped
<1>2. Joined(d, Joined(e, f)) \in Seq(Token)
  BY <1>1, JoinedTyped
<1>3. Joined(c, Joined(d, Joined(e, f))) \in Seq(Token)
  BY <1>2, JoinedTyped
<1>4. z \in Seq(Token)
  BY <1>3, JoinedTyped
<1>5. /\ Joined(a, z) # <<>> /\ Joined(a, z)[1] = Head(a) /\ Tail(Joined(a, z)) = Joined(Tail(a), z)
  BY <1>4, JoinedTail
<1> QED BY <1>5, ChainJoined DEF Leads

-----------------------------------------------------------------------------
(* The invariant of the refinement: what it says of the line.              *)
LEMMA CorrectFrom ==
  ASSUME NEW p, NEW e, NEW r, NEW k, NEW v, Ordered(p, e, r), Unwritten(p, r), Values(p, e, r, k, v)
  PROVE  Correct(p, e, r, k)
BY DEF Correct

LEMMA ChainLen ==
  ASSUME NEW a \in Seq(Token), NEW b \in Seq(Token), NEW c \in Seq(Token), NEW d \in Seq(Token),
         NEW e \in Seq(Token), NEW f \in Seq(Token)
  PROVE  /\ Chain(a, b, c, d, e, f) \in Seq(Token)
         /\ Len(Chain(a, b, c, d, e, f)) = Len(a) + Len(b) + Len(c) + Len(d) + Len(e) + Len(f)
<1> DEFINE v == Joined(e, f)
           w == Joined(d, v)
           x == Joined(c, w)
           y == Joined(b, x)
           z == Joined(a, y)
<1>1. v \in Seq(Token) /\ Len(v) = Len(e) + Len(f) /\ Len(e) \in Nat /\ Len(f) \in Nat
  BY JoinedTyped, JoinedLen
<1>2. w \in Seq(Token) /\ Len(w) = Len(d) + Len(v) /\ Len(d) \in Nat
  BY <1>1, JoinedTyped, JoinedLen
<1>3. x \in Seq(Token) /\ Len(x) = Len(c) + Len(w) /\ Len(c) \in Nat
  BY <1>2, JoinedTyped, JoinedLen
<1>4. y \in Seq(Token) /\ Len(y) = Len(b) + Len(x) /\ Len(b) \in Nat
  BY <1>3, JoinedTyped, JoinedLen
<1>5. z \in Seq(Token) /\ Len(z) = Len(a) + Len(y) /\ Len(a) \in Nat
  BY <1>4, JoinedTyped, JoinedLen
<1>6. Chain(a, b, c, d, e, f) = z
  BY ChainJoined
<1> HIDE DEF v, w, x, y, z
<1>7. Len(z) = Len(a) + Len(b) + Len(c) + Len(d) + Len(e) + Len(f)
  BY <1>1, <1>2, <1>3, <1>4, <1>5
<1> QED BY <1>5, <1>6, <1>7

LEMMA LineTyped ==
  ASSUME IInv
  PROVE  /\ accessed \in Seq(Token) /\ executed \in Seq(Token) /\ pendingOps \in Seq(Token)
         /\ decoded \in Seq(Token) /\ scheduled \in Seq(Token) /\ toScheduler \in Seq(Token)
         /\ Line \in Seq(Token) /\ Past \in Nat /\ Len(Line) = Past + Len(toScheduler)
         /\ Len(toScheduler) \in Nat
<1>1. /\ accessed \in Seq(Token) /\ executed \in Seq(Token) /\ pendingOps \in Seq(Token)
      /\ decoded \in Seq(Token) /\ scheduled \in Seq(Token) /\ toScheduler \in Seq(Token)
  BY DEF IInv, FifosInv, FifoOK
<1>2. /\ Line \in Seq(Token)
      /\ Len(Line) = Len(accessed) + Len(executed) + Len(pendingOps) + Len(decoded) + Len(scheduled)
                     + Len(toScheduler)
  BY <1>1, ChainLen, SMTT(30) DEF Line
<1>3. Past \in Nat
  BY <1>1 DEF Past
<1> QED BY <1>1, <1>2, <1>3 DEF Past

(* Where the register file and the FIFOs agree. *)
LEMMA PastIs ==
  ASSUME IInv, LengthsInv
  PROVE  /\ Wb(rf) \in Nat /\ Len(rf.readReport) \in Nat /\ Len(rf.readReq) \in Nat
         /\ Past = Rd(rf) + Len(rf.readReq) /\ Taking \in Nat /\ Wb(rf) <= Taking
         /\ Taking <= Rd(rf) /\ Rd(rf) \in Nat /\ Past <= Len(Line) /\ Len(Line) \in Nat
         /\ Len(pendingOps) \in 0 .. 1
<1>1. RegFileOK(rf) /\ Len(pendingOps) <= 1
  BY DEF IInv, RegFileInv, FifosInv
<1>2. /\ rf.wbReRegWrite \in Seq(WriteReport) /\ rf.readReport \in Seq(RegReadReport)
      /\ rf.readReq \in Seq(ReadReq)
  BY <1>1 DEF RegFileOK, RegFileState
<1>3. Wb(rf) \in Nat /\ Len(rf.readReport) \in Nat /\ Len(rf.readReq) \in Nat
  BY <1>2 DEF Wb
<1>4. /\ Len(accessed) \in Nat /\ Len(executed) \in Nat /\ Len(pendingOps) \in Nat
      /\ Len(decoded) \in Nat /\ Len(scheduled) \in Nat /\ Len(Line) = Past + Len(toScheduler)
      /\ Len(toScheduler) \in Nat
  BY LineTyped
<1>5. Len(pendingOps) = 1 => Len(rf.readReport) >= 1
  <2> SUFFICES ASSUME Len(pendingOps) = 1 PROVE Len(rf.readReport) >= 1
    OBVIOUS
  <2>1. pendingOps # <<>>
    OBVIOUS
  <2>2. rf.readReport # <<>>
    BY <2>1 DEF LengthsInv
  <2> QED BY <1>2, <2>2
<1> DEFINE a == Len(accessed)
           b == Len(executed)
           c == Len(pendingOps)
           d == Len(decoded)
           e == Len(scheduled)
           w == Wb(rf)
           m == Len(rf.readReport)
           n == Len(rf.readReq)
           x == Past
           y == Rd(rf)
           z == Taking
<1>9. /\ a \in Nat /\ b \in Nat /\ c \in Nat /\ d \in Nat /\ e \in Nat /\ w \in Nat /\ m \in Nat
      /\ n \in Nat /\ a + b = w /\ c + d + e = m + n /\ (c = 1 => m >= 1) /\ c <= 1
      /\ x = a + b + c + d + e /\ y = w + m /\ z = w + c
  BY <1>1, <1>3, <1>4, <1>5 DEF LengthsInv, Past, Rd, Taking
<1> HIDE DEF a, b, c, d, e, w, m, n, x, y, z
<1>10. x = y + n /\ z \in Nat /\ w <= z /\ z <= y /\ y \in Nat /\ x \in Nat
  BY <1>9
<1>11. Len(Line) \in Nat /\ Past <= Len(Line)
  BY <1>4, <1>10 DEF x
<1>6. Past = Rd(rf) + Len(rf.readReq)
  BY <1>10 DEF x, y, n
<1>7. Taking \in Nat /\ Wb(rf) <= Taking /\ Taking <= Rd(rf) /\ Rd(rf) \in Nat
  BY <1>10 DEF z, w, y
<1>12. Len(pendingOps) \in 0 .. 1
  <2>1. c \in 0 .. 1
    BY <1>9
  <2> QED BY <2>1 DEF c
<1> QED BY <1>3, <1>6, <1>7, <1>11, <1>12, Zenon

LEMMA InitFlow == Epochs >= 4 /\ Init => FlowInv
<1> SUFFICES ASSUME Epochs >= 4, Init PROVE FlowInv
  OBVIOUS
<1>1. IInv
  BY InitInvariant
<1>2. /\ Len(accessed) = 0 /\ Len(executed) = 0 /\ Len(pendingOps) = 0 /\ Len(decoded) = 0
      /\ Len(scheduled) = 0 /\ Len(toScheduler) = 0 /\ pendingOps = <<>>
  BY DEF Init
<1>3. /\ Wb(rf) = 0 /\ Len(rf.readReport) = 0 /\ Len(rf.readReq) = 0 /\ Rd(rf) = 0
      /\ \A s \in RenameReg : ~rf.rnTags[s].valid
      /\ InFlight(rf) = <<>> /\ rf.pendVal = <<>>
  <2>1. rf = EmptyRegFile
    BY DEF Init
  <2>2. /\ rf.wbReRegWrite = <<>> /\ rf.readReport = <<>> /\ rf.readReq = <<>> /\ rf.pendVal = <<>>
        /\ \A s \in RenameReg : ~rf.rnTags[s].valid
    BY <2>1 DEF EmptyRegFile, NoTag
  <2>3. InFlight(rf) = <<>>
    <3>1. WriteReports(rf.readReport) = <<>>
      BY <2>2 DEF WriteReports
    <3>2. <<>> \o <<>> = <<>>
      OBVIOUS
    <3> QED BY <2>2, <3>1, <3>2 DEF InFlight
  <2> QED BY <2>2, <2>3 DEF Wb, Rd
<1>4. LengthsInv
  BY <1>2, <1>3 DEF LengthsInv
<1>5. Line \in Seq(Token) /\ Len(Line) = 0 /\ Past = 0 /\ Taking = 0
  BY <1>1, <1>2, <1>3, LineTyped DEF Past, Taking
<1>6. Line = <<>>
  BY <1>5
<1>7. FirstOf(Line) = 1
  BY <1>6 DEF FirstOf
<1>8. /\ pc = Reset /\ specPc = Reset /\ epoch = 0 /\ issueEpoch = 0 /\ newEpoch = <<>>
      /\ flushCount = 0 /\ state = "Init" /\ predictions = <<>> /\ predictionCheck = <<>>
      /\ lastWasBranch = FALSE /\ lastEpoch = 0 /\ due = [at |-> Reset, after |-> NoAddress]
  BY DEF Init
<1>9. 0 \in Epoch /\ Later(0, 0) = 0
  BY RegisterFileAssumption, LaterIs DEF Epoch, Later
<1>10. Control(Line, FirstOf(Line), Past, Branching)
  <2> DEFINE c == Branching
             p == Line
  <2>1. /\ c.pc = Reset /\ c.specPc = Reset /\ c.epoch = 0 /\ c.issueEpoch = 0 /\ c.newEpoch = <<>>
        /\ c.flushCount = 0 /\ c.state = "Init" /\ c.predictions = <<>> /\ c.predictionCheck = <<>>
        /\ c.lastWasBranch = FALSE /\ c.lastEpoch = 0
        /\ c.due.at = Reset /\ c.due.after = NoAddress
    BY <1>8 DEF Branching
  <2>2. Len(p) = 0 /\ p = <<>>
    BY <1>5, <1>6
  <2> HIDE DEF c, p
  <2>3. Debugged(p, c) /\ Issuing(p, c) /\ Path(p, 1, c)
    BY <2>1, <2>2 DEF Debugged, Issuing, Latest, Path
  <2>4. Delays(p, 1, 0, c)
    BY <2>1, <2>2 DEF Delays
  <2>5. Checked(p, 0, c) /\ Counted(p, 1, 0, c) /\ Predicted(p, 1, 0, c)
    BY <2>1, <2>2 DEF Checked, Counted, Predicted
  <2>6. Resumes(p, 1, c) /\ DelaySlot(p, 1, c)
    BY <2>1, <2>2 DEF Resumes, DelaySlot
  <2>7. Behind(0, 0, 2)
    BY <1>9 DEF Behind
  <2>8. Ages(p, 1, 0, c)
    BY <2>1, <2>2, <2>7 DEF Ages
  <2>9. Control(p, 1, 0, c)
    BY <2>3, <2>4, <2>5, <2>6, <2>8 DEF Control
  <2> QED BY <1>5, <1>7, <2>9 DEF c, p
<1>11. Correct(Line, epoch, rf, Taking)
  <2>1. RegFileOK(rf)
    BY <1>1 DEF IInv, RegFileInv
  <2>2. Values(Line, epoch, rf, 0, Still(rf)) /\ TagsLive(Line, epoch, rf)
    BY <1>3, <2>1, Restart
  <2>3. Aligned(Line, rf)
    BY <1>3, <1>5 DEF Aligned
  <2>4. Separated(InFlight(rf)) /\ Owing(rf) /\ TagsOK(rf)
    BY <1>3 DEF Separated, Owing, TagsOK
  <2>5. Unwritten(Line, rf)
    BY <1>3 DEF Unwritten
  <2>6. Ordered(Line, epoch, rf)
    BY <2>2, <2>3, <2>4 DEF Ordered
  <2> QED BY <1>5, <2>2, <2>5, <2>6, CorrectFrom
<1> QED BY <1>4, <1>10, <1>11 DEF FlowInv

-----------------------------------------------------------------------------
(* The actions that leave the instructions where they are.                 *)
Quiet == due' = due /\ rf'.regFile = rf.regFile

LEMMA BranchingSame ==
  ASSUME UNCHANGED <<branchVars, schedulerVars, due>>
  PROVE  Branching' = Branching /\ epoch' = epoch /\ due' = due
BY DEF branchVars, schedulerVars, Branching

LEMMA LineSame ==
  ASSUME UNCHANGED fifoVars
  PROVE  Line' = Line /\ Past' = Past /\ pendingOps' = pendingOps
         /\ accessed' = accessed /\ executed' = executed /\ decoded' = decoded
         /\ scheduled' = scheduled
BY DEF fifoVars, Line, Past

LEMMA PrimeFlow ==
  ASSUME Epochs >= 4, IInv, FlowInv, primeFifo
  PROVE  FlowInv' /\ Quiet
<1>1. /\ Line' = Line /\ Past' = Past /\ rf' = rf /\ epoch' = epoch /\ Taking' = Taking /\ due' = due
      /\ LengthsInv'
  BY DEF primeFifo, fifoVars, Line, Past, Taking, FlowInv, LengthsInv
<1>2. /\ Line \in Seq(Token) /\ epoch \in Epoch /\ Control(Line, FirstOf(Line), Past, Branching)
      /\ Correct(Line, epoch, rf, Taking)
  BY LineTyped DEF FlowInv, IInv, BranchInv
<1>3. Primes(Branching, Branching')
  <2> DEFINE t == [takeTarget |-> FALSE, specTarget |-> Reset, epoch |-> epoch]
             c == Branching
             x == Branching'
  <2>1. t \in Prediction /\ ~t.takeTarget /\ t.epoch = c.epoch
    BY <1>2, CodeAssumption DEF Prediction, Branching
  <2>2. x.predictions = Append(c.predictions, t)
    BY DEF primeFifo, Branching
  <2>3. /\ c.state = "Init" /\ x.state = IF c.flushCount = 1 THEN "Run" ELSE "Init"
        /\ c.flushCount \in Nat /\ x.flushCount = c.flushCount + 1 /\ c.predictions \in Seq(Prediction)
    BY DEF primeFifo, Branching, IInv, BranchInv
  <2>4. /\ x.pc = c.pc /\ x.specPc = c.specPc /\ x.epoch = c.epoch /\ x.issueEpoch = c.issueEpoch
        /\ x.newEpoch = c.newEpoch /\ x.predictionCheck = c.predictionCheck /\ x.due = c.due
        /\ x.lastWasBranch = c.lastWasBranch /\ x.lastEpoch = c.lastEpoch
    BY DEF primeFifo, Branching, schedulerVars
  <2> HIDE DEF c, x, t
  <2>5. Primes(c, x)
    BY <2>1, <2>2, <2>3, <2>4 DEF Primes
  <2> QED BY <2>5 DEF c, x
<1>4. Control(Line, FirstOf(Line), Past, Branching')
  <2> DEFINE p == Line
             g == FirstOf(Line)
             s == Past
             c == Branching
             x == Branching'
  <2>1. p \in Seq(Token) /\ g = FirstOf(p) /\ Control(p, g, s, c) /\ c.epoch \in Epoch /\ Primes(c, x)
    BY <1>2, <1>3 DEF Branching
  <2> HIDE DEF p, g, s, c, x
  <2>2. Control(p, g, s, x)
    BY <2>1, PrimeControl
  <2> QED BY <2>2 DEF p, g, s, x
<1>5. Control(Line', FirstOf(Line'), Past', Branching')
  BY <1>1, <1>4
<1>6. Correct(Line', epoch', rf', Taking')
  BY <1>1, <1>2
<1> QED BY <1>1, <1>5, <1>6 DEF FlowInv, Quiet

(* Only before the first fetch the count of flushDelay matters.            *)
LEMMA CountControl ==
  ASSUME NEW p, NEW g, NEW s, NEW c, Control(p, g, s, c), NEW x,
         c.state # "Init", x.state = c.state,
         x.pc = c.pc, x.specPc = c.specPc, x.epoch = c.epoch, x.issueEpoch = c.issueEpoch,
         x.newEpoch = c.newEpoch, x.predictions = c.predictions,
         x.predictionCheck = c.predictionCheck, x.lastWasBranch = c.lastWasBranch,
         x.lastEpoch = c.lastEpoch, x.due = c.due
  PROVE  Control(p, g, s, x)
<1>1. Debugged(p, x) /\ Issuing(p, x)
  BY DEF Control, Debugged, Issuing
<1>2. Delays(p, g, s, x) /\ Checked(p, s, x)
  BY DEF Control, Delays, Checked
<1>3. Path(p, g, x)
  BY DEF Control, Path, OnPath
<1>4. Counted(p, g, s, x)
  BY DEF Control, Counted
<1>5. Predicted(p, g, s, x)
  BY DEF Control, Predicted, Foreseen
<1>6. Resumes(p, g, x) /\ DelaySlot(p, g, x)
  BY DEF Control, Resumes, DelaySlot
<1>7. Ages(p, g, s, x)
  BY DEF Control, Ages, Fresh
<1> QED BY <1>1, <1>2, <1>3, <1>4, <1>5, <1>6, <1>7 DEF Control

LEMMA FlushFlow ==
  ASSUME IInv, FlowInv, flushDelay
  PROVE  FlowInv' /\ Quiet
<1>1. /\ Line' = Line /\ Past' = Past /\ rf' = rf /\ epoch' = epoch /\ Taking' = Taking /\ due' = due
      /\ LengthsInv'
  BY DEF flushDelay, fifoVars, Line, Past, Taking, FlowInv, LengthsInv
<1>2. /\ Control(Line, FirstOf(Line), Past, Branching) /\ Correct(Line, epoch, rf, Taking)
  BY DEF FlowInv
<1>3. Control(Line, FirstOf(Line), Past, Branching')
  <2> DEFINE c == Branching
             x == Branching'
  <2>1. /\ c.state # "Init" /\ x.state = c.state
        /\ x.pc = c.pc /\ x.specPc = c.specPc /\ x.epoch = c.epoch /\ x.issueEpoch = c.issueEpoch
        /\ x.newEpoch = c.newEpoch /\ x.predictions = c.predictions
        /\ x.predictionCheck = c.predictionCheck /\ x.lastWasBranch = c.lastWasBranch
        /\ x.lastEpoch = c.lastEpoch /\ x.due = c.due
    BY DEF flushDelay, schedulerVars, Branching
  <2> HIDE DEF x
  <2>2. Control(Line, FirstOf(Line), Past, x)
    BY <1>2, <2>1, CountControl
  <2> QED BY <2>2 DEF x
<1>4. Control(Line', FirstOf(Line'), Past', Branching')
  BY <1>1, <1>3
<1>5. Correct(Line', epoch', rf', Taking')
  BY <1>1, <1>2
<1> QED BY <1>1, <1>4, <1>5 DEF FlowInv, Quiet

LEMMA PauseFlow ==
  ASSUME FlowInv, SetPause \/ UNCHANGED vars
  PROVE  FlowInv' /\ Quiet
<1>1. UNCHANGED <<branchVars, schedulerVars, due>> /\ UNCHANGED fifoVars /\ rf' = rf
  BY DEF SetPause, vars, branchVars, schedulerVars, fifoVars
<1>2. Branching' = Branching /\ epoch' = epoch /\ due' = due
  BY <1>1, BranchingSame
<1>3. Line' = Line /\ Past' = Past /\ Taking' = Taking /\ LengthsInv'
  BY <1>1, LineSame DEF Taking, FlowInv, LengthsInv
<1> QED BY <1>1, <1>2, <1>3 DEF FlowInv, Quiet

LEMMA ReadFlow ==
  ASSUME IInv, FlowInv, readRegFilesRule
  PROVE  FlowInv' /\ Quiet
<1>1. /\ UNCHANGED <<branchVars, schedulerVars, due>> /\ UNCHANGED fifoVars
      /\ CanReadRegFiles(rf) /\ rf' = readRegFiles(rf)
  BY DEF readRegFilesRule
<1>2. Branching' = Branching /\ epoch' = epoch /\ due' = due
  BY <1>1, BranchingSame
<1>3. /\ Line' = Line /\ Past' = Past /\ pendingOps' = pendingOps
      /\ accessed' = accessed /\ executed' = executed /\ decoded' = decoded
      /\ scheduled' = scheduled
  BY <1>1, LineSame
<1>4. RegFileInv(rf) /\ epoch \in Epoch /\ Line \in Seq(Token)
  BY LineTyped DEF IInv, BranchInv
<1>5. /\ LengthsInv /\ Control(Line, FirstOf(Line), Past, Branching)
      /\ Ordered(Line, epoch, rf) /\ Unwritten(Line, rf) /\ Latest(Line, epoch)
  BY DEF FlowInv, Correct, Control, Issuing, Branching
<1>6. PICK v : Values(Line, epoch, rf, Taking, v)
  BY DEF FlowInv, Correct
<1> DEFINE q == readRegFiles(rf)
<1>7. /\ Ordered(Line, epoch, q) /\ Values(Line, epoch, q, Taking, v)
      /\ Unwritten(Line, rf) => Unwritten(Line, q)
      /\ q.regFile = rf.regFile /\ Wb(q) = Wb(rf) /\ Rd(q) = Rd(rf) + 1
      /\ Len(q.readReport) = Len(rf.readReport) + 1 /\ Len(q.readReq) = Len(rf.readReq) - 1
  BY <1>1, <1>4, <1>5, <1>6, ReadValues
<1> HIDE DEF q
<1>8. rf' = q
  BY <1>1 DEF q
<1>9. Taking' = Taking
  BY <1>3, <1>7, <1>8 DEF Taking
<1>10. Correct(Line', epoch', rf', Taking')
  <2>1. Unwritten(Line, q)
    BY <1>5, <1>7
  <2>2. Correct(Line, epoch, q, Taking)
    BY <1>7, <2>1, CorrectFrom
  <2> QED BY <2>2, <1>2, <1>3, <1>8, <1>9
<1>11. LengthsInv'
  <2>4. Len(rf.readReport) \in Nat /\ Len(rf.readReq) \in Nat
    BY <1>5, PastIs
  <2>1. Len(q.readReport) # 0
    BY <1>7, <2>4
  <2>2. q.readReport # <<>>
    BY <2>1
  <2>3. Len(q.readReport) + Len(q.readReq) = Len(rf.readReport) + Len(rf.readReq)
    <3> DEFINE a == Len(rf.readReport)
               b == Len(rf.readReq)
    <3>1. a \in Nat /\ b \in Nat /\ Len(q.readReport) = a + 1 /\ Len(q.readReq) = b - 1
      BY <1>7, <2>4
    <3> HIDE DEF a, b
    <3>2. Len(q.readReport) + Len(q.readReq) = a + b
      BY <3>1
    <3> QED BY <3>2 DEF a, b
  <2> QED BY <1>3, <1>5, <1>7, <1>8, <2>2, <2>3 DEF LengthsInv
<1> QED BY <1>2, <1>3, <1>5, <1>7, <1>8, <1>10, <1>11 DEF FlowInv, Quiet

LEMMA PendingFlow ==
  ASSUME IInv, FlowInv, writePendingRule
  PROVE  FlowInv' /\ Quiet
<1>1. /\ UNCHANGED <<branchVars, schedulerVars, due>> /\ UNCHANGED fifoVars
      /\ CanWritePending(rf) /\ rf' = writePending(rf)
  BY DEF writePendingRule
<1>2. Branching' = Branching /\ epoch' = epoch /\ due' = due
  BY <1>1, BranchingSame
<1>3. /\ Line' = Line /\ Past' = Past /\ pendingOps' = pendingOps
      /\ accessed' = accessed /\ executed' = executed /\ decoded' = decoded
      /\ scheduled' = scheduled
  BY <1>1, LineSame
<1>4. RegFileInv(rf)
  BY DEF IInv
<1>5. /\ LengthsInv /\ Control(Line, FirstOf(Line), Past, Branching)
      /\ Ordered(Line, epoch, rf) /\ Unwritten(Line, rf)
  BY DEF FlowInv, Correct
<1>6. PICK v : Values(Line, epoch, rf, Taking, v)
  BY DEF FlowInv, Correct
<1> DEFINE q == writePending(rf)
<1>7. /\ Ordered(Line, epoch, q) /\ Values(Line, epoch, q, Taking, v)
      /\ Unwritten(Line, rf) => Unwritten(Line, q)
      /\ q.regFile = rf.regFile /\ Wb(q) = Wb(rf) /\ Rd(q) = Rd(rf)
      /\ q.readReq = rf.readReq /\ q.readReport = rf.readReport
  BY <1>1, <1>4, <1>5, <1>6, PendingValues
<1> HIDE DEF q
<1>8. rf' = q
  BY <1>1 DEF q
<1>9. Taking' = Taking /\ LengthsInv'
  BY <1>3, <1>5, <1>7, <1>8 DEF Taking, LengthsInv
<1>10. Correct(Line', epoch', rf', Taking')
  <2>1. Unwritten(Line, q)
    BY <1>5, <1>7
  <2>2. Correct(Line, epoch, q, Taking)
    BY <1>7, <2>1, CorrectFrom
  <2> QED BY <2>2, <1>2, <1>3, <1>8, <1>9
<1> QED BY <1>2, <1>3, <1>5, <1>7, <1>8, <1>9, <1>10 DEF FlowInv, Quiet

-----------------------------------------------------------------------------
(* The actions that fetch, and those that only hand an instruction on.     *)

LEMMA AppendKin ==
  ASSUME NEW p \in Seq(Token), NEW t \in Token, NEW k
  PROVE  Kin(p, Append(p, t), k) /\ Append(p, t) \in Seq(Token)
<1>1. /\ Append(p, t) \in Seq(Token) /\ Len(Append(p, t)) = Len(p) + 1 /\ Len(p) \in Nat
      /\ \A i \in 1 .. Len(p) : Append(p, t)[i] = p[i]
  OBVIOUS
<1> QED BY <1>1 DEF Kin

LEMMA CorrectKin ==
  ASSUME NEW r, RegFileOK(r), NEW p, NEW z, NEW e, NEW k \in Nat, Kin(p, z, k), Wb(r) <= k,
         k <= Len(p), Correct(p, e, r, k)
  PROVE  Correct(z, e, r, k)
<1>1. Ordered(p, e, r) /\ Unwritten(p, r)
  BY DEF Correct
<1>2. PICK v : Values(p, e, r, k, v)
  BY DEF Correct
<1>3. /\ Ordered(z, e, r)
      /\ \A w : Values(p, e, r, k, w) => Values(z, e, r, k, w)
      /\ Unwritten(p, r) => Unwritten(z, r)
  BY <1>1, KinValues
<1> QED BY <1>1, <1>2, <1>3, CorrectFrom

LEMMA FetchFlow ==
  ASSUME Epochs >= 4, IInv, FlowInv, instructionFetch
  PROVE  FlowInv' /\ Quiet
<1> DEFINE t == Fetched(Code[NextPc], FALSE)
           p == Line
           z == Append(p, t)
           c == Branching
           x == Branching'
           g == FirstOf(Line)
           s == Past
           k == Taking
<1>1. BranchInv /\ getPc(FALSE)
  BY DEF IInv, instructionFetch
<1>2. BranchInv' /\ NextPc \in Address
  BY <1>1, GetPcKeeps
<1>3. t \in Token /\ ~t.fromDebug /\ t.pc = NextPc /\ t.epoch = issueEpoch /\ t.inst = Code[t.pc]
  BY <1>1, <1>2, CodeAssumption DEF Fetched, Token, BranchInv, Value
<1>4. /\ toScheduler' = Append(toScheduler, t) /\ rf' = rf /\ due' = due
      /\ UNCHANGED <<scheduled, decoded, pendingOps, executed, accessed, lastWasBranch, lastEpoch>>
  BY DEF instructionFetch, schedulerVars
<1>5. Line' = z
  <2> HIDE DEF t
  <2>1. Chain(accessed, executed, pendingOps, decoded, scheduled, Append(toScheduler, t))
        = Append(Chain(accessed, executed, pendingOps, decoded, scheduled, toScheduler), t)
    <3>1. /\ accessed \in Seq(Token) /\ executed \in Seq(Token) /\ pendingOps \in Seq(Token)
          /\ decoded \in Seq(Token) /\ scheduled \in Seq(Token) /\ toScheduler \in Seq(Token)
      BY LineTyped
    <3>2. FetchesOne(accessed, executed, pendingOps, decoded, scheduled, toScheduler, t)
      BY <1>3, <3>1, ChainFetch
    <3> QED BY <3>2 DEF FetchesOne
  <2> QED BY <1>4, <2>1 DEF Line
<1>6. Past' = Past /\ Taking' = Taking /\ LengthsInv'
  BY <1>4 DEF Past, Taking, FlowInv, LengthsInv
<1>7. /\ p \in Seq(Token) /\ LengthsInv /\ Control(p, g, s, c) /\ Correct(p, epoch, rf, k)
      /\ RegFileOK(rf) /\ c.epoch = epoch /\ epoch \in Epoch
  BY <1>1, LineTyped DEF FlowInv, IInv, RegFileInv, Branching, BranchInv
<1>8. Fetches(c, x, t)
  <2>1. /\ predictions \in Seq(Prediction) /\ predictions # <<>>
        /\ Head(predictions) = predictions[1]
    BY <1>1 DEF BranchInv, getPc, CanGetPc
  <2>2. NextPc = NextOf(c)
    BY <2>1 DEF NextPc, NextOf, Branching
  <2>3. t.pc = NextOf(c) /\ t.epoch = c.issueEpoch
    BY <1>3, <2>2 DEF Branching
  <2>4. /\ c.predictions \in Seq(Prediction) /\ c.predictions # <<>>
        /\ x.predictions = Tail(c.predictions) /\ x.issueEpoch = c.epoch
    BY <1>1, <2>1 DEF Branching, getPc, updateSpeculativePc
  <2>5. x.specPc = IF c.issueEpoch = c.epoch THEN Plus(t.pc, 1) ELSE c.pc
    BY <1>1, <1>3 DEF Branching, getPc, updateSpeculativePc
  <2>6. /\ x.pc = c.pc /\ x.epoch = c.epoch /\ x.newEpoch = c.newEpoch
        /\ x.flushCount = c.flushCount /\ x.state = c.state
        /\ x.predictionCheck = c.predictionCheck /\ x.due = c.due
        /\ x.lastWasBranch = c.lastWasBranch /\ x.lastEpoch = c.lastEpoch
    BY <1>1, <1>4 DEF Branching, getPc
  <2> HIDE DEF t, c, x
  <2> QED BY <1>3, <2>3, <2>4, <2>5, <2>6 DEF Fetches
<1>9. g = FirstOf(p) /\ z = Append(p, t) /\ epoch' = epoch
  BY <1>1 DEF getPc
<1>10. k \in Nat /\ Wb(rf) <= k /\ k <= Len(p)
  BY <1>7, PastIs, LineTyped, SMTT(30)
<1>16. c.epoch \in Epoch
  BY <1>7
<1> HIDE DEF t, p, z, c, x, g, s, k
<1>17. Grows(p, t, z)
  BY <1>9 DEF Grows
<1>11. g = FirstOf(z) /\ Control(z, g, s, x)
  BY <1>7, <1>8, <1>9, <1>16, <1>17, FetchControl
<1>12. Kin(p, z, k)
  BY <1>3, <1>7, <1>9, AppendKin
<1>13. Correct(z, epoch, rf, k)
  BY <1>7, <1>10, <1>12, CorrectKin
<1>14. Control(Line', FirstOf(Line'), Past', Branching')
  BY <1>5, <1>6, <1>11 DEF s, x
<1>15. Correct(Line', epoch', rf', Taking')
  BY <1>4, <1>5, <1>6, <1>9, <1>13 DEF k
<1> QED BY <1>4, <1>6, <1>14, <1>15 DEF FlowInv, Quiet

LEMMA DecodeFlow ==
  ASSUME IInv, FlowInv, fromSchedulerToDecode
  PROVE  FlowInv' /\ Quiet
<1>1. /\ UNCHANGED <<branchVars, schedulerVars, due>> /\ rf' = rf
      /\ scheduled # <<>> /\ decoded' = Append(decoded, Head(scheduled))
      /\ scheduled' = Tail(scheduled)
      /\ UNCHANGED <<toScheduler, pendingOps, executed, accessed>>
  BY DEF fromSchedulerToDecode
<1>2. Branching' = Branching /\ epoch' = epoch /\ due' = due
  BY <1>1, BranchingSame
<1>3. /\ accessed \in Seq(Token) /\ executed \in Seq(Token) /\ pendingOps \in Seq(Token)
      /\ decoded \in Seq(Token) /\ scheduled \in Seq(Token) /\ toScheduler \in Seq(Token)
  BY LineTyped
<1>4. Line' = Line
  <2>1. Chain(accessed, executed, pendingOps, Append(decoded, Head(scheduled)), Tail(scheduled), toScheduler)
        = Chain(accessed, executed, pendingOps, decoded, scheduled, toScheduler)
    BY <1>1, <1>3, ChainDecode
  <2> QED BY <1>1, <2>1 DEF Line
<1>5. Len(decoded') = Len(decoded) + 1 /\ Len(scheduled') = Len(scheduled) - 1
      /\ Len(decoded) \in Nat /\ Len(scheduled) \in Nat
  BY <1>1, <1>3
<1>6. /\ Len(decoded') + Len(scheduled') = Len(decoded) + Len(scheduled)
      /\ Len(pendingOps) \in Nat /\ Len(decoded') \in Nat /\ Len(scheduled') \in Nat
      /\ Len(accessed) \in Nat /\ Len(executed) \in Nat
  BY <1>1, <1>3, <1>5
<1>7. Past' = Past
  BY <1>1, <1>5, <1>6 DEF Past
<1>8. Taking' = Taking
  BY <1>1 DEF Taking
<1>10. Len(pendingOps') + Len(decoded') + Len(scheduled')
       = Len(pendingOps) + Len(decoded) + Len(scheduled)
  BY <1>1, <1>5, <1>6
<1>9. LengthsInv'
  BY <1>1, <1>10 DEF FlowInv, LengthsInv
<1> QED BY <1>1, <1>2, <1>4, <1>7, <1>8, <1>9 DEF FlowInv, Quiet

LEMMA AccessFlow ==
  ASSUME IInv, FlowInv, fromExecuteToMemAccess
  PROVE  FlowInv' /\ Quiet
<1>1. /\ UNCHANGED <<branchVars, schedulerVars, due>> /\ rf' = rf
      /\ executed # <<>> /\ accessed' = Append(accessed, Head(executed))
      /\ executed' = Tail(executed)
      /\ UNCHANGED <<toScheduler, scheduled, decoded, pendingOps>>
  BY DEF fromExecuteToMemAccess
<1>2. Branching' = Branching /\ epoch' = epoch /\ due' = due
  BY <1>1, BranchingSame
<1>3. /\ accessed \in Seq(Token) /\ executed \in Seq(Token) /\ pendingOps \in Seq(Token)
      /\ decoded \in Seq(Token) /\ scheduled \in Seq(Token) /\ toScheduler \in Seq(Token)
  BY LineTyped
<1>4. Line' = Line
  <2>1. Chain(Append(accessed, Head(executed)), Tail(executed), pendingOps, decoded, scheduled, toScheduler)
        = Chain(accessed, executed, pendingOps, decoded, scheduled, toScheduler)
    BY <1>1, <1>3, ChainAccess
  <2> QED BY <1>1, <2>1 DEF Line
<1>5. Len(accessed') = Len(accessed) + 1 /\ Len(executed') = Len(executed) - 1
      /\ Len(accessed) \in Nat /\ Len(executed) \in Nat
  BY <1>1, <1>3
<1>6. /\ Len(accessed') + Len(executed') = Len(accessed) + Len(executed)
      /\ Len(pendingOps) \in Nat /\ Len(decoded) \in Nat /\ Len(scheduled) \in Nat
      /\ Len(accessed') \in Nat /\ Len(executed') \in Nat
  BY <1>1, <1>3, <1>5
<1>7. Past' = Past
  BY <1>1, <1>5, <1>6 DEF Past
<1>8. Taking' = Taking
  BY <1>1 DEF Taking
<1>9. LengthsInv'
  BY <1>1, <1>5, <1>6 DEF FlowInv, LengthsInv
<1> QED BY <1>1, <1>2, <1>4, <1>7, <1>8, <1>9 DEF FlowInv, Quiet

LEMMA SingleGrows ==
  ASSUME NEW t
  PROVE  Append(<< >>, t) = << t >>
OBVIOUS

LEMMA DebugFetchFlow ==
  ASSUME Epochs >= 4, OnlySettled, IInv, FlowInv, debugInstructionFetch
  PROVE  FlowInv' /\ Quiet
<1>1. Settled /\ getPc(TRUE) /\ BranchInv /\ LengthsInv
  BY DEF debugInstructionFetch, IInv, FlowInv
<1>2. PICK inst \in DebugInstructions : toScheduler' = Append(toScheduler, Fetched(inst, TRUE))
  BY DEF debugInstructionFetch
<1> DEFINE t == Fetched(inst, TRUE)
           z == << t >>
           c == Branching
           s == Past
<1>3. /\ toScheduler = <<>> /\ scheduled = <<>> /\ decoded = <<>> /\ pendingOps = <<>>
      /\ executed = <<>> /\ accessed = <<>> /\ newEpoch = <<>> /\ issueEpoch = epoch
  BY <1>1 DEF Settled
<1>4. /\ t \in Token /\ t.fromDebug /\ t.pc = Reset /\ t.epoch = epoch /\ ~t.branchDelay
      /\ t.inst \in DebugInstructions
  BY <1>1, <1>3, CodeAssumption DEF Fetched, Token, BranchInv, Value
<1>5. Branching' = Branching /\ epoch' = epoch
  <2>1. predictions' = predictions /\ specPc' = specPc /\ issueEpoch' = issueEpoch
    BY <1>1, <1>3 DEF getPc, updateSpeculativePc
  <2>2. UNCHANGED <<pc, epoch, newEpoch, flushCount, state, predictionCheck, lastWasBranch, lastEpoch, due>>
    BY <1>1 DEF getPc, debugInstructionFetch, schedulerVars
  <2> QED BY <2>1, <2>2 DEF Branching
<1>6. /\ rf' = rf /\ due' = due
      /\ UNCHANGED <<scheduled, decoded, pendingOps, executed, accessed>>
  BY DEF debugInstructionFetch
<1>7. Past' = Past /\ Taking' = Taking /\ LengthsInv'
  BY <1>1, <1>6 DEF Past, Taking, LengthsInv
<1>8. Line = <<>>
  <2>1. Line \in Seq(Token) /\ Len(Line) = Past + Len(toScheduler)
    BY LineTyped
  <2>2. Past = 0 /\ Len(toScheduler) = 0
    BY <1>3 DEF Past
  <2> QED BY <2>1, <2>2
<1>9. Line' = z
  <2> HIDE DEF t
  <2>1. toScheduler' = Append(toScheduler, t)
    BY <1>2 DEF t
  <2>2. FetchesOne(accessed, executed, pendingOps, decoded, scheduled, toScheduler, t)
    <3>1. /\ accessed \in Seq(Token) /\ executed \in Seq(Token) /\ pendingOps \in Seq(Token)
          /\ decoded \in Seq(Token) /\ scheduled \in Seq(Token) /\ toScheduler \in Seq(Token)
      BY LineTyped
    <3> QED BY <1>4, <3>1, ChainFetch
  <2>3. Line' = Append(Line, t)
    BY <1>6, <2>1, <2>2 DEF FetchesOne, Line
  <2>4. Line' = Append(<< >>, t)
    BY <1>8, <2>3
  <2> QED BY <2>4, SingleGrows
<1>10. Control(<< >>, 1, s, c) /\ Correct(<< >>, epoch, rf, Taking)
  <2>1. FirstOf(<< >>) = 1
    BY DEF FirstOf
  <2> QED BY <1>8, <2>1 DEF FlowInv
<1>11. /\ c.epoch \in Epoch /\ c.issueEpoch = c.epoch /\ c.newEpoch = <<>>
       /\ c.flushCount \in Nat /\ c.predictions \in Seq(Prediction) /\ t.epoch = c.epoch
  <2>1. flushCount \in Nat
    BY <1>1, PipelineAssumption DEF BranchInv
  <2> HIDE DEF t
  <2>2. t.epoch = c.epoch
    BY <1>4 DEF Branching
  <2> QED BY <1>1, <1>3, <2>1, <2>2 DEF Branching, BranchInv
<1>12. Kin(<< >>, z, Taking)
  <2> HIDE DEF t
  <2>1. << >> \in Seq(Token) /\ z \in Seq(Token) /\ Len(<< >>) = 0 /\ Len(z) = 1
    BY <1>4
  <2> QED BY <2>1 DEF Kin
<1>13. RegFileOK(rf) /\ Taking \in Nat /\ Wb(rf) <= Taking /\ Taking <= Len(<< >>)
  BY <1>1, <1>3, PastIs DEF IInv, RegFileInv, LengthsInv, Taking
<1> HIDE DEF t, c, s
<1>14. FirstOf(z) = 2 /\ Control(z, 2, s, c)
  BY <1>4, <1>10, <1>11, DebugFetchControl
<1> HIDE DEF z
<1>15. Correct(z, epoch, rf, Taking)
  BY <1>10, <1>12, <1>13, CorrectKin
<1>16. Control(Line', FirstOf(Line'), Past', Branching')
  BY <1>5, <1>7, <1>9, <1>14 DEF c, s
<1>17. Correct(Line', epoch', rf', Taking')
  BY <1>5, <1>6, <1>7, <1>9, <1>15
<1> QED BY <1>6, <1>7, <1>16, <1>17 DEF FlowInv, Quiet

-----------------------------------------------------------------------------
(* The scheduler.                                                          *)
LEMMA ExceptKin ==
  ASSUME NEW p \in Seq(Token), NEW i \in 1 .. Len(p), NEW u \in Token, NEW k \in Nat, k < i,
         u.epoch = p[i].epoch, u.inst = p[i].inst, u.fromDebug = p[i].fromDebug
  PROVE  Kin(p, [p EXCEPT ![i] = u], k)
<1> DEFINE z == [p EXCEPT ![i] = u]
<1>1. /\ z \in Seq(Token) /\ Len(z) = Len(p) /\ Len(p) \in Nat
      /\ \A j \in 1 .. Len(p) : z[j] = IF j = i THEN u ELSE p[j]
  BY ExceptSeq
<1> HIDE DEF z
<1>2. \A j \in 1 .. Len(p) :
        /\ z[j].epoch = p[j].epoch /\ z[j].inst = p[j].inst /\ z[j].fromDebug = p[j].fromDebug
        /\ j <= k => z[j] = p[j]
  BY <1>1
<1>3. Kin(p, z, k)
  BY <1>1, <1>2 DEF Kin
<1> QED BY <1>3 DEF z

LEMMA ScheduleShape ==
  ASSUME IInv, FlowInv, toScheduler # <<>>, NEW u \in Token, scheduled' = Append(scheduled, u),
         toScheduler' = Tail(toScheduler), UNCHANGED <<decoded, pendingOps, executed, accessed>>,
         NEW i, i = Past + 1
  PROVE  /\ i \in 1 .. Len(Line) /\ Line[i] = Head(toScheduler)
         /\ Line' = [Line EXCEPT ![i] = u] /\ Past' = i
<1>1. /\ accessed \in Seq(Token) /\ executed \in Seq(Token) /\ pendingOps \in Seq(Token)
      /\ decoded \in Seq(Token) /\ scheduled \in Seq(Token) /\ toScheduler \in Seq(Token)
      /\ Past \in Nat
  BY LineTyped
<1>2. i = Len(accessed) + Len(executed) + Len(pendingOps) + Len(decoded) + Len(scheduled) + 1
  BY DEF Past
<1>3. Head(toScheduler) = toScheduler[1]
  OBVIOUS
<1>4. Schedulable(accessed, executed, pendingOps, decoded, scheduled, toScheduler, u, i)
  BY <1>1, <1>2, ChainSchedule
<1>5. i \in 1 .. Len(Line) /\ Line[i] = Head(toScheduler) /\ Line' = [Line EXCEPT ![i] = u]
  BY <1>3, <1>4 DEF Schedulable, Line
<1>6. Len(scheduled') = Len(scheduled) + 1 /\ Len(scheduled) \in Nat
  BY <1>1
<1>7. /\ Len(accessed) \in Nat /\ Len(executed) \in Nat /\ Len(pendingOps) \in Nat
      /\ Len(decoded) \in Nat
  BY <1>1
<1>8. Past' = i
  BY <1>2, <1>6, <1>7 DEF Past
<1> QED BY <1>5, <1>8

LEMMA ExceptSame ==
  ASSUME NEW p \in Seq(Token), NEW i \in 1 .. Len(p)
  PROVE  [p EXCEPT ![i] = p[i]] = p
<1> DEFINE z == [p EXCEPT ![i] = p[i]]
<1>1. p[i] \in Token
  OBVIOUS
<1>2. /\ z \in Seq(Token) /\ Len(z) = Len(p) /\ Len(p) \in Nat
      /\ \A j \in 1 .. Len(p) : z[j] = IF j = i THEN p[i] ELSE p[j]
  BY <1>1, ExceptSeq
<1> HIDE DEF z
<1>3. \A j \in 1 .. Len(z) : z[j] = p[j]
  BY <1>2
<1>4. z = p
  BY <1>2, <1>3, SeqEqual
<1> QED BY <1>4 DEF z

LEMMA DebuggedFirst ==
  ASSUME NEW p \in Seq(Token), NEW g, g = FirstOf(p), NEW s, NEW c, Control(p, g, s, c),
         NEW i \in 1 .. Len(p), p[i].fromDebug
  PROVE  g = 2 /\ i = 1
<1>1. \A j \in 2 .. Len(p) : ~p[j].fromDebug
  BY DEF Control, Debugged
<1>2. i = 1 /\ Len(p) >= 1
  BY <1>1
<1> QED BY <1>2, FirstIsOne

LEMMA ScheduleFlow ==
  ASSUME Epochs >= 4, IInv, IInv', FlowInv, fromFetchToScheduler
  PROVE  FlowInv' /\ Quiet
<1> DEFINE t == Head(toScheduler)
           c == Branching
           x == Branching'
           u == Scheduling(c, t)
           req == Request(t)
           p == Line
           z == Line'
           s == Past
           i == Past + 1
           g == FirstOf(Line)
           k == Taking
           q == reqRegs(rf, req)
<1>1. /\ BranchInv /\ SchedulerInv /\ FifosInv /\ RegFileInv(rf) /\ FifoOK(toScheduler)
      /\ toScheduler # <<>> /\ CanRequest(rf) /\ LengthsInv
  BY DEF IInv, FifosInv, fromFetchToScheduler, FlowInv
<1>2. t \in Token /\ t.epoch \in Epoch /\ t.fromDebug \in BOOLEAN
  BY <1>1, FifoTail, TokenTyped
<1>3. u = [t EXCEPT !.branchDelay = lastWasBranch /\ lastEpoch = t.epoch /\ ~t.fromDebug]
  BY DEF Scheduling, Branching
<1>4. /\ putTarget(u) /\ rf' = q /\ scheduled' = Append(scheduled, u)
      /\ toScheduler' = Tail(toScheduler)
      /\ IF t.fromDebug THEN UNCHANGED schedulerVars
         ELSE lastWasBranch' = Branches(u) /\ lastEpoch' = t.epoch
      /\ UNCHANGED <<decoded, pendingOps, executed, accessed>> /\ due' = due
  BY <1>3 DEF fromFetchToScheduler, Request
<1> HIDE DEF t
<1>5. u \in Token /\ u.epoch = t.epoch /\ u.inst = t.inst /\ u.fromDebug = t.fromDebug
  <2> DEFINE d == lastWasBranch /\ lastEpoch = t.epoch /\ ~t.fromDebug
  <2>1. d \in BOOLEAN
    BY <1>1, <1>2 DEF SchedulerInv
  <2> HIDE DEF d
  <2>2. [t EXCEPT !.branchDelay = d] \in Token
    BY <1>2, <2>1 DEF Token
  <2>3. u = [t EXCEPT !.branchDelay = d]
    BY <1>3 DEF d
  <2> QED BY <1>2, <2>2, <2>3 DEF Token
<1>6. req \in ReadReq
  <2>1. [o \in Operands |-> t.inst[o]] \in [Operands -> Register]
    BY <1>2, TokenTyped DEF Operands
  <2>2. Writes(t.inst) \in BOOLEAN /\ IsConditional(t.inst) \in BOOLEAN
    BY DEF Writes, IsConditional
  <2> QED BY <1>2, <2>1, <2>2, TokenTyped DEF ReadReq, Request
<1> HIDE DEF u, req
<1>7. i \in 1 .. Len(p) /\ p[i] = t /\ z = [p EXCEPT ![i] = u] /\ Past' = i
  <2>1. i = Past + 1
    OBVIOUS
  <2> HIDE DEF i
  <2>2. /\ i \in 1 .. Len(Line) /\ Line[i] = Head(toScheduler)
        /\ Line' = [Line EXCEPT ![i] = u] /\ Past' = i
    BY <1>1, <1>4, <1>5, <2>1, ScheduleShape
  <2> QED BY <2>2 DEF t
<1>8. /\ p \in Seq(Token) /\ Control(p, g, s, c) /\ g = FirstOf(p) /\ s \in Nat
      /\ Ordered(p, epoch, rf) /\ Unwritten(p, rf)
  BY LineTyped DEF FlowInv, Correct
<1>9. PICK v : Values(p, epoch, rf, k, v)
  BY DEF FlowInv, Correct
<1>10. /\ i = Rd(rf) + Len(rf.readReq) + 1 /\ k \in Nat /\ Wb(rf) <= k /\ k <= s /\ i = s + 1
       /\ s <= Len(p)
  <2>1. /\ s = Rd(rf) + Len(rf.readReq) /\ Taking \in Nat /\ Wb(rf) <= Taking
        /\ Taking <= Rd(rf) /\ Rd(rf) \in Nat /\ Past <= Len(Line) /\ Len(rf.readReq) \in Nat
    BY <1>1, PastIs
  <2> QED BY <2>1, <1>8
<1>11. PICK y \in Address : Schedules(c, x, u, y)
  <2>1. PICK y \in (IF Branches(u) THEN Predictions ELSE { Reset }) :
        /\ predictions' = IF u.fromDebug THEN predictions
                          ELSE Append(predictions, [takeTarget |-> Branches(u),
                                                    specTarget |-> y, epoch |-> u.epoch])
        /\ predictionCheck' = Append(predictionCheck, [target |-> y, isBranch |-> Branches(u)])
    BY <1>4 DEF putTarget
  <2>2. y \in Address
    BY CodeAssumption, PipelineAssumption
  <2>3. state = "Run" /\ state' = state
        /\ UNCHANGED <<pc, specPc, epoch, issueEpoch, newEpoch, flushCount>>
    BY <1>4 DEF putTarget
  <2>4. /\ c.state = "Run" /\ x.state = c.state
        /\ c.predictions \in Seq(Prediction) /\ c.predictionCheck \in Seq(PredictionRecord)
        /\ x.pc = c.pc /\ x.specPc = c.specPc /\ x.epoch = c.epoch /\ x.issueEpoch = c.issueEpoch
        /\ x.newEpoch = c.newEpoch /\ x.flushCount = c.flushCount /\ x.due = c.due
    BY <1>1, <1>4, <2>3 DEF Branching, BranchInv
  <2>5. x.predictionCheck = Append(c.predictionCheck, [target |-> y, isBranch |-> Branches(u)])
    BY <2>1 DEF Branching
  <2>6. u.fromDebug => /\ x.predictions = c.predictions
                       /\ x.lastWasBranch = c.lastWasBranch /\ x.lastEpoch = c.lastEpoch
    BY <1>4, <1>5, <2>1 DEF Branching, schedulerVars
  <2>7. ~u.fromDebug =>
          /\ x.predictions = Append(c.predictions, [takeTarget |-> Branches(u), specTarget |-> y,
                                                    epoch |-> u.epoch])
          /\ (x.lastWasBranch <=> Branches(u)) /\ x.lastEpoch = u.epoch
    BY <1>4, <1>5, <2>1 DEF Branching
  <2> HIDE DEF c, x
  <2>8. Schedules(c, x, u, y)
    BY <2>2, <2>4, <2>5, <2>6, <2>7 DEF Schedules
  <2> QED BY <2>2, <2>8
<1>12. c.epoch = epoch /\ epoch \in Epoch /\ epoch' = epoch /\ k = Taking /\ u = Scheduling(c, p[i])
  BY <1>1, <1>4, <1>7 DEF Branching, BranchInv, putTarget, u
<1>13. RegFileOK(rf') /\ RegFileInv(rf)
  BY <1>1 DEF IInv, RegFileInv
<1> HIDE DEF p, c, x, z, s, i, g, k, q
<1>14. Control(z, FirstOf(z), i, x)
  <2>1. CASE t.fromDebug
    <3>1. g = 2 /\ i = 1
      BY <1>7, <1>8, <2>1, DebuggedFirst
    <3>2. s + 1 <= Len(p) /\ p[s + 1].fromDebug /\ p[s + 1] = t
      BY <1>7, <1>10, <2>1
    <3>3. Schedules(c, x, Scheduling(c, p[s + 1]), y)
      BY <1>10, <1>11, <1>12
    <3>4. 2 = FirstOf(p) /\ Control(p, 2, s, c)
      BY <1>8, <3>1
    <3>5. Scheduling(c, p[s + 1]) = p[s + 1] /\ Control(p, 2, s + 1, x)
      BY <1>8, <3>2, <3>3, <3>4, ScheduleDebugControl
    <3>6. u = p[i]
      BY <1>10, <1>12, <3>5
    <3>7. z = p
      BY <1>7, <1>8, <3>6, ExceptSame
    <3> QED BY <1>10, <3>4, <3>5, <3>7
  <2>2. CASE ~t.fromDebug
    <3>1. i <= Len(p) /\ ~p[i].fromDebug
      BY <1>7, <2>2
    <3>3. Replaces(p, i, u, z)
      BY <1>7 DEF Replaces
    <3>4. /\ p \in Seq(Token) /\ g = FirstOf(p) /\ Control(p, g, s, c) /\ i = s + 1
          /\ u = Scheduling(c, p[i]) /\ u \in Token /\ Schedules(c, x, u, y)
      BY <1>5, <1>8, <1>10, <1>11, <1>12
    <3>2. g = FirstOf(z) /\ Control(z, g, i, x)
      BY <3>1, <3>3, <3>4, ScheduleControl, ZenonT(60)
    <3> QED BY <3>2
  <2> QED BY <2>1, <2>2
<1>15. /\ Ordered(p, epoch, q) /\ Values(p, epoch, q, k, v)
       /\ Unwritten(p, rf) => Unwritten(p, q)
       /\ q.regFile = rf.regFile /\ Wb(q) = Wb(rf) /\ Rd(q) = Rd(rf)
       /\ Len(q.readReq) = Len(rf.readReq) + 1 /\ q.readReport = rf.readReport
  <2>1. i <= Len(p) /\ Len(p) \in Nat /\ req = Request(p[i])
    BY <1>7, <1>8 DEF req
  <2>2. q = reqRegs(rf, req)
    BY DEF q
  <2> QED BY <1>1, <1>6, <1>8, <1>9, <1>10, <2>1, <2>2, RequestValues
<1>16. Correct(p, epoch, q, k)
  BY <1>8, <1>15, CorrectFrom
<1>17. Kin(p, z, k)
  <2>1. k < i
    BY <1>10, <1>8
  <2> QED BY <1>5, <1>7, <1>8, <1>10, <2>1, ExceptKin
<1>18. Correct(z, epoch, q, k)
  <2>1. Wb(q) <= k /\ k <= Len(p) /\ RegFileOK(q)
    BY <1>4, <1>8, <1>10, <1>13, <1>15
  <2> QED BY <1>10, <1>16, <1>17, <2>1, CorrectKin
<1>19. Taking' = k
  BY <1>4, <1>12, <1>15 DEF Taking
<1>20. LengthsInv'
  <2>1. Len(scheduled') = Len(scheduled) + 1 /\ Len(scheduled) \in Nat /\ Len(pendingOps) \in Nat
        /\ Len(decoded) \in Nat
    BY <1>4, <1>5, LineTyped
  <2>2. Len(rf.readReport) \in Nat /\ Len(rf.readReq) \in Nat
    BY <1>1, PastIs
  <2>3. Len(pendingOps) + Len(decoded) + Len(scheduled) = Len(rf.readReport) + Len(rf.readReq)
        /\ Len(accessed) + Len(executed) = Wb(rf)
        /\ (pendingOps # <<>> => rf.readReport # <<>> /\ pendingOps[1].inst.kind = "multiply")
    BY <1>1 DEF LengthsInv
  <2>4. Len(pendingOps) + Len(decoded) + Len(scheduled') = Len(q.readReport) + Len(q.readReq)
    <3> DEFINE a == Len(rf.readReport)
               b == Len(rf.readReq)
               l == Len(pendingOps)
               m == Len(decoded)
               n == Len(scheduled)
    <3>1. /\ a \in Nat /\ b \in Nat /\ l \in Nat /\ m \in Nat /\ n \in Nat /\ l + m + n = a + b
          /\ Len(scheduled') = n + 1 /\ Len(q.readReport) = a /\ Len(q.readReq) = b + 1
      BY <1>15, <2>1, <2>2, <2>3
    <3> HIDE DEF a, b, l, m, n
    <3>2. l + m + Len(scheduled') = Len(q.readReport) + Len(q.readReq)
      BY <3>1
    <3> QED BY <3>2 DEF l, m
  <2> QED BY <1>4, <1>15, <2>3, <2>4 DEF LengthsInv
<1>21. Control(Line', FirstOf(Line'), Past', Branching')
  BY <1>7, <1>14 DEF z, x
<1>22. Correct(Line', epoch', rf', Taking')
  BY <1>4, <1>12, <1>18, <1>19 DEF z
<1> QED BY <1>4, <1>15, <1>20, <1>21, <1>22 DEF FlowInv, Quiet

-----------------------------------------------------------------------------
(* The execute stage.                                                      *)

ThirdIs(a, b, c, d, e, f, i) ==
  i \in 1 .. Len(Chain(a, b, c, d, e, f)) /\ Chain(a, b, c, d, e, f)[i] = c[1]

LEMMA ChainThird ==
  ASSUME NEW a \in Seq(Token), NEW b \in Seq(Token), NEW c \in Seq(Token), NEW d \in Seq(Token),
         NEW e \in Seq(Token), NEW f \in Seq(Token), c # <<>>, NEW i, i = Len(a) + Len(b) + 1
  PROVE  ThirdIs(a, b, c, d, e, f, i)
<1> DEFINE x == Joined(a, b)
           w == Joined(d, Joined(e, f))
           z == Joined(c, w)
           u == c[1]
<1>1. Joined(e, f) \in Seq(Token) /\ x \in Seq(Token)
  BY JoinedTyped
<1>2. w \in Seq(Token)
  BY <1>1, JoinedTyped
<1>3. z \in Seq(Token) /\ u \in Token
  BY <1>2, JoinedTyped
<1>4. z # <<>> /\ z[1] = u
  BY <1>2, JoinedTail, SMTT(30)
<1>5. i = Len(x) + 1
  BY JoinedLen
<1>6. Chain(a, b, c, d, e, f) = Joined(a, Joined(b, z))
  BY ChainJoined
<1> HIDE DEF z
<1>7. Joined(x, z) = Joined(a, Joined(b, z))
  BY <1>3, JoinedOne
<1> HIDE DEF x, u, w
<1>8. MovesTo(x, z, u, i)
  BY <1>1, <1>3, <1>4, <1>5, MovesToEnd
<1>9. i \in 1 .. Len(Joined(x, z)) /\ Joined(x, z)[i] = u
  BY <1>4, <1>8 DEF MovesTo
<1>10. i \in 1 .. Len(Chain(a, b, c, d, e, f)) /\ Chain(a, b, c, d, e, f)[i] = u
  BY <1>6, <1>7, <1>9
<1> QED BY <1>10 DEF ThirdIs, u

(* What the execute stage makes of the instruction t. *)
Executed(r, t) ==
  LET vals == readRegs(r) IN
  [t EXCEPT !.a = vals["a"], !.b = vals["b"], !.result = Result(t.inst, t.pc, vals["a"], vals["b"])]

LEMMA ExecutedIs ==
  ASSUME NEW r, RegFileOK(r), r.readReport # <<>>, NEW t \in Token
  PROVE  LET u == Executed(r, t) IN
         /\ u \in Token /\ u.pc = t.pc /\ u.epoch = t.epoch /\ u.fromDebug = t.fromDebug
         /\ u.inst = t.inst /\ u.branchDelay = t.branchDelay
         /\ u.a = readRegs(r)["a"] /\ u.b = readRegs(r)["b"]
         /\ u.result = Result(u.inst, u.pc, u.a, u.b)
<1> DEFINE vals == readRegs(r)
           res == Result(t.inst, t.pc, vals["a"], vals["b"])
           u == [t EXCEPT !.a = vals["a"], !.b = vals["b"], !.result = res]
<1>1. vals \in [Operands -> Value]
  BY OperandsTyped
<1> HIDE DEF vals
<1>2. vals["a"] \in Value /\ vals["b"] \in Value
  BY <1>1 DEF Operands
<1>3. res \in Value
  BY <1>2, TokenTyped, ResultTyped
<1>4. res = Result(t.inst, t.pc, vals["a"], vals["b"])
  OBVIOUS
<1> HIDE DEF res
<1>5. /\ u \in Token /\ u.pc = t.pc /\ u.epoch = t.epoch /\ u.fromDebug = t.fromDebug
      /\ u.inst = t.inst /\ u.branchDelay = t.branchDelay
      /\ u.a = vals["a"] /\ u.b = vals["b"] /\ u.result = res
  BY <1>2, <1>3 DEF Token
<1>6. Executed(r, t) = u
  BY DEF Executed, vals, res
<1> HIDE DEF u
<1> QED BY <1>4, <1>5, <1>6 DEF vals

(* The values of the instructions when the next one has its operands.      *)
LEMMA ExecuteValues ==
  ASSUME NEW r, RegFileInv(r), CanReadRegs(r), NEW p \in Seq(Token), NEW e \in Epoch, NEW k,
         k = Wb(r), NEW v, Ordered(p, e, r), Unwritten(p, r), Values(p, e, r, k, v),
         NEW i, i = k + 1, i \in 1 .. Len(p), NEW u, u = Executed(r, p[i]), NEW z, Replaces(p, i, u, z)
  PROVE  /\ z \in Seq(Token) /\ z[i] = u /\ Skeleton(p, z)
         /\ Ordered(z, e, r) /\ Unwritten(z, r) /\ Values(z, e, r, i, v)
         /\ u.epoch = e /\ IsConditional(u.inst) /\ Writes(u.inst) => v[i][u.inst.dest] \in Value
<1> DEFINE t == p[i]
<1>1. /\ RegFileOK(r) /\ r.readReport # <<>> /\ k \in Nat
  <2>1. r.wbReRegWrite \in Seq(WriteReport)
    BY DEF RegFileInv, RegFileOK, RegFileState
  <2> QED BY <2>1 DEF RegFileInv, CanReadRegs, Wb
<1>2. t \in Token /\ u = Executed(r, t)
  OBVIOUS
<1> HIDE DEF t
<1>3. /\ u \in Token /\ u.pc = t.pc /\ u.epoch = t.epoch /\ u.fromDebug = t.fromDebug
      /\ u.inst = t.inst /\ u.branchDelay = t.branchDelay
      /\ u.a = readRegs(r)["a"] /\ u.b = readRegs(r)["b"]
      /\ u.result = Result(u.inst, u.pc, u.a, u.b)
  BY <1>1, <1>2, ExecutedIs
<1>4. /\ z \in Seq(Token) /\ Len(z) = Len(p) /\ Len(p) \in Nat
      /\ \A j \in 1 .. Len(p) : z[j] = IF j = i THEN u ELSE p[j]
  BY <1>3, ExceptSeq DEF Replaces
<1>5. z[i] = u
  BY <1>4
<1>6. Skeleton(p, z)
  <2>1. \A j \in 1 .. Len(p) :
          /\ z[j].pc = p[j].pc /\ z[j].epoch = p[j].epoch /\ z[j].fromDebug = p[j].fromDebug
          /\ z[j].inst = p[j].inst /\ z[j].branchDelay = p[j].branchDelay
    BY <1>3, <1>4 DEF t
  <2> QED BY <1>4, <2>1 DEF Skeleton
<1>7. Kin(p, z, k)
  <2>1. u.epoch = p[i].epoch /\ u.inst = p[i].inst /\ u.fromDebug = p[i].fromDebug /\ k < i
    BY <1>1, <1>3 DEF t
  <2>2. \A j \in 1 .. Len(p) :
          /\ z[j].epoch = p[j].epoch /\ z[j].inst = p[j].inst /\ z[j].fromDebug = p[j].fromDebug
          /\ j <= k => z[j] = p[j]
    BY <1>1, <1>4, <2>1
  <2> QED BY <1>4, <2>2 DEF Kin
<1>8. /\ Ordered(z, e, r)
      /\ \A w : Values(p, e, r, k, w) => Values(z, e, r, k, w)
      /\ Unwritten(p, r) => Unwritten(z, r)
  <2>1. Wb(r) <= k /\ k <= Len(p)
    BY <1>1, <1>4
  <2> QED BY <1>1, <1>7, <2>1, KinValues
<1>9. t.epoch = e =>
        /\ \A o \in Operands : readRegs(r)[o] = Given(t, o, v[i])
        /\ IsConditional(t.inst) /\ Writes(t.inst) => v[i][t.inst.dest] \in Value
  <2>1. Wb(r) + 1 = i
    OBVIOUS
  <2> SUFFICES ASSUME t.epoch = e
               PROVE  /\ \A o \in Operands : readRegs(r)[o] = Given(t, o, v[i])
                      /\ IsConditional(t.inst) /\ Writes(t.inst) => v[i][t.inst.dest] \in Value
    OBVIOUS
  <2>2. p[Wb(r) + 1].epoch = e
    BY <2>1 DEF t
  <2>3. LET s == p[Wb(r) + 1] IN
        /\ \A o \in Operands : readRegs(r)[o] = Given(s, o, v[Wb(r) + 1])
        /\ IsConditional(s.inst) /\ Writes(s.inst) => v[Wb(r) + 1][s.inst.dest] \in Value
    BY <1>1, <2>2, OperandsFound
  <2> QED BY <2>1, <2>3 DEF t
<1>10. z[i].epoch = e => Right(z[i], v[i])
  <2> SUFFICES ASSUME z[i].epoch = e PROVE Right(u, v[i])
    BY <1>5
  <2>1. t.epoch = e
    BY <1>3, <1>5
  <2>2. u.a = Given(t, "a", v[i]) /\ u.b = Given(t, "b", v[i])
    BY <1>3, <1>9, <2>1 DEF Operands
  <2>3. Given(t, "a", v[i]) = Given(u, "a", v[i]) /\ Given(t, "b", v[i]) = Given(u, "b", v[i])
    BY <1>3 DEF Given
  <2> QED BY <1>3, <2>2, <2>3 DEF Right
<1>11. Values(z, e, r, i, v)
  <2>1. Values(z, e, r, k, v)
    BY <1>8
  <2> QED BY <1>1, <1>10, <2>1, TakenValues
<1> QED BY <1>3, <1>4, <1>5, <1>6, <1>8, <1>9, <1>11

-----------------------------------------------------------------------------
(* The instruction that has its operands, in the line.                     *)
LEMMA TakenFlow ==
  ASSUME IInv, FlowInv, pendingOps = <<>>, CanReadRegs(rf), NEW i, i = Wb(rf) + 1,
         i \in 1 .. Len(Line), NEW u, u = Executed(rf, Line[i]), NEW z, Replaces(Line, i, u, z)
  PROVE  /\ z \in Seq(Token) /\ z[i] = u /\ Control(z, FirstOf(z), Past, Branching)
         /\ Ordered(z, epoch, rf) /\ Unwritten(z, rf)
         /\ \E v : /\ Values(z, epoch, rf, i, v)
                   /\ u.epoch = epoch /\ IsConditional(u.inst) /\ Writes(u.inst)
                        => v[i][u.inst.dest] \in Value
<1> DEFINE p == Line
           c == Branching
           s == Past
           g == FirstOf(Line)
           k == Taking
<1>1. /\ p \in Seq(Token) /\ RegFileInv(rf) /\ epoch \in Epoch
      /\ Ordered(p, epoch, rf) /\ Unwritten(p, rf) /\ Control(p, g, s, c) /\ g = FirstOf(p)
  BY LineTyped DEF FlowInv, Correct, IInv, BranchInv
<1>2. PICK v : Values(p, epoch, rf, k, v)
  BY DEF FlowInv, Correct
<1>3. k = Wb(rf)
  <2>1. Wb(rf) \in Nat
    BY PastIs DEF FlowInv
  <2>2. Len(pendingOps) = 0
    OBVIOUS
  <2> QED BY <2>1, <2>2 DEF Taking
<1>4. i = k + 1 /\ i \in 1 .. Len(p) /\ u = Executed(rf, p[i]) /\ Replaces(p, i, u, z)
  BY <1>3
<1> HIDE DEF p, c, s, g, k
<1>5. /\ z \in Seq(Token) /\ z[i] = u /\ Skeleton(p, z)
      /\ Ordered(z, epoch, rf) /\ Unwritten(z, rf) /\ Values(z, epoch, rf, i, v)
      /\ u.epoch = epoch /\ IsConditional(u.inst) /\ Writes(u.inst) => v[i][u.inst.dest] \in Value
  BY <1>1, <1>2, <1>3, <1>4, ExecuteValues
<1>6. g = FirstOf(z) /\ Control(z, g, s, c)
  BY <1>1, <1>5, SkeletonControl
<1> QED BY <1>5, <1>6 DEF s, c

(* The oldest instruction without a result of its own gets it.             *)
Speculates(r, z, e, i, u, v, write) ==
  /\ RegFileInv(r) /\ CanWriteSpeculative(r) /\ i = Wb(r) + 1 /\ u = z[i]
  /\ Ordered(z, e, r) /\ Unwritten(z, r) /\ Values(z, e, r, i, v)
  /\ Writes(u.inst) => (write <=> DoesWrite(u.inst, u.b))
  /\ u.epoch = e /\ IsConditional(u.inst) /\ Writes(u.inst) => v[i][u.inst.dest] \in Value

SpeculatedTo(r, z, e, q) ==
  /\ Correct(z, e, q, Wb(q)) /\ q.regFile = r.regFile /\ Wb(q) = Wb(r) + 1
  /\ q.readReq = r.readReq /\ Len(q.readReport) = Len(r.readReport) - 1
  /\ Wb(r) \in Nat /\ Len(r.readReport) \in Nat

LEMMA SpeculateFlow ==
  ASSUME NEW r, NEW z \in Seq(Token), NEW e \in Epoch, NEW i, NEW u, NEW v, NEW write \in BOOLEAN,
         Speculates(r, z, e, i, u, v, write),
         NEW q, q = writeRegSpeculative(r, u.result, write), RegFileOK(q)
  PROVE  SpeculatedTo(r, z, e, q)
<1>0. /\ RegFileInv(r) /\ CanWriteSpeculative(r) /\ i = Wb(r) + 1 /\ u = z[i]
      /\ Ordered(z, e, r) /\ Unwritten(z, r) /\ Values(z, e, r, i, v)
      /\ Writes(u.inst) => (write <=> DoesWrite(u.inst, u.b))
      /\ u.epoch = e /\ IsConditional(u.inst) /\ Writes(u.inst) => v[i][u.inst.dest] \in Value
  BY DEF Speculates
<1>1. /\ Ordered(z, e, q) /\ Values(z, e, q, Wb(q), Longer(z, e, r, v))
      /\ Unwritten(z, r) => Unwritten(z, q)
      /\ q.regFile = r.regFile /\ Wb(q) = Wb(r) + 1 /\ Rd(q) = Rd(r) /\ q.readReq = r.readReq
  BY <1>0, SpeculativeValues
<1>2. Wb(r) \in Nat /\ Len(r.readReport) \in Nat /\ Len(q.readReport) \in Nat
  BY <1>0 DEF RegFileInv, RegFileOK, RegFileState, Wb
<1>3. Len(q.readReport) = Len(r.readReport) - 1
  <2> DEFINE a == Len(q.readReport)
             b == Len(r.readReport)
             w == Wb(r)
             x == Wb(q)
  <2>1. a \in Nat /\ b \in Nat /\ w \in Nat /\ x = w + 1 /\ x + a = w + b
    BY <1>1, <1>2 DEF Rd
  <2> HIDE DEF a, b, w, x
  <2>2. a = b - 1
    BY <2>1
  <2> QED BY <2>2 DEF a, b
<1>4. Correct(z, e, q, Wb(q))
  BY <1>0, <1>1, CorrectFrom
<1> QED BY <1>1, <1>2, <1>3, <1>4 DEF SpeculatedTo

(* Nothing that the branch unit and the scheduler know has changed.        *)
LEMMA StageFlow ==
  ASSUME IInv, UNCHANGED <<branchVars, schedulerVars, due>>, LengthsInv',
         NEW z, Line' = z, Past' = Past, Control(z, FirstOf(z), Past, Branching),
         Correct(z, epoch, rf', Taking'), rf'.regFile = rf.regFile
  PROVE  FlowInv' /\ Quiet
<1>1. Branching' = Branching /\ epoch' = epoch /\ due' = due
  BY BranchingSame
<1>2. Control(Line', FirstOf(Line'), Past', Branching')
  BY <1>1
<1>3. Correct(Line', epoch', rf', Taking')
  BY <1>1
<1> QED BY <1>1, <1>2, <1>3 DEF FlowInv, Quiet

(* The line when the execute stage takes an instruction.                   *)
LEMMA ExecuteShape ==
  ASSUME IInv, FlowInv, decoded # <<>>, pendingOps = <<>>, CanReadRegs(rf),
         NEW i, i = Wb(rf) + 1, NEW t, t = Head(decoded), NEW u, u = Executed(rf, t)
  PROVE  /\ i \in 1 .. Len(Line) /\ Line[i] = t /\ u \in Token /\ u.inst = t.inst
         /\ i = Len(accessed) + Len(executed) + 1 /\ Len(decoded) \in Nat
         /\ Executes(accessed, executed, decoded, scheduled, toScheduler, u, i)
<1>1. /\ accessed \in Seq(Token) /\ executed \in Seq(Token) /\ pendingOps \in Seq(Token)
      /\ decoded \in Seq(Token) /\ scheduled \in Seq(Token) /\ toScheduler \in Seq(Token)
  BY LineTyped
<1>2. t \in Token /\ decoded[1] = t /\ Len(decoded) \in Nat
  BY <1>1
<1>3. RegFileOK(rf) /\ rf.readReport # <<>>
  BY DEF IInv, RegFileInv, CanReadRegs
<1>4. u \in Token /\ u.inst = t.inst
  BY <1>2, <1>3, ExecutedIs
<1>5. i = Len(accessed) + Len(executed) + 1
  BY DEF FlowInv, LengthsInv
<1>6. Executes(accessed, executed, decoded, scheduled, toScheduler, u, i)
  BY <1>1, <1>4, <1>5, ChainExecute
<1>7. Line = Chain(accessed, executed, <<>>, decoded, scheduled, toScheduler)
  BY DEF Line
<1>8. i \in 1 .. Len(Line) /\ Line[i] = t
  BY <1>2, <1>6, <1>7 DEF Executes
<1> QED BY <1>2, <1>4, <1>5, <1>6, <1>8

LEMMA KeepFlow ==
  ASSUME IInv, FlowInv, fromDecodeToExecute, Head(decoded).inst.kind = "multiply"
  PROVE  FlowInv' /\ Quiet
<1> DEFINE t == Head(decoded)
           u == Executed(rf, t)
           i == Wb(rf) + 1
           z == Line'
<1>1. /\ decoded # <<>> /\ pendingOps = <<>> /\ CanReadRegs(rf)
      /\ pendingOps' = << u >> /\ rf' = rf /\ decoded' = Tail(decoded)
      /\ UNCHANGED <<branchVars, schedulerVars, due>>
      /\ UNCHANGED <<toScheduler, scheduled, executed, accessed>>
  BY DEF fromDecodeToExecute, Executed
<1>2. t = Head(decoded) /\ u = Executed(rf, t) /\ i = Wb(rf) + 1 /\ z = Line'
  OBVIOUS
<1>3. t.inst.kind = "multiply"
  OBVIOUS
<1> HIDE DEF t, u, i, z
<1>4. /\ i \in 1 .. Len(Line) /\ Line[i] = t /\ u \in Token /\ u.inst = t.inst
      /\ i = Len(accessed) + Len(executed) + 1 /\ Len(decoded) \in Nat
  BY <1>1, <1>2, ExecuteShape
<1>5. /\ accessed \in Seq(Token) /\ executed \in Seq(Token) /\ pendingOps \in Seq(Token)
      /\ decoded \in Seq(Token) /\ scheduled \in Seq(Token) /\ toScheduler \in Seq(Token)
  BY LineTyped
<1>6. Replaces(Line, i, u, z)
  <2> DEFINE y == Tail(decoded)
  <2>1. Chain(accessed, executed, << u >>, y, scheduled, toScheduler)
        = [Chain(accessed, executed, <<>>, decoded, scheduled, toScheduler) EXCEPT ![i] = u]
    BY <1>1, <1>4, <1>5, ChainKeep
  <2>2. Line = Chain(accessed, executed, <<>>, decoded, scheduled, toScheduler)
    BY <1>1 DEF Line
  <2>3. z = Chain(accessed, executed, << u >>, y, scheduled, toScheduler)
    BY <1>1, <1>2 DEF Line
  <2> QED BY <2>1, <2>2, <2>3 DEF Replaces
<1>7. u = Executed(rf, Line[i])
  BY <1>2, <1>4
<1>8. /\ z \in Seq(Token) /\ z[i] = u /\ Control(z, FirstOf(z), Past, Branching)
      /\ Ordered(z, epoch, rf) /\ Unwritten(z, rf)
      /\ \E v : /\ Values(z, epoch, rf, i, v)
                /\ u.epoch = epoch /\ IsConditional(u.inst) /\ Writes(u.inst)
                     => v[i][u.inst.dest] \in Value
  BY <1>1, <1>2, <1>4, <1>6, <1>7, TakenFlow
<1>9. Len(pendingOps) = 0 /\ Len(pendingOps') = 1 /\ pendingOps'[1] = u
      /\ Len(decoded') = Len(decoded) - 1
  BY <1>1, <1>5
<1>10. Taking' = i
  <2>1. Taking' = Wb(rf) + 1
    BY <1>1, <1>9 DEF Taking
  <2> QED BY <2>1, <1>2
<1>11. Correct(z, epoch, rf', Taking')
  BY <1>1, <1>8, <1>10 DEF Correct
<1>12. Len(pendingOps') + Len(decoded') = Len(pendingOps) + Len(decoded)
  BY <1>4, <1>9
<1>13. /\ Len(accessed) \in Nat /\ Len(executed) \in Nat /\ Len(scheduled) \in Nat
  BY <1>5
<1>14. Past' = Past
  <2> DEFINE a == Len(accessed)
             b == Len(executed)
             m == Len(pendingOps)
             n == Len(decoded)
             m1 == Len(pendingOps')
             n1 == Len(decoded')
             e == Len(scheduled)
  <2>1. /\ a \in Nat /\ b \in Nat /\ e \in Nat /\ n \in Nat /\ m = 0 /\ m1 = 1 /\ n1 = n - 1
    BY <1>4, <1>9, <1>13
  <2>2. Past' = a + b + m1 + n1 + e /\ Past = a + b + m + n + e
    BY <1>1 DEF Past
  <2> HIDE DEF a, b, m, n, m1, n1, e
  <2> QED BY <2>1, <2>2
<1>15. LengthsInv'
  <2>1. pendingOps'[1].inst.kind = "multiply" /\ rf'.readReport # <<>>
    BY <1>1, <1>3, <1>4, <1>9 DEF CanReadRegs
  <2>2. LengthsInv
    BY DEF FlowInv
  <2> QED BY <1>1, <1>12, <2>1, <2>2 DEF LengthsInv
<1> QED BY <1>1, <1>2, <1>8, <1>11, <1>14, <1>15, StageFlow

LEMMA ExecuteFlow ==
  ASSUME IInv, IInv', FlowInv, fromDecodeToExecute
  PROVE  FlowInv' /\ Quiet
<1> DEFINE t == Head(decoded)
           u == Executed(rf, t)
           i == Wb(rf) + 1
           z == Line'
           w == DoesWrite(u.inst, u.b)
           q == writeRegSpeculative(rf, u.result, w)
<1>1. CASE t.inst.kind = "multiply"
  BY <1>1, KeepFlow
<1>2. CASE t.inst.kind # "multiply"
  <2>1. /\ decoded # <<>> /\ pendingOps = <<>> /\ CanReadRegs(rf) /\ CanWriteSpeculative(rf)
        /\ executed' = Append(executed, u) /\ rf' = q /\ decoded' = Tail(decoded)
        /\ UNCHANGED <<branchVars, schedulerVars, due>>
        /\ UNCHANGED <<toScheduler, scheduled, pendingOps, accessed>>
    BY <1>2 DEF fromDecodeToExecute, Executed
  <2>2. /\ t = Head(decoded) /\ u = Executed(rf, t) /\ i = Wb(rf) + 1 /\ z = Line'
        /\ (w <=> DoesWrite(u.inst, u.b)) /\ w \in BOOLEAN
        /\ q = writeRegSpeculative(rf, u.result, w)
    BY DEF DoesWrite
  <2> HIDE DEF t, u, i, z, w, q
  <2>3. /\ i \in 1 .. Len(Line) /\ Line[i] = t /\ u \in Token /\ u.inst = t.inst
        /\ i = Len(accessed) + Len(executed) + 1 /\ Len(decoded) \in Nat
        /\ Executes(accessed, executed, decoded, scheduled, toScheduler, u, i)
    BY <2>1, <2>2, ExecuteShape
  <2>4. /\ accessed \in Seq(Token) /\ executed \in Seq(Token) /\ pendingOps \in Seq(Token)
        /\ decoded \in Seq(Token) /\ scheduled \in Seq(Token) /\ toScheduler \in Seq(Token)
    BY LineTyped
  <2>5. Replaces(Line, i, u, z)
    <3> DEFINE y == Tail(decoded)
               x == Append(executed, u)
    <3>1. Chain(accessed, x, <<>>, y, scheduled, toScheduler)
          = [Chain(accessed, executed, <<>>, decoded, scheduled, toScheduler) EXCEPT ![i] = u]
      BY <2>3 DEF Executes
    <3>2. Line = Chain(accessed, executed, <<>>, decoded, scheduled, toScheduler)
      BY <2>1 DEF Line
    <3>3. z = Chain(accessed, x, <<>>, y, scheduled, toScheduler)
      BY <2>1, <2>2 DEF Line
    <3> QED BY <3>1, <3>2, <3>3 DEF Replaces
  <2>6. u = Executed(rf, Line[i])
    BY <2>2, <2>3
  <2>7. /\ z \in Seq(Token) /\ z[i] = u /\ Control(z, FirstOf(z), Past, Branching)
        /\ Ordered(z, epoch, rf) /\ Unwritten(z, rf)
        /\ \E v : /\ Values(z, epoch, rf, i, v)
                  /\ u.epoch = epoch /\ IsConditional(u.inst) /\ Writes(u.inst)
                       => v[i][u.inst.dest] \in Value
    BY <2>1, <2>2, <2>3, <2>5, <2>6, TakenFlow
  <2>8. PICK v : /\ Values(z, epoch, rf, i, v)
                 /\ u.epoch = epoch /\ IsConditional(u.inst) /\ Writes(u.inst)
                      => v[i][u.inst.dest] \in Value
    BY <2>7
  <2>9. RegFileInv(rf) /\ RegFileOK(q) /\ epoch \in Epoch
    BY <2>1 DEF IInv, RegFileInv, BranchInv
  <2>10. u = z[i] /\ (Writes(u.inst) => (w <=> DoesWrite(u.inst, u.b)))
    BY <2>2, <2>7
  <2>11. /\ Correct(z, epoch, q, Wb(q)) /\ q.regFile = rf.regFile /\ Wb(q) = Wb(rf) + 1
         /\ q.readReq = rf.readReq /\ Len(q.readReport) = Len(rf.readReport) - 1
         /\ Wb(rf) \in Nat /\ Len(rf.readReport) \in Nat
    <3>1. /\ RegFileInv(rf) /\ CanWriteSpeculative(rf) /\ z \in Seq(Token) /\ epoch \in Epoch
          /\ i = Wb(rf) + 1 /\ u = z[i] /\ Ordered(z, epoch, rf) /\ Unwritten(z, rf)
          /\ Values(z, epoch, rf, i, v) /\ w \in BOOLEAN
          /\ q = writeRegSpeculative(rf, u.result, w) /\ RegFileOK(q)
      BY <2>1, <2>2, <2>7, <2>8, <2>9, <2>10
    <3>2. Writes(u.inst) => (w <=> DoesWrite(u.inst, u.b))
      BY <2>10
    <3>3. u.epoch = epoch /\ IsConditional(u.inst) /\ Writes(u.inst) => v[i][u.inst.dest] \in Value
      BY <2>8
    <3>4. Speculates(rf, z, epoch, i, u, v, w)
      BY <3>1, <3>2, <3>3 DEF Speculates
    <3>5. SpeculatedTo(rf, z, epoch, q)
      BY <3>1, <3>4, SpeculateFlow
    <3> QED BY <3>5 DEF SpeculatedTo
  <2>12. /\ Len(pendingOps) = 0 /\ pendingOps' = <<>> /\ Len(pendingOps') = 0
         /\ Len(executed') = Len(executed) + 1
         /\ Len(decoded') = Len(decoded) - 1 /\ Len(accessed) \in Nat /\ Len(executed) \in Nat
         /\ Len(scheduled) \in Nat
    BY <2>1, <2>3, <2>4
  <2>13. Taking' = Wb(q)
    <3>1. Taking' = Wb(q) + 0 /\ Wb(q) \in Nat
      BY <2>1, <2>11, <2>12 DEF Taking
    <3> QED BY <3>1
  <2>14. Correct(z, epoch, rf', Taking')
    BY <2>1, <2>11, <2>13
  <2>15. Past' = Past /\ LengthsInv'
    <3> DEFINE a == Len(accessed)
               b == Len(executed)
               b1 == Len(executed')
               m == Len(pendingOps)
               m1 == Len(pendingOps')
               n == Len(decoded)
               n1 == Len(decoded')
               e == Len(scheduled)
               x == Wb(rf)
               x1 == Wb(q)
               y == Len(rf.readReport)
               y1 == Len(q.readReport)
               l == Len(rf.readReq)
    <3>1. /\ a \in Nat /\ b \in Nat /\ n \in Nat /\ e \in Nat /\ x \in Nat /\ y \in Nat
          /\ b1 = b + 1 /\ n1 = n - 1 /\ m = 0 /\ m1 = 0 /\ x1 = x + 1 /\ y1 = y - 1
      BY <2>3, <2>11, <2>12
    <3>2. /\ Past = a + b + m + n + e /\ Past' = a + b1 + m1 + n1 + e
          /\ a + b = x /\ m + n + e = y + l
      BY <2>1 DEF Past, FlowInv, LengthsInv
    <3>3. l \in Nat
      BY PastIs DEF FlowInv
    <3> HIDE DEF a, b, b1, m, m1, n, n1, e, x, x1, y, y1, l
    <3>4. Past' = Past /\ a + b1 = x1 /\ m1 + n1 + e = y1 + l
      BY <3>1, <3>2, <3>3
    <3>5. LengthsInv'
      BY <2>1, <2>11, <2>12, <3>4 DEF LengthsInv, a, b1, x1, m1, n1, e, y1, l
    <3> QED BY <3>4, <3>5
  <2> QED BY <2>1, <2>2, <2>7, <2>11, <2>14, <2>15, StageFlow
<1> QED BY <1>1, <1>2

LEMMA DeliverFlow ==
  ASSUME IInv, IInv', FlowInv, deliverPendingOp
  PROVE  FlowInv' /\ Quiet
<1> DEFINE u == Head(pendingOps)
           i == Wb(rf) + 1
           z == Line
           q == writeRegSpeculative(rf, u.result, TRUE)
<1>1. /\ pendingOps # <<>> /\ CanWriteSpeculative(rf)
      /\ executed' = Append(executed, u) /\ rf' = q /\ pendingOps' = <<>>
      /\ UNCHANGED <<branchVars, schedulerVars, due>>
      /\ UNCHANGED <<toScheduler, scheduled, decoded, accessed>>
  BY DEF deliverPendingOp
<1>2. /\ accessed \in Seq(Token) /\ executed \in Seq(Token) /\ pendingOps \in Seq(Token)
      /\ decoded \in Seq(Token) /\ scheduled \in Seq(Token) /\ toScheduler \in Seq(Token)
  BY LineTyped
<1>3. /\ pendingOps = << u >> /\ u \in Token /\ pendingOps[1] = u /\ Len(pendingOps) = 1
  <2>1. Len(pendingOps) \in 0 .. 1
    BY PastIs DEF FlowInv
  <2>2. Len(pendingOps) = 1 /\ u = pendingOps[1] /\ pendingOps[1] \in Token
    BY <1>1, <1>2, <2>1
  <2>3. pendingOps = << u >>
    BY <1>2, <2>2
  <2> QED BY <2>2, <2>3
<1>4. u.inst.kind = "multiply" /\ i = Len(accessed) + Len(executed) + 1 /\ LengthsInv
  BY <1>1, <1>3 DEF FlowInv, LengthsInv
<1>5. /\ i = Wb(rf) + 1 /\ q = writeRegSpeculative(rf, u.result, TRUE)
  OBVIOUS
<1> HIDE DEF u, i, q
<1>6. Line' = z
  <2> DEFINE x == Append(executed, u)
  <2>1. Chain(accessed, x, <<>>, decoded, scheduled, toScheduler)
        = Chain(accessed, executed, << u >>, decoded, scheduled, toScheduler)
    BY <1>2, <1>3, ChainDeliver
  <2>2. Line' = Chain(accessed, x, <<>>, decoded, scheduled, toScheduler)
    BY <1>1 DEF Line
  <2> QED BY <1>3, <2>1, <2>2 DEF Line
<1>7. z[i] = u
  <2>1. ThirdIs(accessed, executed, pendingOps, decoded, scheduled, toScheduler, i)
    BY <1>1, <1>2, <1>4, ChainThird
  <2> QED BY <1>3, <2>1 DEF ThirdIs, Line
<1>8. /\ z \in Seq(Token) /\ Control(z, FirstOf(z), Past, Branching)
      /\ Ordered(z, epoch, rf) /\ Unwritten(z, rf)
  BY LineTyped DEF FlowInv, Correct
<1>9. PICK v : Values(z, epoch, rf, i, v)
  <2>1. Taking = i
    BY <1>3, <1>5 DEF Taking
  <2> QED BY <2>1 DEF FlowInv, Correct
<1>10. RegFileInv(rf) /\ RegFileOK(q) /\ epoch \in Epoch
  BY <1>1 DEF IInv, RegFileInv, BranchInv
<1>11. /\ u = z[i] /\ ~IsConditional(u.inst) /\ (Writes(u.inst) => (TRUE <=> DoesWrite(u.inst, u.b)))
  BY <1>4, <1>7 DEF IsConditional, DoesWrite
<1> HIDE DEF z
<1>12. /\ Correct(z, epoch, q, Wb(q)) /\ q.regFile = rf.regFile /\ Wb(q) = Wb(rf) + 1
       /\ q.readReq = rf.readReq /\ Len(q.readReport) = Len(rf.readReport) - 1
       /\ Wb(rf) \in Nat /\ Len(rf.readReport) \in Nat
  <2> DEFINE w == TRUE
  <2>1. w \in BOOLEAN /\ (Writes(u.inst) => (w <=> DoesWrite(u.inst, u.b)))
        /\ q = writeRegSpeculative(rf, u.result, w)
    BY <1>5, <1>11
  <2>2. u.epoch = epoch /\ IsConditional(u.inst) /\ Writes(u.inst) => v[i][u.inst.dest] \in Value
    BY <1>11
  <2> HIDE DEF w
  <2>3. /\ RegFileInv(rf) /\ CanWriteSpeculative(rf) /\ z \in Seq(Token) /\ epoch \in Epoch
        /\ i = Wb(rf) + 1 /\ u = z[i] /\ Ordered(z, epoch, rf) /\ Unwritten(z, rf)
        /\ Values(z, epoch, rf, i, v) /\ w \in BOOLEAN
        /\ q = writeRegSpeculative(rf, u.result, w) /\ RegFileOK(q)
    BY <1>1, <1>5, <1>8, <1>9, <1>10, <1>11, <2>1
  <2>4. Writes(u.inst) => (w <=> DoesWrite(u.inst, u.b))
    BY <2>1
  <2>5. Speculates(rf, z, epoch, i, u, v, w)
    BY <2>2, <2>3, <2>4 DEF Speculates
  <2>6. SpeculatedTo(rf, z, epoch, q)
    BY <2>3, <2>5, SpeculateFlow
  <2> QED BY <2>6 DEF SpeculatedTo
<1>13. /\ Len(pendingOps') = 0 /\ Len(executed') = Len(executed) + 1
       /\ Len(accessed) \in Nat /\ Len(executed) \in Nat /\ Len(decoded) \in Nat
       /\ Len(scheduled) \in Nat
  BY <1>1, <1>2, <1>3
<1>14. Taking' = Wb(q)
  <2>1. Taking' = Wb(q) + 0 /\ Wb(q) \in Nat
    BY <1>1, <1>12, <1>13 DEF Taking
  <2> QED BY <2>1
<1>15. Correct(z, epoch, rf', Taking')
  BY <1>1, <1>12, <1>14
<1>16. Past' = Past /\ LengthsInv'
  <2> DEFINE a == Len(accessed)
             b == Len(executed)
             b1 == Len(executed')
             m == Len(pendingOps)
             m1 == Len(pendingOps')
             n == Len(decoded)
             e == Len(scheduled)
             x == Wb(rf)
             x1 == Wb(q)
             y == Len(rf.readReport)
             y1 == Len(q.readReport)
             l == Len(rf.readReq)
  <2>1. /\ a \in Nat /\ b \in Nat /\ n \in Nat /\ e \in Nat /\ x \in Nat /\ y \in Nat
        /\ b1 = b + 1 /\ m = 1 /\ m1 = 0 /\ x1 = x + 1 /\ y1 = y - 1
    BY <1>3, <1>12, <1>13
  <2>2. /\ Past = a + b + m + n + e /\ Past' = a + b1 + m1 + n + e
        /\ a + b = x /\ m + n + e = y + l
    BY <1>1, <1>4 DEF Past, LengthsInv
  <2>3. l \in Nat
    BY <1>4, PastIs
  <2> HIDE DEF a, b, b1, m, m1, n, e, x, x1, y, y1, l
  <2>4. Past' = Past /\ a + b1 = x1 /\ m1 + n + e = y1 + l
    BY <2>1, <2>2, <2>3
  <2>5. LengthsInv'
    BY <1>1, <1>12, <1>13, <2>4 DEF LengthsInv, a, b1, x1, m1, n, e, y1, l
  <2> QED BY <2>4, <2>5
<1> QED BY <1>1, <1>6, <1>8, <1>12, <1>15, <1>16, StageFlow

-----------------------------------------------------------------------------
(* The writeback stage.  Its instruction is the first of the line.         *)

(* Whether the register of the instruction t is written, and what with. *)
Writing(t, exception) == DoesWrite(t.inst, t.b) /\ ~Dead(t) /\ ~exception
Data(t, loaded) == IF t.inst.kind = "load" THEN loaded ELSE t.result

Leaves(t, k) == /\ t \in Token /\ t = Line[1] /\ Line # <<>> /\ k \in Nat /\ k = Past - 1
                /\ Past \in Nat /\ Past' = k
                /\ Line \in Seq(Token) /\ Line' = Tail(Line) /\ Popped(Line, Line')

LEMMA LeavesLine ==
  ASSUME IInv, accessed # <<>>, accessed' = Tail(accessed),
         UNCHANGED <<toScheduler, scheduled, decoded, pendingOps, executed>>,
         NEW t, t = Head(accessed), NEW k, k = Past - 1
  PROVE  Leaves(t, k)
<1>1. /\ accessed \in Seq(Token) /\ executed \in Seq(Token) /\ pendingOps \in Seq(Token)
      /\ decoded \in Seq(Token) /\ scheduled \in Seq(Token) /\ toScheduler \in Seq(Token)
      /\ Line \in Seq(Token) /\ Past \in Nat
  BY LineTyped
<1>2. t \in Token
  BY <1>1
<1>3. /\ Line # <<>> /\ Line[1] = t /\ Line' = Tail(Line)
  <2> DEFINE b == Tail(accessed)
  <2>1. /\ Chain(accessed, executed, pendingOps, decoded, scheduled, toScheduler) # <<>>
        /\ Chain(accessed, executed, pendingOps, decoded, scheduled, toScheduler)[1] = Head(accessed)
        /\ Chain(b, executed, pendingOps, decoded, scheduled, toScheduler)
           = Tail(Chain(accessed, executed, pendingOps, decoded, scheduled, toScheduler))
    <3>1. Leads(accessed, executed, pendingOps, decoded, scheduled, toScheduler)
      BY <1>1, ChainTail
    <3> QED BY <3>1 DEF Leads
  <2>2. Line' = Chain(b, executed, pendingOps, decoded, scheduled, toScheduler)
    BY DEF Line
  <2> HIDE DEF b
  <2> QED BY <2>1, <2>2 DEF Line
<1>4. Past' = k /\ k \in Nat
  <2> DEFINE a == Len(accessed)
             a1 == Len(accessed')
             b == Len(executed)
             m == Len(pendingOps)
             n == Len(decoded)
             e == Len(scheduled)
  <2>1. a \in Nat /\ a1 = a - 1 /\ a >= 1 /\ b \in Nat /\ m \in Nat /\ n \in Nat /\ e \in Nat
    BY <1>1
  <2>2. Past = a + b + m + n + e /\ Past' = a1 + b + m + n + e
    BY DEF Past
  <2> HIDE DEF a, a1, b, m, n, e
  <2> QED BY <2>1, <2>2
<1>5. Popped(Line, Line')
  <2> DEFINE p == Line
             z == Line'
  <2>1. p \in Seq(Token) /\ p # <<>> /\ z = Tail(p)
    BY <1>1, <1>3
  <2> HIDE DEF p, z
  <2>2. /\ z \in Seq(Token) /\ Len(z) = Len(p) - 1 /\ Len(p) \in Nat
        /\ \A i \in 1 .. Len(z) : z[i] = p[i + 1]
    BY <2>1
  <2>3. Popped(p, z)
    BY <2>1, <2>2 DEF Popped
  <2> QED BY <2>3 DEF p, z
<1> QED BY <1>1, <1>2, <1>3, <1>4, <1>5 DEF Leaves

(* What the register file and the line are afterwards.                     *)
GivenBack(q, k, h) ==
  /\ CanWriteReg(rf) /\ rf' = q /\ LengthsInv'
  /\ Taking \in 1 .. Wb(rf) + 1 /\ h = Taking - 1 /\ Taking' = h
  /\ Wb(rf) = Wb(q) + 1 /\ Rd(rf) = Rd(q) + 1 /\ h <= Rd(q) /\ h \in Nat
  /\ q.readReport # <<>> => k >= 1

LEMMA WriteReleases ==
  ASSUME IInv, IInv', FlowInv, NEW exception \in BOOLEAN, NEW loaded \in Value,
         doWriteBack(exception, loaded), NEW t, t = Head(accessed), NEW k, k = Past - 1,
         NEW h, h = Taking - 1
  PROVE  GivenBack(writeReg(rf, t.inst.dest, Data(t, loaded), Writing(t, exception)), k, h)
<1> DEFINE q == writeReg(rf, t.inst.dest, Data(t, loaded), Writing(t, exception))
<1>1. /\ CanWriteReg(rf) /\ rf' = q /\ accessed # <<>> /\ accessed' = Tail(accessed)
      /\ UNCHANGED <<toScheduler, scheduled, decoded, pendingOps, executed>>
  BY DEF doWriteBack, Data, Writing
<1>2. q.readReq = rf.readReq /\ q.readReport = rf.readReport /\ q.wbReRegWrite = Tail(rf.wbReRegWrite)
  BY DEF writeReg, IInv, RegFileInv, RegFileOK, RegFileState
<1> HIDE DEF q
<1>3. Wb(rf) = Wb(q) + 1 /\ Wb(q) \in Nat
  <2>1. rf.wbReRegWrite \in Seq(WriteReport) /\ rf.wbReRegWrite # <<>>
    BY <1>1 DEF IInv, RegFileInv, RegFileOK, RegFileState, CanWriteReg
  <2>2. Len(Tail(rf.wbReRegWrite)) + 1 = Len(rf.wbReRegWrite) /\ Len(Tail(rf.wbReRegWrite)) \in Nat
    BY <2>1
  <2> QED BY <1>2, <2>2 DEF Wb
<1>4. /\ LengthsInv /\ Past = Rd(rf) + Len(rf.readReq) /\ Taking \in Nat /\ Wb(rf) <= Taking
      /\ Taking <= Rd(rf) /\ Rd(rf) \in Nat /\ Len(pendingOps) \in 0 .. 1
      /\ Len(rf.readReport) \in Nat /\ Len(rf.readReq) \in Nat
  BY PastIs DEF FlowInv
<1>5. Len(accessed') = Len(accessed) - 1 /\ Len(accessed) \in Nat /\ Len(executed) \in Nat
  BY <1>1, LineTyped
<1>6. LengthsInv'
  <2>1. Len(accessed') + Len(executed) = Wb(q)
    <3>1. Len(accessed) + Len(executed) = Wb(rf)
      BY <1>4 DEF LengthsInv
    <3> QED BY <1>3, <1>5, <3>1
  <2> QED BY <1>1, <1>2, <1>4, <2>1 DEF LengthsInv
<1> DEFINE w == Wb(rf)
           w1 == Wb(q)
           m == Len(pendingOps)
           y == Len(rf.readReport)
           l == Len(rf.readReq)
<1>7. /\ w1 \in Nat /\ w = w1 + 1 /\ m \in 0 .. 1 /\ y \in Nat /\ l \in Nat
      /\ Taking = w + m /\ Taking' = w1 + m /\ Rd(rf) = w + y /\ Rd(q) = w1 + y
      /\ Past = w + y + l /\ w + m <= w + y
  BY <1>1, <1>2, <1>3, <1>4 DEF Taking, Rd
<1> HIDE DEF w, w1, m, y, l
<1>8. /\ Taking \in 1 .. w + 1 /\ Taking' = h /\ Rd(rf) = Rd(q) + 1 /\ h <= Rd(q)
      /\ h \in Nat /\ (y > 0 => k >= 1)
  BY <1>7
<1>9. q.readReport # <<>> => k >= 1
  <2>1. rf.readReport # <<>> => y > 0
    BY DEF y, IInv, RegFileInv, RegFileOK, RegFileState
  <2> QED BY <1>2, <1>8, <2>1
<1>10. Taking \in 1 .. Wb(rf) + 1
  BY <1>8 DEF w
<1> HIDE DEF y
<1>11. GivenBack(q, k, h)
  BY <1>1, <1>3, <1>6, <1>8, <1>9, <1>10 DEF GivenBack
<1> QED BY <1>11 DEF q

(* What is read of the register file by the instructions that follow.      *)
LEMMA WriteUnwritten ==
  ASSUME IInv, FlowInv, NEW t, NEW k, NEW q, NEW h, Leaves(t, k), GivenBack(q, k, h)
  PROVE  Unwritten(Line', q) /\ h \in Nat /\ Taking <= Len(Line)
<1> DEFINE p == Line
           z == Line'
<1>1. /\ p \in Seq(Token) /\ Len(z) + 1 = Len(p) /\ Len(z) \in Nat /\ k = Past - 1 /\ Past \in Nat
      /\ \A i \in 1 .. Len(z) : z[i] = p[i + 1]
  BY DEF Leaves, Popped
<1>2. \A i \in 2 .. Len(p) : ~p[i].fromDebug
  BY DEF FlowInv, Control, Debugged
<1>3. Past <= Len(p)
  BY DEF FlowInv, Control, Counted
<1> HIDE DEF p, z
<1>4. Unwritten(z, q)
  <2> SUFFICES ASSUME z[1].fromDebug, NEW m \in 1 .. Len(q.readReport), NEW o \in Operands
               PROVE  FALSE
    BY DEF Unwritten
  <2>1. k >= 1
    <3>1. q.readReport # <<>>
      OBVIOUS
    <3> QED BY <3>1 DEF GivenBack
  <2>2. 1 \in 1 .. Len(z) /\ 2 \in 2 .. Len(p)
    BY <1>1, <1>3, <2>1
  <2>3. z[1] = p[2]
    BY <1>1, <2>2
  <2> QED BY <1>2, <2>2, <2>3
<1>5. Taking <= Len(p) /\ h \in Nat
  <2>1. /\ Len(rf.readReq) \in Nat /\ Past = Rd(rf) + Len(rf.readReq) /\ Taking \in Nat
        /\ Taking <= Rd(rf) /\ Rd(rf) \in Nat
    BY PastIs DEF FlowInv
  <2> QED BY <1>1, <1>3, <2>1 DEF GivenBack
<1> QED BY <1>4, <1>5 DEF z, p

(* The instruction leaves and the epoch goes on.                           *)
LEMMA WriteCorrect ==
  ASSUME IInv, FlowInv, NEW t, NEW k, NEW q, NEW h, Leaves(t, k), GivenBack(q, k, h),
         NEW dest \in Register, NEW data \in Value, NEW write \in BOOLEAN,
         q = writeReg(rf, dest, data, write), Completes(t, epoch, dest, data, write)
  PROVE  Correct(Line', epoch, q, h)
<1> DEFINE p == Line
           z == Line'
           j == Taking
<1>1. /\ Popped(p, z) /\ Completes(p[1], epoch, dest, data, write) /\ RegFileInv(rf)
      /\ Ordered(p, epoch, rf) /\ Unwritten(p, rf) /\ epoch \in Epoch /\ CanWriteReg(rf)
  BY DEF Leaves, FlowInv, Correct, IInv, BranchInv, GivenBack
<1>2. PICK v : Values(p, epoch, rf, j, v)
  BY DEF FlowInv, Correct
<1>3. j \in 1 .. Wb(rf) + 1 /\ j <= Len(p) /\ h = j - 1 /\ Unwritten(z, q)
  BY WriteUnwritten DEF GivenBack
<1> HIDE DEF p, z, j
<1>4. Ordered(z, epoch, q) /\ Values(z, epoch, q, h, Shorter(p, epoch, rf, q, v))
  BY <1>1, <1>2, <1>3, WriteBackValues
<1>5. Correct(z, epoch, q, h)
  BY <1>3, <1>4, CorrectFrom
<1> QED BY <1>5 DEF z

(* The instruction leaves and a new epoch begins: the others are dead, and *)
(* what they have written is not seen any more.                            *)
LEMMA RestartCorrect ==
  ASSUME IInv, FlowInv, NEW t, NEW k, NEW q, NEW h, Leaves(t, k), GivenBack(q, k, h),
         NEW dest \in Register, NEW data \in Value, NEW write \in BOOLEAN,
         q = writeReg(rf, dest, data, write), write => Writes(t.inst),
         \A i \in 1 .. Len(Line) : Line[i].epoch = epoch, NEW f, f # epoch
  PROVE  Correct(Line', f, q, h)
<1> DEFINE p == Line
           z == Line'
<1>1. /\ Popped(p, z) /\ t = p[1] /\ RegFileInv(rf) /\ Ordered(p, epoch, rf) /\ CanWriteReg(rf)
      /\ \A i \in 1 .. Len(p) : p[i].epoch = epoch
  BY DEF Leaves, FlowInv, Correct, IInv, GivenBack
<1>2. h <= Rd(q) /\ h \in Nat /\ Unwritten(z, q)
  BY WriteUnwritten DEF GivenBack
<1> HIDE DEF p, z
<1>3. Written(rf, q, dest, data, write) /\ RegFileOK(rf)
  BY <1>1, WrittenIs DEF RegFileInv
<1>4. /\ InFlight(rf)[1].write = Writes(p[1].inst) /\ Rd(q) \in Nat /\ Rd(rf) = Rd(q) + 1
      /\ Len(z) \in Nat /\ Rd(q) <= Len(z) /\ RegFileOK(q) /\ Len(p) = Len(z) + 1
  BY <1>1, <1>3, FirstIs DEF Popped
<1>5. Ordered(z, epoch, q)
  <2>1. Paying(rf, write) => InFlight(rf)[1].write
    BY <1>1, <1>4 DEF Paying
  <2> QED BY <1>1, <1>3, <2>1, WrittenOrdered
<1>6. \A i \in 1 .. Rd(q) : z[i].epoch # f
  <2> SUFFICES ASSUME NEW i \in 1 .. Rd(q) PROVE z[i].epoch = epoch
    OBVIOUS
  <2>1. i \in 1 .. Len(z) /\ i + 1 \in 1 .. Len(p)
    BY <1>4
  <2>2. z[i] = p[i + 1]
    BY <1>1, <2>1 DEF Popped
  <2> QED BY <1>1, <2>1, <2>2
<1>7. \A s \in RenameReg : q.rnTags[s].valid => q.rnTags[s].epoch # f
  <2>1. 1 \in 1 .. Rd(rf) /\ 1 \in 1 .. Len(p)
    BY <1>4
  <2>2. TagsOf(rf, epoch)
    BY <1>1, <2>1 DEF Ordered, TagsLive
  <2>3. q.rnTags = rf.rnTags
    BY <1>3 DEF Written
  <2> QED BY <2>2, <2>3 DEF TagsOf
<1>8. Values(z, f, q, h, Still(q)) /\ TagsLive(z, f, q)
  BY <1>2, <1>4, <1>6, <1>7, Restart
<1>9. Ordered(z, f, q)
  BY <1>5, <1>8 DEF Ordered
<1>10. Correct(z, f, q, h)
  BY <1>2, <1>8, <1>9, CorrectFrom
<1> QED BY <1>10 DEF z

(* A live instruction has been executed with the operands that the ones    *)
(* before it have left.                                                    *)
LEMMA OperandsRight ==
  ASSUME IInv, FlowInv, NEW t, NEW k, NEW q, NEW h, Leaves(t, k), GivenBack(q, k, h), t.epoch = epoch
  PROVE  Right(t, rf.regFile)
<1>1. PICK v : Values(Line, epoch, rf, Taking, v)
  BY DEF FlowInv, Correct
<1>2. Wb(rf) \in Nat /\ Taking \in Nat
  BY PastIs DEF FlowInv
<1>3. 1 \in 1 .. Taking /\ t = Line[1]
  BY <1>2 DEF GivenBack, Leaves
<1>4. v[1] = rf.regFile /\ \A i \in 1 .. Taking : Line[i].epoch = epoch => Right(Line[i], v[i])
  BY <1>1 DEF Values, Course
<1> QED BY <1>3, <1>4

-----------------------------------------------------------------------------
(* The first instruction of the line, by the invariant.                    *)
LEMMA HeadControl ==
  ASSUME IInv, FlowInv, NEW t, NEW k, Leaves(t, k)
  PROVE  /\ Line \in Seq(Token) /\ 1 \in 1 .. Len(Line) /\ t = Line[1] /\ FirstOf(Line) \in 1 .. 2
         /\ FirstOf(Line) = 2 <=> t.fromDebug
         /\ Control(Line, FirstOf(Line), k + 1, Branching)
<1>1. /\ Line \in Seq(Token) /\ t = Line[1] /\ Line # <<>> /\ k + 1 = Past
  BY DEF Leaves
<1>2. Len(Line) >= 1 /\ FirstOf(Line) \in 1 .. 2 /\ (FirstOf(Line) = 2 <=> t.fromDebug)
      /\ Len(Line) \in Nat
  BY <1>1, FirstIsOne
<1>3. 1 \in 1 .. Len(Line)
  BY <1>2
<1> QED BY <1>1, <1>2, <1>3 DEF FlowInv

LEMMA DebugHead ==
  ASSUME IInv, FlowInv, NEW t, NEW k, Leaves(t, k), t.fromDebug
  PROVE  /\ FirstOf(Line) = 2 /\ t.epoch = epoch /\ newEpoch = <<>> /\ ~t.branchDelay
         /\ t.inst \in DebugInstructions /\ t.pc = Reset
BY HeadControl DEF Control, Debugged, Branching, Leaves

LEMMA DeadHead ==
  ASSUME IInv, FlowInv, NEW t, NEW k, Leaves(t, k), t.epoch # epoch
  PROVE  FirstOf(Line) = 1 /\ newEpoch = <<>>
<1>1. /\ Line \in Seq(Token) /\ 1 \in 1 .. Len(Line) /\ t = Line[1] /\ FirstOf(Line) \in 1 .. 2
      /\ FirstOf(Line) = 2 <=> t.fromDebug
      /\ Control(Line, FirstOf(Line), k + 1, Branching)
  BY HeadControl
<1>2. ~t.fromDebug
  BY DebugHead
<1>3. FirstOf(Line) = 1
  BY <1>1, <1>2
<1>4. Len(Line) >= 1
  BY <1>1
<1>5. newEpoch = <<>>
  BY <1>1, <1>3, <1>4 DEF Control, DelaySlot, Branching
<1> QED BY <1>3, <1>5

LEMMA ProgramHead ==
  ASSUME IInv, FlowInv, NEW t, NEW k, Leaves(t, k), t.epoch = epoch, ~t.fromDebug
  PROVE  /\ FirstOf(Line) = 1 /\ t.inst = Code[t.pc] /\ t.pc = due.at
         /\ t.branchDelay <=> due.after # NoAddress
         /\ t.branchDelay => t.inst.kind # "eret"
         /\ newEpoch # <<>> => newEpoch = <<Later(epoch, 1)>> /\ due.after # NoAddress /\ pc = due.after
<1>1. /\ Line \in Seq(Token) /\ 1 \in 1 .. Len(Line) /\ t = Line[1] /\ FirstOf(Line) \in 1 .. 2
      /\ FirstOf(Line) = 2 <=> t.fromDebug
      /\ Control(Line, FirstOf(Line), k + 1, Branching)
  BY HeadControl
<1>2. FirstOf(Line) = 1
  BY <1>1
<1>3. t.inst = Code[t.pc]
  BY <1>1 DEF Control, Debugged
<1>4. t.pc = due.at
  BY <1>1, <1>2 DEF Control, Path, OnPath, Branching
<1>5. t.branchDelay <=> due.after # NoAddress
  <2>1. 1 \in 1 .. k + 1
    BY DEF Leaves
  <2> QED BY <1>1, <1>2, <2>1 DEF Control, Delays, Branching
<1>6. t.branchDelay => t.inst.kind # "eret"
  BY <1>1, <1>3, <1>4, <1>5 DEF Control, DelaySlot, Branching
<1>7. newEpoch # <<>> => newEpoch = <<Later(epoch, 1)>> /\ due.after # NoAddress /\ pc = due.after
  BY <1>1 DEF Control, DelaySlot, Branching
<1> QED BY <1>2, <1>3, <1>4, <1>5, <1>6, <1>7

LEMMA CheckedHead ==
  ASSUME IInv, FlowInv, NEW t, NEW k, Leaves(t, k)
  PROVE  predictionCheck[1].isBranch <=> Branches(t)
<1>1. 1 \in 1 .. k + 1
  BY DEF Leaves
<1> QED BY <1>1, HeadControl DEF Control, Checked, Branching

(* What pcWriteback does.                                                  *)
LEMMA FlushSteps ==
  ASSUME IInv, NEW truePc, NEW fromDebug, pcWriteback(truePc, TRUE, TRUE, fromDebug)
  PROVE  /\ epoch' \in { Later(epoch, 1), Later(epoch, 2) }
         /\ newEpoch = <<>> => epoch' = Later(epoch, 1)
         /\ newEpoch' = <<>> /\ pc' = truePc
BY DEF pcWriteback, epochUpdate

LEMMA SlotSteps ==
  ASSUME IInv, NEW truePc, NEW fromDebug, NEW flush \in BOOLEAN, ~flush, newEpoch # <<>>,
         pcWriteback(truePc, FALSE, flush, fromDebug)
  PROVE  epoch' = Head(newEpoch) /\ newEpoch' = <<>> /\ pc' = pc
BY DEF pcWriteback, epochUpdate

LEMMA GoesOnSteps ==
  ASSUME IInv, NEW truePc, NEW fromDebug \in BOOLEAN, NEW flush \in BOOLEAN, ~flush, newEpoch = <<>>,
         NEW write \in BOOLEAN, pcWriteback(truePc, write, flush, fromDebug)
  PROVE  /\ epoch' = epoch /\ pc' = IF write THEN truePc ELSE pc
         /\ newEpoch' = IF write /\ ~fromDebug /\ predictionCheck[1].isBranch
                           /\ predictionCheck[1].target # truePc
                        THEN <<Later(epoch, 1)>> ELSE <<>>
<1>1. predictionCheck \in Seq(PredictionRecord) /\ predictionCheck # <<>>
  BY DEF IInv, BranchInv, pcWriteback
<1>2. Head(predictionCheck) = predictionCheck[1]
  BY <1>1
<1> QED BY <1>2 DEF pcWriteback, epochUpdate

LEMMA WriteCompleting ==
  ASSUME IInv, NEW exception \in BOOLEAN, NEW loaded \in Value, doWriteBack(exception, loaded),
         NEW t, NEW k, Leaves(t, k)
  PROVE  Completing(Line, k, Branching, Branching', Line')
<1>1. /\ predictionCheck \in Seq(PredictionRecord) /\ predictions \in Seq(Prediction)
  BY DEF IInv, BranchInv
<1>2. /\ predictionCheck' = Tail(predictionCheck) /\ predictions' = predictions
      /\ UNCHANGED <<specPc, issueEpoch, flushCount, state>> /\ UNCHANGED schedulerVars
  BY DEF doWriteBack, pcWriteback
<1> DEFINE c == Branching
           x == Branching'
<1>3. /\ c.predictionCheck \in Seq(PredictionRecord) /\ c.predictions \in Seq(Prediction)
      /\ x.predictionCheck = Tail(c.predictionCheck) /\ x.predictions = c.predictions
      /\ x.specPc = c.specPc /\ x.issueEpoch = c.issueEpoch /\ x.flushCount = c.flushCount
      /\ x.state = c.state /\ x.lastWasBranch = c.lastWasBranch /\ x.lastEpoch = c.lastEpoch
  BY <1>1, <1>2 DEF Branching, schedulerVars
<1> HIDE DEF c, x
<1>4. Completing(Line, k, c, x, Line')
  BY <1>3 DEF Completing, Leaves
<1> QED BY <1>4 DEF c, x

-----------------------------------------------------------------------------
(* What doWriteBack does with the first instruction of the line.           *)
Writeback(t, k, q, h, exception, loaded) ==
  /\ IInv /\ FlowInv /\ Leaves(t, k) /\ GivenBack(q, k, h)
  /\ exception \in BOOLEAN /\ loaded \in Value
  /\ q = writeReg(rf, t.inst.dest, Data(t, loaded), Writing(t, exception))
  /\ Completing(Line, k, Branching, Branching', Line')
  /\ exception => ~Dead(t) /\ MayTrap(t)
  /\ t.inst.kind # "load" => loaded = 0
  /\ pcWriteback(IF exception THEN Entry ELSE Target(t), ~Dead(t) /\ (exception \/ WritesPC(t)),
                 ~Dead(t) /\ ((exception /\ ~t.fromDebug) \/ FlushesPipe(t)), t.fromDebug)
  /\ Dead(t) => due' = due
  /\ ~Dead(t) /\ ~t.fromDebug => due' = DueAfter(t, exception)
  /\ ~Dead(t) /\ t.fromDebug /\ Branches(t) => due' = [at |-> Target(t), after |-> NoAddress]
  /\ ~Dead(t) /\ t.fromDebug /\ ~Branches(t) => due' = due

LEMMA WritebackIs ==
  ASSUME IInv, IInv', FlowInv, NEW exception \in BOOLEAN, NEW loaded \in Value,
         doWriteBack(exception, loaded)
  PROVE  \E t, k, q, h : Writeback(t, k, q, h, exception, loaded)
<1> DEFINE t == Head(accessed)
           k == Past - 1
           h == Taking - 1
           q == writeReg(rf, t.inst.dest, Data(t, loaded), Writing(t, exception))
<1>1. /\ accessed # <<>> /\ accessed' = Tail(accessed)
      /\ UNCHANGED <<toScheduler, scheduled, decoded, pendingOps, executed>>
      /\ exception => ~Dead(t) /\ MayTrap(t)
      /\ t.inst.kind # "load" => loaded = 0
      /\ pcWriteback(IF exception THEN Entry ELSE Target(t), ~Dead(t) /\ (exception \/ WritesPC(t)),
                     ~Dead(t) /\ ((exception /\ ~t.fromDebug) \/ FlushesPipe(t)), t.fromDebug)
      /\ due' = CASE Dead(t) -> due
                  [] ~Dead(t) /\ ~t.fromDebug -> DueAfter(t, exception)
                  [] ~Dead(t) /\ t.fromDebug ->
                       IF Branches(t) THEN [at |-> Target(t), after |-> NoAddress] ELSE due
  BY DEF doWriteBack
<1>2. /\ t = Head(accessed) /\ k = Past - 1 /\ h = Taking - 1
      /\ q = writeReg(rf, t.inst.dest, Data(t, loaded), Writing(t, exception))
  OBVIOUS
<1> HIDE DEF t, k, h
<1>3. GivenBack(q, k, h)
  BY <1>2, WriteReleases
<1> HIDE DEF q
<1>4. Leaves(t, k)
  BY <1>1, <1>2, LeavesLine
<1>5. Completing(Line, k, Branching, Branching', Line')
  BY <1>4, WriteCompleting
<1>6. /\ Dead(t) => due' = due
      /\ ~Dead(t) /\ ~t.fromDebug => due' = DueAfter(t, exception)
      /\ ~Dead(t) /\ t.fromDebug /\ Branches(t) => due' = [at |-> Target(t), after |-> NoAddress]
      /\ ~Dead(t) /\ t.fromDebug /\ ~Branches(t) => due' = due
  BY <1>1
<1>7. Writeback(t, k, q, h, exception, loaded)
  BY <1>1, <1>2, <1>3, <1>4, <1>5, <1>6 DEF Writeback
<1> QED BY <1>7

LEMMA WritebackTyped ==
  ASSUME NEW t, NEW k, NEW q, NEW h, NEW exception, NEW loaded, Writeback(t, k, q, h, exception, loaded)
  PROVE  /\ t \in Token /\ t.inst.dest \in Register /\ Data(t, loaded) \in Value
         /\ Writing(t, exception) \in BOOLEAN /\ t.fromDebug \in BOOLEAN
         /\ q = writeReg(rf, t.inst.dest, Data(t, loaded), Writing(t, exception))
         /\ q.regFile = IF Writing(t, exception)
                        THEN [rf.regFile EXCEPT ![t.inst.dest] = Data(t, loaded)] ELSE rf.regFile
         /\ rf' = q /\ epoch \in Epoch
<1>1. t \in Token /\ loaded \in Value
  BY DEF Writeback, Leaves
<1>2. t.inst.dest \in Register /\ t.result \in Value /\ t.fromDebug \in BOOLEAN
  BY <1>1, TokenTyped
<1>3. Data(t, loaded) \in Value /\ Writing(t, exception) \in BOOLEAN
  BY <1>1, <1>2 DEF Data, Writing, DoesWrite
<1>4. q = writeReg(rf, t.inst.dest, Data(t, loaded), Writing(t, exception)) /\ rf' = q
  BY DEF Writeback, GivenBack
<1>5. RegFileInv(rf) /\ CanWriteReg(rf) /\ epoch \in Epoch
  BY DEF Writeback, IInv, BranchInv, GivenBack
<1> DEFINE d == Data(t, loaded)
           w == Writing(t, exception)
           y == t.inst.dest
<1> HIDE DEF d, w, y
<1>6. Written(rf, writeReg(rf, y, d, w), y, d, w)
  BY <1>2, <1>3, <1>5, WrittenIs DEF d, w, y
<1>7. q.regFile = IF w THEN [rf.regFile EXCEPT ![y] = d] ELSE rf.regFile
  BY <1>4, <1>6 DEF Written, d, w, y
<1> QED BY <1>1, <1>2, <1>3, <1>4, <1>5, <1>7 DEF d, w, y

LEMMA LeaveFlow ==
  ASSUME NEW t, NEW k, NEW q, NEW h, NEW exception, NEW loaded, Writeback(t, k, q, h, exception, loaded),
         Control(Line', 1, k, Branching'), Correct(Line', epoch', q, h)
  PROVE  FlowInv'
<1> DEFINE p == Line
           z == Line'
<1>1. /\ p \in Seq(Token) /\ z \in Seq(Token) /\ Len(z) + 1 = Len(p) /\ Len(z) \in Nat
      /\ \A i \in 1 .. Len(z) : z[i] = p[i + 1]
  BY DEF Writeback, Leaves, Popped
<1>2. \A i \in 2 .. Len(p) : ~p[i].fromDebug
  BY DEF Writeback, FlowInv, Control, Debugged
<1> HIDE DEF p, z
<1>3. FirstOf(z) = 1
  <2>1. FirstOf(z) \in 1 .. 2 /\ (FirstOf(z) = 2 <=> Len(z) >= 1 /\ z[1].fromDebug)
    BY <1>1, FirstIsOne
  <2>2. Len(z) >= 1 => 1 \in 1 .. Len(z) /\ 2 \in 2 .. Len(p)
    BY <1>1
  <2>3. Len(z) >= 1 => ~z[1].fromDebug
    BY <1>1, <1>2, <2>2
  <2> QED BY <2>1, <2>3
<1>4. Past' = k /\ Taking' = h /\ rf' = q /\ LengthsInv'
  BY DEF Writeback, Leaves, GivenBack
<1>5. Control(Line', FirstOf(Line'), Past', Branching')
  BY <1>3, <1>4 DEF z
<1>6. Correct(Line', epoch', rf', Taking')
  BY <1>4
<1> QED BY <1>4, <1>5, <1>6 DEF FlowInv

LEMMA ContinueFlow ==
  ASSUME NEW t, NEW k, NEW q, NEW h, NEW exception, NEW loaded, Writeback(t, k, q, h, exception, loaded),
         Control(Line', 1, k, Branching'), epoch' = epoch,
         Completes(t, epoch, t.inst.dest, Data(t, loaded), Writing(t, exception))
  PROVE  FlowInv'
<1> DEFINE d == Data(t, loaded)
           w == Writing(t, exception)
           y == t.inst.dest
<1>1. /\ y \in Register /\ d \in Value /\ w \in BOOLEAN /\ q = writeReg(rf, y, d, w)
      /\ Completes(t, epoch, y, d, w)
  BY WritebackTyped
<1>2. IInv /\ FlowInv /\ Leaves(t, k) /\ GivenBack(q, k, h)
  BY DEF Writeback
<1> HIDE DEF d, w, y
<1>3. Correct(Line', epoch, q, h)
  BY <1>1, <1>2, WriteCorrect
<1> QED BY <1>3, LeaveFlow

LEMMA DeadFlow ==
  ASSUME NEW t, NEW k, NEW q, NEW h, NEW exception, NEW loaded, Writeback(t, k, q, h, exception, loaded),
         Dead(t)
  PROVE  FlowInv' /\ Quiet
<1> DEFINE p == Line
           z == Line'
           c == Branching
           x == Branching'
           s == k + 1
<1>1. IInv /\ FlowInv /\ Leaves(t, k) /\ t.epoch # epoch /\ ~exception /\ exception \in BOOLEAN
  BY DEF Writeback, Dead
<1>2. FirstOf(p) = 1 /\ newEpoch = <<>>
  BY <1>1, DeadHead
<1>3. epoch' = epoch /\ pc' = pc /\ newEpoch' = <<>> /\ due' = due
  <2>1. pcWriteback(Target(t), FALSE, FALSE, t.fromDebug)
    BY <1>1 DEF Writeback
  <2>2. t.fromDebug \in BOOLEAN
    BY WritebackTyped
  <2>3. epoch' = epoch /\ pc' = pc /\ newEpoch' = <<>>
    BY <1>1, <1>2, <2>1, <2>2, GoesOnSteps
  <2> QED BY <2>3 DEF Writeback
<1>4. /\ Completing(p, k, c, x, z) /\ Control(p, 1, s, c) /\ 1 = FirstOf(p) /\ s = k + 1
      /\ p[1].epoch # c.epoch
      /\ x.pc = c.pc /\ x.epoch = c.epoch /\ x.newEpoch = c.newEpoch /\ x.due = c.due
  BY <1>1, <1>2, <1>3, HeadControl DEF Writeback, Branching, Leaves
<1> HIDE DEF p, z, c, x, s
<1>5. Control(z, 1, k, x)
  BY <1>4, DeadControl
<1>6. ~Writing(t, exception)
  BY DEF Writing
<1>7. Completes(t, epoch, t.inst.dest, Data(t, loaded), Writing(t, exception))
  BY <1>1, <1>6 DEF Completes
<1>8. FlowInv'
  BY <1>3, <1>5, <1>7, ContinueFlow DEF z, x
<1>9. rf'.regFile = rf.regFile
  BY <1>6, WritebackTyped
<1> QED BY <1>3, <1>8, <1>9 DEF Quiet

LEMMA DebugFlow ==
  ASSUME NEW t, NEW k, NEW q, NEW h, NEW exception, NEW loaded, Writeback(t, k, q, h, exception, loaded),
         t.fromDebug, ~Branches(t)
  PROVE  FlowInv' /\ due' = due
<1> DEFINE p == Line
           z == Line'
           c == Branching
           x == Branching'
           s == k + 1
<1>1. IInv /\ FlowInv /\ Leaves(t, k) /\ exception \in BOOLEAN
  BY DEF Writeback
<1>2. /\ FirstOf(p) = 2 /\ t.epoch = epoch /\ newEpoch = <<>> /\ t.inst \in DebugInstructions
  BY <1>1, DebugHead
<1>3. t.inst.kind # "eret" /\ ~Dead(t)
  BY <1>2, CodeAssumption DEF Dead
<1>4. epoch' = epoch /\ newEpoch' = <<>> /\ due' = due
  <2>1. pcWriteback(IF exception THEN Entry ELSE Target(t), exception, FALSE, t.fromDebug)
    BY <1>3 DEF Writeback, WritesPC, FlushesPipe
  <2>2. t.fromDebug \in BOOLEAN
    BY WritebackTyped
  <2>3. epoch' = epoch /\ newEpoch' = <<>>
    BY <1>1, <1>2, <2>1, <2>2, GoesOnSteps
  <2> QED BY <1>3, <2>3 DEF Writeback
<1>5. /\ Completing(p, k, c, x, z) /\ Control(p, 2, s, c) /\ 2 = FirstOf(p) /\ s = k + 1
      /\ x.epoch = c.epoch /\ x.newEpoch = <<>> /\ x.due = c.due
  BY <1>1, <1>2, <1>4, HeadControl DEF Writeback, Branching
<1> HIDE DEF p, z, c, x, s
<1>6. Control(z, 1, k, x)
  BY <1>5, DebugControl
<1>7. Completes(t, epoch, t.inst.dest, Data(t, loaded), Writing(t, exception))
  <2>1. exception => t.inst.kind = "load"
    BY DEF Writeback, MayTrap
  <2>2. Writing(t, exception) <=> DoesWrite(t.inst, t.b) /\ ~exception
    BY <1>3 DEF Writing
  <2>3. t.inst.kind = "load" => (DoesWrite(t.inst, t.b) <=> Writes(t.inst))
    BY DEF DoesWrite, IsConditional
  <2>4. t.inst.kind # "load" => Data(t, loaded) = t.result
    BY DEF Data
  <2> QED BY <1>2, <2>1, <2>2, <2>3, <2>4 DEF Completes
<1>8. FlowInv'
  BY <1>4, <1>6, <1>7, ContinueFlow DEF z, x
<1> QED BY <1>4, <1>8

LEMMA RestartFlow ==
  ASSUME Epochs >= 4, NEW t, NEW k, NEW q, NEW h, NEW exception, NEW loaded,
         Writeback(t, k, q, h, exception, loaded), ~Dead(t),
         Restarts(Branching, Branching', FirstOf(Line))
  PROVE  FlowInv'
<1> DEFINE p == Line
           z == Line'
           c == Branching
           x == Branching'
           s == k + 1
           g == FirstOf(Line)
           d == Data(t, loaded)
           w == Writing(t, exception)
           y == t.inst.dest
<1>1. IInv /\ FlowInv /\ Leaves(t, k) /\ GivenBack(q, k, h) /\ t.epoch = epoch /\ epoch \in Epoch
  BY DEF Writeback, Dead, IInv, BranchInv
<1>2. /\ Completing(p, k, c, x, z) /\ Control(p, g, s, c) /\ g = FirstOf(p) /\ s = k + 1
      /\ p[1].epoch = c.epoch /\ c.epoch \in Epoch /\ Restarts(c, x, g) /\ c.epoch = epoch
      /\ x.epoch = epoch'
  BY <1>1, HeadControl DEF Writeback, Branching, Leaves
<1>3. /\ y \in Register /\ d \in Value /\ w \in BOOLEAN /\ q = writeReg(rf, y, d, w)
      /\ w => Writes(t.inst)
  BY WritebackTyped DEF Writing, DoesWrite
<1> HIDE DEF p, z, c, x, s, g, d, w, y
<1>4. (\A i \in 1 .. Len(p) : p[i].epoch = c.epoch) /\ Control(z, 1, k, x)
  BY <1>2, RestartControl
<1>5. epoch' # epoch
  BY <1>1, <1>2, LaterFacts DEF Restarts
<1>6. Correct(Line', epoch', q, h)
  <2>1. \A i \in 1 .. Len(Line) : Line[i].epoch = epoch
    BY <1>2, <1>4 DEF p
  <2> DEFINE f == epoch'
  <2>2. f # epoch
    BY <1>5
  <2> HIDE DEF f
  <2>3. Correct(Line', f, q, h)
    BY <1>1, <1>3, <2>1, <2>2, RestartCorrect
  <2> QED BY <2>3 DEF f
<1> QED BY <1>4, <1>6, LeaveFlow DEF z, x

-----------------------------------------------------------------------------
(* What completes, as steps of the machine.                                *)

LEMMA SameInstructions ==
  ASSUME NEW i, NEW x, NEW a, NEW b
  PROVE  /\ M!IsBranch(i) <=> IsBranch(i)
         /\ M!Takes(i, a) <=> Takes(i, a)
         /\ M!Plus(x, 1) = Plus(x, 1) /\ M!Plus(x, 2) = Plus(x, 2)
         /\ M!Result(i, x, a, b) = Result(i, x, a, b)
         /\ M!DoesWrite(i, b) <=> DoesWrite(i, b)
         /\ M!Value = Value
BY DEF M!IsBranch, IsBranch, M!Takes, Takes, M!Plus, Plus, M!Result, Result, M!DoesWrite, DoesWrite,
       M!Writes, Writes, M!IsConditional, IsConditional, M!Value, Value

LEMMA Fields ==
  ASSUME NEW d, NEW x, NEW y, d = [at |-> x, after |-> y]
  PROVE  d.at = x /\ d.after = y
OBVIOUS

(* Where an instruction of the program leads.                              *)
LEMMA FollowsMachine ==
  ASSUME NEW t \in Token, ~t.fromDebug, t.branchDelay <=> due.after # NoAddress,
         t.branchDelay => t.inst.kind # "eret", due' = DueAfter(t, FALSE)
  PROVE  M!Follow(t.inst, t.pc, t.a)
<1>1. /\ M!IsBranch(t.inst) <=> IsBranch(t.inst)
      /\ M!Takes(t.inst, t.a) <=> Takes(t.inst, t.a)
      /\ M!Plus(t.pc, 1) = Plus(t.pc, 1) /\ M!Plus(t.pc, 2) = Plus(t.pc, 2)
  BY SameInstructions
<1>2. CASE t.branchDelay
  <2>1. due' = [at |-> due.after, after |-> NoAddress]
    BY <1>2 DEF DueAfter
  <2>2. due'.at = due.after /\ due'.after = NoAddress
    BY <2>1, Fields
  <2> QED BY <1>1, <1>2, <2>2 DEF M!Follow
<1>3. CASE ~t.branchDelay /\ ~IsBranch(t.inst)
  <2>1. due' = [at |-> Target(t), after |-> NoAddress]
    BY <1>3 DEF DueAfter, Branches
  <2>2. due'.after = NoAddress /\ due'.at = Target(t)
    BY <2>1, Fields, ZenonT(60)
  <2>3. Target(t) = IF t.inst.kind = "eret" THEN t.inst.target ELSE Plus(t.pc, 1)
    BY <1>3 DEF Target, Taken, Branches
  <2> QED BY <1>1, <1>3, <2>2, <2>3 DEF M!Follow
<1>4. CASE ~t.branchDelay /\ IsBranch(t.inst) /\ Takes(t.inst, t.a)
  <2>1. t.inst.kind # "eret" /\ Branches(t) /\ Taken(t)
    BY <1>4 DEF IsBranch, Branches, Taken
  <2>2. ~FlushesPipe(t) /\ Target(t) = t.inst.target
    BY <2>1 DEF FlushesPipe, Target
  <2>3. due' = [at |-> Plus(t.pc, 1), after |-> t.inst.target]
    BY <1>4, <2>1, <2>2 DEF DueAfter
  <2>4. due'.at = Plus(t.pc, 1) /\ due'.after = t.inst.target
    <3> DEFINE x == Plus(t.pc, 1)
               y == t.inst.target
    <3>1. due' = [at |-> x, after |-> y]
      BY <2>3
    <3> HIDE DEF x, y
    <3>2. due'.at = x /\ due'.after = y
      BY <3>1, Fields
    <3> QED BY <3>2 DEF x, y
  <2> QED BY <1>1, <1>4, <2>1, <2>4 DEF M!Follow
<1>5. CASE ~t.branchDelay /\ IsBranch(t.inst) /\ ~Takes(t.inst, t.a) /\ t.inst.kind = "likely"
  <2>1. Branches(t) /\ ~Taken(t)
    BY <1>5 DEF Branches, Taken
  <2>2. FlushesPipe(t) /\ Target(t) = Plus(t.pc, 2)
    BY <1>5, <2>1 DEF FlushesPipe, Target
  <2>3. due' = [at |-> Plus(t.pc, 2), after |-> NoAddress]
    BY <1>5, <2>1, <2>2 DEF DueAfter
  <2>4. due'.at = Plus(t.pc, 2) /\ due'.after = NoAddress
    <3> DEFINE x == Plus(t.pc, 2)
               y == NoAddress
    <3>1. due' = [at |-> x, after |-> y]
      BY <2>3
    <3> HIDE DEF x, y
    <3>2. due'.at = x /\ due'.after = y
      BY <3>1, Fields
    <3> QED BY <3>2 DEF x, y
  <2> QED BY <1>1, <1>5, <2>4 DEF M!Follow
<1>6. CASE ~t.branchDelay /\ IsBranch(t.inst) /\ ~Takes(t.inst, t.a) /\ t.inst.kind # "likely"
  <2>1. Branches(t) /\ ~Taken(t) /\ t.inst.kind # "eret"
    BY <1>6 DEF Branches, Taken, IsBranch
  <2>2. ~FlushesPipe(t) /\ Target(t) = Plus(t.pc, 2)
    BY <1>6, <2>1 DEF FlushesPipe, Target
  <2>3. due' = [at |-> Plus(t.pc, 1), after |-> Plus(t.pc, 2)]
    BY <1>6, <2>1, <2>2 DEF DueAfter
  <2>4. due'.at = Plus(t.pc, 1) /\ due'.after = Plus(t.pc, 2)
    <3> DEFINE x == Plus(t.pc, 1)
               y == Plus(t.pc, 2)
    <3>1. due' = [at |-> x, after |-> y]
      BY <2>3
    <3> HIDE DEF x, y
    <3>2. due'.at = x /\ due'.after = y
      BY <3>1, Fields
    <3> QED BY <3>2 DEF x, y
  <2> QED BY <1>1, <1>6, <2>1, <2>4 DEF M!Follow
<1> QED BY <1>2, <1>3, <1>4, <1>5, <1>6

LEMMA WritebackFile ==
  ASSUME NEW t, NEW k, NEW q, NEW h, NEW exception, NEW loaded, Writeback(t, k, q, h, exception, loaded),
         ~Dead(t), ~exception
  PROVE  /\ rf'.regFile = IF DoesWrite(t.inst, t.b)
                          THEN [rf.regFile EXCEPT ![t.inst.dest] = Data(t, loaded)] ELSE rf.regFile
         /\ Data(t, loaded) \in Value
<1>1. /\ q.regFile = IF Writing(t, exception)
                     THEN [rf.regFile EXCEPT ![t.inst.dest] = Data(t, loaded)] ELSE rf.regFile
      /\ rf' = q /\ Data(t, loaded) \in Value
  BY WritebackTyped
<1>2. Writing(t, exception) <=> DoesWrite(t.inst, t.b)
  BY DEF Writing
<1> QED BY <1>1, <1>2

LEMMA RetireMachine ==
  ASSUME NEW t, NEW k, NEW q, NEW h, NEW exception, NEW loaded, Writeback(t, k, q, h, exception, loaded),
         ~Dead(t), ~t.fromDebug, ~exception
  PROVE  M!Retire
<1>1. IInv /\ FlowInv /\ Leaves(t, k) /\ GivenBack(q, k, h) /\ t.epoch = epoch /\ exception = FALSE
  BY DEF Writeback, Dead
<1>2. /\ t.inst = Code[t.pc] /\ t.pc = due.at /\ (t.branchDelay <=> due.after # NoAddress)
      /\ t.branchDelay => t.inst.kind # "eret"
  BY <1>1, ProgramHead
<1>3. Right(t, rf.regFile)
  BY <1>1, OperandsRight
<1>4. /\ t.a = rf.regFile[t.inst.a] /\ t.b = rf.regFile[t.inst.b]
      /\ t.result = Result(t.inst, t.pc, t.a, t.b)
  BY <1>3 DEF Right, Given
<1>5. M!Follow(t.inst, t.pc, t.a)
  <2>1. due' = DueAfter(t, FALSE)
    BY <1>1 DEF Writeback
  <2> QED BY <1>2, <2>1, WritebackTyped, FollowsMachine
<1>6. /\ rf'.regFile = IF DoesWrite(t.inst, t.b)
                       THEN [rf.regFile EXCEPT ![t.inst.dest] = Data(t, loaded)] ELSE rf.regFile
      /\ Data(t, loaded) \in Value
  BY WritebackFile
<1>7. /\ M!Result(t.inst, t.pc, t.a, t.b) = Result(t.inst, t.pc, t.a, t.b)
      /\ M!DoesWrite(t.inst, t.b) <=> DoesWrite(t.inst, t.b)
      /\ M!Value = Value
  BY SameInstructions
<1>8. \E v \in IF t.inst.kind = "load" THEN M!Value ELSE { M!Result(t.inst, t.pc, t.a, t.b) } :
        rf'.regFile = IF M!DoesWrite(t.inst, t.b) THEN [rf.regFile EXCEPT ![t.inst.dest] = v]
                      ELSE rf.regFile
  <2>1. Data(t, loaded) \in IF t.inst.kind = "load" THEN M!Value
                            ELSE { M!Result(t.inst, t.pc, t.a, t.b) }
    BY <1>4, <1>6, <1>7 DEF Data
  <2> QED BY <1>6, <1>7, <2>1
<1>9. Code[due.at] = t.inst /\ due.at = t.pc
  BY <1>2
<1> QED BY <1>4, <1>5, <1>8, <1>9 DEF M!Retire, M!Written

LEMMA TrapMachine ==
  ASSUME NEW t, NEW k, NEW q, NEW h, NEW exception, NEW loaded, Writeback(t, k, q, h, exception, loaded),
         ~Dead(t), ~t.fromDebug, exception
  PROVE  M!Trap /\ due' = [at |-> Entry, after |-> NoAddress]
<1>1. IInv /\ FlowInv /\ Leaves(t, k) /\ t.epoch = epoch /\ exception \in BOOLEAN /\ MayTrap(t)
  BY DEF Writeback, Dead
<1>2. t.pc = due.at
  BY <1>1, ProgramHead
<1>3. due' = [at |-> Entry, after |-> NoAddress]
  BY <1>1 DEF Writeback, DueAfter
<1>4. rf'.regFile = rf.regFile
  BY WritebackTyped DEF Writing
<1> QED BY <1>1, <1>2, <1>3, <1>4 DEF M!Trap, MayTrap

LEMMA DebugMachine ==
  ASSUME NEW t, NEW k, NEW q, NEW h, NEW exception, NEW loaded, Writeback(t, k, q, h, exception, loaded),
         t.fromDebug
  PROVE  IF exception THEN UNCHANGED M!vars
         ELSE \E i \in DebugInstructions : M!Debug(i)
<1>1. IInv /\ FlowInv /\ Leaves(t, k) /\ GivenBack(q, k, h) /\ exception \in BOOLEAN
  BY DEF Writeback
<1>2. /\ t.inst \in DebugInstructions /\ ~t.branchDelay /\ t.pc = Reset /\ t.epoch = epoch /\ ~Dead(t)
  BY <1>1, DebugHead DEF Dead
<1>3. Right(t, rf.regFile)
  BY <1>1, <1>2, OperandsRight
<1>4. /\ t.a = M!Operand(t.inst.a) /\ t.b = M!Operand(t.inst.b)
      /\ t.result = Result(t.inst, Reset, t.a, t.b)
  BY <1>2, <1>3 DEF Right, Given, M!Operand
<1>5. CASE exception
  <2>1. t.inst.kind = "load"
    BY <1>5 DEF Writeback, MayTrap
  <2>2. due' = due
    BY <1>2, <2>1 DEF Writeback, Branches, IsBranch
  <2>3. rf'.regFile = rf.regFile
    BY <1>5, WritebackTyped DEF Writing
  <2> QED BY <1>5, <2>2, <2>3 DEF M!vars
<1>6. CASE ~exception
  <2>1. /\ rf'.regFile = IF DoesWrite(t.inst, t.b)
                         THEN [rf.regFile EXCEPT ![t.inst.dest] = Data(t, loaded)] ELSE rf.regFile
        /\ Data(t, loaded) \in Value
    BY <1>2, <1>6, WritebackFile
  <2>2. /\ M!Result(t.inst, Reset, t.a, t.b) = Result(t.inst, Reset, t.a, t.b)
        /\ M!DoesWrite(t.inst, t.b) <=> DoesWrite(t.inst, t.b)
        /\ M!IsBranch(t.inst) <=> IsBranch(t.inst)
        /\ M!Value = Value
    BY SameInstructions
  <2>3. \E v \in IF t.inst.kind = "load" THEN M!Value ELSE { M!Result(t.inst, Reset, t.a, t.b) } :
          rf'.regFile = IF M!DoesWrite(t.inst, t.b) THEN [rf.regFile EXCEPT ![t.inst.dest] = v]
                        ELSE rf.regFile
    <3>1. Data(t, loaded) \in IF t.inst.kind = "load" THEN M!Value
                              ELSE { M!Result(t.inst, Reset, t.a, t.b) }
      BY <1>4, <2>1, <2>2 DEF Data
    <3> QED BY <2>1, <2>2, <3>1
  <2>4. IF IsBranch(t.inst) THEN due'.at = t.inst.target /\ due'.after = NoAddress ELSE due' = due
    <3>1. CASE IsBranch(t.inst)
      <4>1. Branches(t) /\ t.inst.kind = "jump"
        BY <1>2, <3>1, CodeAssumption DEF Branches, IsBranch
      <4>2. Target(t) = t.inst.target
        BY <4>1 DEF Target, Taken, Takes
      <4>3. due' = [at |-> Target(t), after |-> NoAddress]
        BY <1>2, <4>1 DEF Writeback
      <4> QED BY <3>1, <4>2, <4>3
    <3>2. CASE ~IsBranch(t.inst)
      BY <1>2, <3>2 DEF Writeback, Branches
    <3> QED BY <3>1, <3>2
  <2>5. M!Debug(t.inst)
    BY <1>4, <2>2, <2>3, <2>4 DEF M!Debug, M!Written
  <2> QED BY <1>2, <1>6, <2>5
<1> QED BY <1>1, <1>5, <1>6

-----------------------------------------------------------------------------
(* An instruction of the program that completes while the epoch goes on.   *)
LEMMA RetireFlow ==
  ASSUME Epochs >= 4, NEW t, NEW k, NEW q, NEW h, NEW exception, NEW loaded,
         Writeback(t, k, q, h, exception, loaded), ~Dead(t), ~t.fromDebug, ~exception,
         ~FlushesPipe(t), newEpoch = <<>>
  PROVE  FlowInv'
<1> DEFINE p == Line
           z == Line'
           c == Branching
           x == Branching'
           s == k + 1
<1>1. IInv /\ FlowInv /\ Leaves(t, k) /\ t.epoch = epoch /\ exception = FALSE /\ epoch \in Epoch
      /\ t.branchDelay \in BOOLEAN
  BY DEF Writeback, Dead, IInv, BranchInv, Leaves, Token
<1>2. FirstOf(p) = 1
  BY <1>1, ProgramHead
<1>3. /\ epoch' = epoch /\ pc' = IF WritesPC(t) THEN Target(t) ELSE pc
      /\ newEpoch' = IF WritesPC(t) /\ ~t.fromDebug /\ predictionCheck[1].isBranch
                        /\ predictionCheck[1].target # Target(t)
                     THEN <<Later(epoch, 1)>> ELSE <<>>
  <2> DEFINE w == WritesPC(t)
             y == Target(t)
  <2>1. w \in BOOLEAN
    BY <1>1 DEF WritesPC
  <2> DEFINE w1 == ~Dead(t) /\ (exception \/ WritesPC(t))
             y1 == IF exception THEN Entry ELSE Target(t)
             f1 == ~Dead(t) /\ ((exception /\ ~t.fromDebug) \/ FlushesPipe(t))
  <2>5. pcWriteback(y1, w1, f1, t.fromDebug)
    BY DEF Writeback
  <2>6. w1 = w /\ y1 = y /\ f1 = FALSE
    BY <1>1, <2>1
  <2> HIDE DEF w, y, w1, y1, f1
  <2>2. pcWriteback(y, w, FALSE, t.fromDebug)
    BY <2>5, <2>6
  <2>3. t.fromDebug \in BOOLEAN
    BY WritebackTyped
  <2>4. /\ epoch' = epoch /\ pc' = IF w THEN y ELSE pc
        /\ newEpoch' = IF w /\ ~t.fromDebug /\ predictionCheck[1].isBranch
                          /\ predictionCheck[1].target # y
                       THEN <<Later(epoch, 1)>> ELSE <<>>
    BY <1>1, <2>1, <2>2, <2>3, GoesOnSteps
  <2> QED BY <2>4 DEF w, y
<1>4. WritesPC(t) <=> ~t.branchDelay
  BY DEF WritesPC
<1>5. predictionCheck[1].isBranch <=> Branches(t)
  BY <1>1, CheckedHead
<1>6. Retires(c, x, t)
  <2>1. Branches(t) => ~t.branchDelay
    BY DEF Branches
  <2>2. c.predictionCheck = predictionCheck /\ c.epoch = epoch /\ c.due = due
        /\ x.epoch = epoch' /\ x.newEpoch = newEpoch' /\ x.pc = pc' /\ x.due = due'
    BY DEF Branching
  <2>3. x.newEpoch = IF Missed(c, t) THEN <<Later(c.epoch, 1)>> ELSE <<>>
    BY <1>3, <1>4, <1>5, <2>1, <2>2 DEF Missed
  <2>4. ~t.branchDelay => x.pc = Target(t)
    BY <1>3, <1>4, <2>2
  <2>5. due' = DueAfter(t, FALSE)
    BY <1>1 DEF Writeback
  <2>6. CASE t.branchDelay
    <3>1. due' = [at |-> due.after, after |-> NoAddress]
      BY <2>5, <2>6 DEF DueAfter
    <3>2. Follows(c, t) = [at |-> due.after, after |-> NoAddress]
      BY <2>2, <2>6 DEF Follows
    <3> QED BY <1>3, <2>2, <2>3, <2>4, <3>1, <3>2 DEF Retires
  <2>7. CASE ~t.branchDelay /\ Branches(t)
    <3>1. due' = [at |-> Plus(t.pc, 1), after |-> Target(t)]
      BY <2>5, <2>7 DEF DueAfter
    <3>2. Follows(c, t) = [at |-> Plus(t.pc, 1), after |-> Target(t)]
      BY <2>7 DEF Follows
    <3> QED BY <1>3, <2>2, <2>3, <2>4, <3>1, <3>2 DEF Retires
  <2>8. CASE ~t.branchDelay /\ ~Branches(t)
    <3>1. due' = [at |-> Target(t), after |-> NoAddress]
      BY <2>5, <2>8 DEF DueAfter
    <3>2. Target(t) = Plus(t.pc, 1)
      BY <2>8 DEF Target, Taken, Branches, FlushesPipe
    <3>3. Follows(c, t) = [at |-> Plus(t.pc, 1), after |-> NoAddress]
      BY <2>8 DEF Follows
    <3>4. due' = Follows(c, t)
      BY <3>1, <3>2, <3>3
    <3> QED BY <1>3, <2>2, <2>3, <2>4, <3>4 DEF Retires
  <2> QED BY <1>1, <2>6, <2>7, <2>8
<1>7. /\ Completing(p, k, c, x, z) /\ Control(p, 1, s, c) /\ 1 = FirstOf(p) /\ s = k + 1
      /\ c.epoch \in Epoch /\ t = p[1] /\ t.epoch = c.epoch /\ c.newEpoch = <<>>
  BY <1>1, <1>2, HeadControl DEF Writeback, Branching, Leaves
<1> HIDE DEF p, z, c, x, s
<1>8. Control(z, 1, k, x)
  BY <1>6, <1>7, RetireControl
<1>9. Completes(t, epoch, t.inst.dest, Data(t, loaded), Writing(t, exception))
  <2>1. Writing(t, exception) <=> DoesWrite(t.inst, t.b)
    BY DEF Writing
  <2>2. t.inst.kind = "load" => (DoesWrite(t.inst, t.b) <=> Writes(t.inst))
    BY DEF DoesWrite, IsConditional
  <2>3. t.inst.kind # "load" => Data(t, loaded) = t.result
    BY DEF Data
  <2> QED BY <1>1, <2>1, <2>2, <2>3 DEF Completes
<1> QED BY <1>3, <1>8, <1>9, ContinueFlow DEF z, x

(* A jump of the debug unit's.                                             *)
LEMMA DebugJumpFlow ==
  ASSUME Epochs >= 4, NEW t, NEW k, NEW q, NEW h, NEW exception, NEW loaded,
         Writeback(t, k, q, h, exception, loaded), t.fromDebug, Branches(t)
  PROVE  FlowInv'
<1>1. IInv /\ FlowInv /\ Leaves(t, k) /\ exception \in BOOLEAN
  BY DEF Writeback
<1>2. FirstOf(Line) = 2 /\ ~Dead(t) /\ newEpoch = <<>>
  BY <1>1, DebugHead DEF Dead
<1>3. exception = FALSE
  BY <1>1 DEF Writeback, MayTrap, Branches, IsBranch
<1>4. WritesPC(t) /\ FlushesPipe(t)
  BY DEF WritesPC, FlushesPipe, Branches
<1>5. pcWriteback(Target(t), TRUE, TRUE, t.fromDebug)
  BY <1>2, <1>3, <1>4 DEF Writeback
<1>6. epoch' = Later(epoch, 1) /\ newEpoch' = <<>> /\ pc' = Target(t)
  BY <1>1, <1>2, <1>5, FlushSteps
<1>7. due' = [at |-> Target(t), after |-> NoAddress]
  BY <1>2 DEF Writeback
<1>8. due'.at = Target(t) /\ due'.after = NoAddress
  BY <1>7, Fields
<1>9. Restarts(Branching, Branching', FirstOf(Line))
  BY <1>2, <1>6, <1>8 DEF Restarts, Branching
<1> QED BY <1>2, <1>9, RestartFlow

(* An exception of the program's.                                          *)
LEMMA TrapFlow ==
  ASSUME Epochs >= 4, NEW t, NEW k, NEW q, NEW h, NEW exception, NEW loaded,
         Writeback(t, k, q, h, exception, loaded), ~t.fromDebug, ~Dead(t), exception
  PROVE  FlowInv'
<1>1. IInv /\ FlowInv /\ Leaves(t, k) /\ exception = TRUE /\ t.epoch = epoch
  BY DEF Writeback, Dead
<1>2. FirstOf(Line) = 1
  BY <1>1, ProgramHead
<1>3. pcWriteback(Entry, TRUE, TRUE, t.fromDebug)
  BY <1>1 DEF Writeback
<1>4. /\ epoch' \in { Later(epoch, 1), Later(epoch, 2) } /\ newEpoch' = <<>> /\ pc' = Entry
  BY <1>1, <1>3, FlushSteps
<1>5. due' = [at |-> Entry, after |-> NoAddress]
  BY TrapMachine
<1>6. due'.at = Entry /\ due'.after = NoAddress
  BY <1>5, Fields
<1>7. Restarts(Branching, Branching', FirstOf(Line))
  BY <1>2, <1>4, <1>6 DEF Restarts, Branching
<1> QED BY <1>7, RestartFlow

(* An exception return, or a likely branch that is not taken.              *)
LEMMA FlushPipeFlow ==
  ASSUME Epochs >= 4, NEW t, NEW k, NEW q, NEW h, NEW exception, NEW loaded,
         Writeback(t, k, q, h, exception, loaded), ~t.fromDebug, ~Dead(t), ~exception,
         FlushesPipe(t)
  PROVE  FlowInv'
<1>1. IInv /\ FlowInv /\ Leaves(t, k) /\ exception = FALSE /\ t.epoch = epoch
  BY DEF Writeback, Dead
<1>2. FirstOf(Line) = 1 /\ (t.branchDelay => t.inst.kind # "eret")
  BY <1>1, ProgramHead
<1>3. ~t.branchDelay
  BY <1>2 DEF FlushesPipe, Branches
<1>4. WritesPC(t)
  BY <1>3 DEF WritesPC
<1>5. pcWriteback(Target(t), TRUE, TRUE, t.fromDebug)
  BY <1>1, <1>4 DEF Writeback
<1>6. /\ epoch' \in { Later(epoch, 1), Later(epoch, 2) } /\ newEpoch' = <<>> /\ pc' = Target(t)
  BY <1>1, <1>5, FlushSteps
<1>7. due' = [at |-> Target(t), after |-> NoAddress]
  BY <1>1, <1>3 DEF Writeback, DueAfter
<1>8. due'.at = Target(t) /\ due'.after = NoAddress
  BY <1>7, Fields
<1>9. Restarts(Branching, Branching', FirstOf(Line))
  BY <1>2, <1>6, <1>8 DEF Restarts, Branching
<1> QED BY <1>9, RestartFlow

(* The branch delay slot after a misprediction.                            *)
LEMMA DelaySlotFlow ==
  ASSUME Epochs >= 4, NEW t, NEW k, NEW q, NEW h, NEW exception, NEW loaded,
         Writeback(t, k, q, h, exception, loaded), ~t.fromDebug, ~Dead(t), ~exception,
         ~FlushesPipe(t), newEpoch # <<>>
  PROVE  FlowInv'
<1>1. IInv /\ FlowInv /\ Leaves(t, k) /\ exception = FALSE /\ t.epoch = epoch
  BY DEF Writeback, Dead
<1>2. /\ FirstOf(Line) = 1 /\ newEpoch = <<Later(epoch, 1)>> /\ due.after # NoAddress
      /\ pc = due.after /\ t.branchDelay
  BY <1>1, ProgramHead
<1>3. ~WritesPC(t)
  BY <1>2 DEF WritesPC
<1>4. pcWriteback(Target(t), FALSE, FALSE, t.fromDebug)
  BY <1>1, <1>3 DEF Writeback
<1>5. epoch' = Head(newEpoch) /\ newEpoch' = <<>> /\ pc' = pc
  BY <1>1, <1>4, SlotSteps
<1>6. Head(newEpoch) = Later(epoch, 1)
  BY <1>2
<1>7. due' = [at |-> due.after, after |-> NoAddress]
  BY <1>1, <1>2 DEF Writeback, DueAfter
<1>8. due'.at = due.after /\ due'.after = NoAddress
  BY <1>7, Fields
<1>9. Restarts(Branching, Branching', FirstOf(Line))
  BY <1>2, <1>5, <1>6, <1>8 DEF Restarts, Branching
<1> QED BY <1>9, RestartFlow

LEMMA QuietMachine == Quiet => UNCHANGED M!vars
BY DEF Quiet, M!vars

LEMMA WriteBackFlow ==
  ASSUME Epochs >= 4, IInv, IInv', FlowInv, NEW exception \in BOOLEAN, NEW loaded \in Value,
         doWriteBack(exception, loaded)
  PROVE  FlowInv' /\ [M!Next]_(M!vars)
<1>1. PICK t, k, q, h : Writeback(t, k, q, h, exception, loaded)
  BY WritebackIs
<1>2. CASE Dead(t)
  BY <1>1, <1>2, DeadFlow, QuietMachine
<1>3. CASE ~Dead(t) /\ t.fromDebug
  <2>1. FlowInv'
    <3>1. CASE Branches(t)
      BY <1>1, <1>3, <3>1, DebugJumpFlow
    <3>2. CASE ~Branches(t)
      BY <1>1, <1>3, <3>2, DebugFlow
    <3> QED BY <3>1, <3>2
  <2>2. IF exception THEN UNCHANGED M!vars ELSE \E i \in DebugInstructions : M!Debug(i)
    BY <1>1, <1>3, DebugMachine
  <2> QED BY <2>1, <2>2 DEF M!Next
<1>4. CASE ~Dead(t) /\ ~t.fromDebug /\ exception
  <2>1. FlowInv'
    BY <1>1, <1>4, TrapFlow
  <2>2. M!Trap
    BY <1>1, <1>4, TrapMachine
  <2> QED BY <2>1, <2>2 DEF M!Next
<1>5. CASE ~Dead(t) /\ ~t.fromDebug /\ ~exception
  <2>1. FlowInv'
    <3>1. CASE FlushesPipe(t)
      BY <1>1, <1>5, <3>1, FlushPipeFlow
    <3>2. CASE ~FlushesPipe(t) /\ newEpoch # <<>>
      BY <1>1, <1>5, <3>2, DelaySlotFlow
    <3>3. CASE ~FlushesPipe(t) /\ newEpoch = <<>>
      BY <1>1, <1>5, <3>3, RetireFlow
    <3> QED BY <3>1, <3>2, <3>3
  <2>2. M!Retire
    BY <1>1, <1>5, RetireMachine
  <2> QED BY <2>1, <2>2 DEF M!Next
<1> QED BY <1>2, <1>3, <1>4, <1>5

LEMMA NextFlow ==
  ASSUME OnlySettled, Epochs >= 4, IInv, IInv', FlowInv, [Next]_vars
  PROVE  FlowInv' /\ [M!Next]_(M!vars)
<1>1. CASE primeFifo
  BY <1>1, PrimeFlow, QuietMachine
<1>2. CASE flushDelay
  BY <1>2, FlushFlow, QuietMachine
<1>3. CASE instructionFetch
  BY <1>3, FetchFlow, QuietMachine
<1>4. CASE fromFetchToScheduler
  BY <1>4, ScheduleFlow, QuietMachine
<1>5. CASE readRegFilesRule
  BY <1>5, ReadFlow, QuietMachine
<1>6. CASE writePendingRule
  BY <1>6, PendingFlow, QuietMachine
<1>7. CASE fromSchedulerToDecode
  BY <1>7, DecodeFlow, QuietMachine
<1>8. CASE fromDecodeToExecute
  BY <1>8, ExecuteFlow, QuietMachine
<1>9. CASE deliverPendingOp
  BY <1>9, DeliverFlow, QuietMachine
<1>10. CASE fromExecuteToMemAccess
  BY <1>10, AccessFlow, QuietMachine
<1>11. ASSUME NEW exception \in BOOLEAN, NEW loaded \in Value, doWriteBack(exception, loaded)
       PROVE  FlowInv' /\ [M!Next]_(M!vars)
  BY <1>11, WriteBackFlow
<1>12. CASE debugInstructionFetch
  BY <1>12, DebugFetchFlow, QuietMachine
<1>13. CASE SetPause \/ UNCHANGED vars
  BY <1>13, PauseFlow, QuietMachine
<1> QED
  BY <1>1, <1>2, <1>3, <1>4, <1>5, <1>6, <1>7, <1>8, <1>9, <1>10, <1>11, <1>12, <1>13 DEF Next, Rules

LEMMA InitMachine == Init => M!Init
BY DEF Init, M!Init, EmptyRegFile, Register, M!Register

(* What the line of instructions and the register file are to each other,  *)
(* always.                                                                 *)
THEOREM FlowInvariant ==
  ASSUME OnlySettled, Epochs >= 4
  PROVE  Spec => []FlowInv
<1>1. Init => FlowInv
  BY InitFlow
<1>2. IInv /\ IInv' /\ FlowInv /\ [Next]_vars => FlowInv'
  BY NextFlow
<1> QED BY <1>1, <1>2, Invariant, PTL DEF Spec

(* The pipeline implements the machine that executes one instruction after *)
(* the other (MIPSTop.bsv, BranchSimple.bsv, ForwardingPipelinedRegFile.bsv): *)
(* for every program, every number of rename registers, predictions of any *)
(* kind and every interleaving of the stages.                              *)
THEOREM Refinement ==
  ASSUME OnlySettled, Epochs >= 4
  PROVE  Spec => ImplementsMachine
<1>1. Init => M!Init
  BY InitMachine
<1>2. IInv /\ IInv' /\ FlowInv /\ [Next]_vars => [M!Next]_(M!vars)
  BY NextFlow
<1> QED BY <1>1, <1>2, Invariant, FlowInvariant, PTL DEF Spec, ImplementsMachine, M!Spec
=============================================================================
