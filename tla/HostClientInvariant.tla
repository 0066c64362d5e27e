------------------------ MODULE HostClientInvariant ------------------------
(***************************************************************************)
(* What is invariant of HostClient, and inductive: HostClientProofs proves *)
(* it.                                                                     *)
(*                                                                         *)
(* A command is a sequence of steps of any length, so that what its steps  *)
(* may do when they are reached is not read off the actions.  Good is the  *)
(* set of the configurations from which a command goes on well: what the   *)
(* host knows, the replies it is still owed, and where it is in the        *)
(* command.  Owed says what the bytes on their way back can be, and IInv   *)
(* that the two fit together.  Way is the set of the places from which a   *)
(* command leaves the state of a BERI2's pipeline as it was, and StateInv  *)
(* says that a session is at one.                                          *)
(***************************************************************************)
EXTENDS HostClient

-----------------------------------------------------------------------------
(* Replies that are owed, in order, by their ops; the entries of a trace   *)
(* up to its last one are one of them, which has no op of its own.         *)
Streamed == 256
SetOps == {PAUSEPIPELINE, RESUMEPIPELINE, RESUMEUNPIPELINED}

Owes(b, op) ==
  CASE op = RESET                      -> << >>
    [] b /\ op = RESUMESTREAMING       -> <<op, Streamed>>
    [] ~b /\ op = STREAM_TRACE_START   -> <<Streamed>>
    [] OTHER                           -> <<op>>

(* The ops whose replies have an op of their own.                          *)
Ops(b) == {op \in 0 .. 126 : op \notin {45, 46, 69} /\ ~(b /\ op = RESET)}

(* The length of a reply.                                                  *)
ReplyLength(b, op) ==
  IF b
  THEN CASE op \in SetOps \cup {RESUMESTREAMING} -> 1
         [] op \in {GETPC, GETDOUBLEWORD, GETREGISTER} -> 8
         [] op = GETWORD -> 4
         [] op = GETHALFWORD -> 2
         [] op = GETBYTE -> 1
         [] op = GETC2REGISTER -> 32
         [] OTHER -> 0
  ELSE CASE op = REPORT_DESTINATION -> 8
         [] op \in {PAUSE_EXECUTION, UNPIPELINE_EXECUTION} -> 1
         [] OTHER -> 0

-----------------------------------------------------------------------------
(* Configurations <<q, k, d, hs, p>>: the replies that are owed, whether   *)
(* the pipeline is known to be paused, how many states of it are saved,    *)
(* the callers that go on after a failure, and the steps that are left.    *)
Kinds   == {"write", "read", "readSet", "readPause", "popTrace", "wait", "needPaused", "usage",
            "set", "pause", "restore", "try", "caught", "excepted", "ignored", "drain"}
Steps   == [do : Kinds, op : Int, arg : Int]
Frames  == [rest : Seq(Steps), saved : Seq(0 .. 255), ret : Outcomes]
Configs == Seq(Nat) \X BOOLEAN \X (0 .. 2) \X Seq(Frames) \X Seq(Steps)

(* After a failure nothing is owed.                                        *)
Failed(hs) == IF hs = << >> THEN << <<>>, FALSE, 0, hs, <<>> >>
                            ELSE << <<>>, FALSE, Len(hs[1].saved), hs, hs[1].rest >>

(* What a step needs, and where the command then is, for each kind of it.  *)
(* r are the steps after it and X the set of the configurations.           *)
WriteFits(b, X, q, k, d, hs, s, r) ==
  /\ s.op \in Ops(b) /\ s.arg \in {0, 1}
  /\ <<q \o Owes(b, s.op), k, d, hs, r>> \in X

ReadFits(b, c, X, q, k, d, hs, s, r) ==
  /\ s.op \in Ops(b) /\ ~(b /\ s.op \in SetOps)
  /\ s.arg = ReplyLength(b, s.op)
  /\ c \notin Pipelined => q = Owes(b, s.op)
  /\ \E rest \in Seq(Nat) : q = <<s.op>> \o rest /\ <<rest, k, d, hs, r>> \in X
  /\ Failed(hs) \in X

ReadSetFits(b, X, q, k, d, hs, s, r) ==
  /\ b /\ s.op \in SetOps /\ s.arg = 1 /\ q = <<s.op>>
  /\ << <<>>, s.op = PAUSEPIPELINE, d, hs, r >> \in X
  /\ Failed(hs) \in X

ReadPauseFits(b, X, q, k, d, hs, s, r) ==
  /\ b /\ s.op = PAUSEPIPELINE /\ s.arg = 1 /\ q = <<s.op>>
  /\ << <<>>, TRUE, d + 1, hs, r >> \in X
  /\ Failed(hs) \in X

PopTraceFits(b, X, q, k, d, hs, s, r) ==
  /\ s.op = (IF b THEN POPTRACE ELSE POP_TRACE) /\ s.arg = 32 /\ q = <<Streamed>>
  /\ b => << <<>>, k, d, hs, r >> \in X
  /\ Failed(hs) \in X

WaitFits(b, X, q, k, d, hs, s, r) ==
  /\ s.arg = (IF b THEN 9 ELSE 8) /\ q = << >>
  /\ << <<>>, k, d, hs, r >> \in X
  /\ Failed(hs) \in X

NeedPausedFits(b, X, q, k, d, hs, s, r) ==
  /\ b
  /\ \A i \in 1 .. Len(q) : q[i] \notin SetOps \cup {RESUMESTREAMING, Streamed}
  /\ <<q, TRUE, d, hs, r>> \in X
  /\ ~k => q = << >> /\ Failed(hs) \in X

UsageFits(X, q, hs) == q = << >> /\ Failed(hs) \in X

SetFits(b, X, q, k, d, hs, s, r) ==
  /\ s.op \in {PAUSED, RUNPIPELINED, RUNUNPIPELINED}
  /\ q = << >>
  /\ <<q, k \/ (b /\ s.op = PAUSED), d, hs, r>> \in X
  /\ b => <<q, FALSE, d, hs, ToState("readSet", s.op) \o r>> \in X

PauseFits(b, X, q, k, d, hs, s, r) ==
  /\ q = << >>
  /\ ~b => <<q, k, d, hs, r>> \in X
  /\ b => /\ <<q, TRUE, d + 1, hs, r>> \in X
          /\ <<q, FALSE, d, hs, ToState("readPause", PAUSED) \o r>> \in X

RestoreFits(b, X, q, k, d, hs, s, r) ==
  /\ q = << >>
  /\ ~b => <<q, k, d, hs, r>> \in X
  /\ b => d > 0 /\ \A st \in 0 .. 255 : <<q, FALSE, d - 1, hs, SetAgain(st) \o r>> \in X

TryFits(X, q, k, d, hs, s, r, p) ==
  /\ SubSeq(p, s.op + 2, Len(p)) \in Seq(Steps)
  /\ \A h \in Frames : h.rest = SubSeq(p, s.op + 2, Len(p)) /\ Len(h.saved) = d
                         => <<q, k, d, <<h>> \o hs, r>> \in X

ForgetFits(X, q, k, d, hs, r) ==
  hs # << >> /\ <<q, k, d, Tail(hs), r>> \in X

DrainFits(c, q, d, hs, r) == c = "drain" /\ q = << >> /\ d = 0 /\ hs = << >> /\ r = << >>

(* The whole command is behind; a memory trace is not waited for.          *)
EndFits(c, q, d, hs) ==
  hs = << >> /\ d = 0 /\ (q = << >> \/ (c = "memtrace" /\ q = <<MEM_TRACE>>))

StepFits(b, c, X, q, k, d, hs, s, r, p) ==
  \/ s.do = "write"      /\ WriteFits(b, X, q, k, d, hs, s, r)
  \/ s.do = "read"       /\ ReadFits(b, c, X, q, k, d, hs, s, r)
  \/ s.do = "readSet"    /\ ReadSetFits(b, X, q, k, d, hs, s, r)
  \/ s.do = "readPause"  /\ ReadPauseFits(b, X, q, k, d, hs, s, r)
  \/ s.do = "popTrace"   /\ PopTraceFits(b, X, q, k, d, hs, s, r)
  \/ s.do = "wait"       /\ WaitFits(b, X, q, k, d, hs, s, r)
  \/ s.do = "needPaused" /\ NeedPausedFits(b, X, q, k, d, hs, s, r)
  \/ s.do = "usage"      /\ UsageFits(X, q, hs)
  \/ s.do = "set"        /\ SetFits(b, X, q, k, d, hs, s, r)
  \/ s.do = "pause"      /\ PauseFits(b, X, q, k, d, hs, s, r)
  \/ s.do = "restore"    /\ RestoreFits(b, X, q, k, d, hs, s, r)
  \/ s.do = "try"        /\ TryFits(X, q, k, d, hs, s, r, p)
  \/ s.do \in {"caught", "excepted", "ignored"} /\ ForgetFits(X, q, k, d, hs, r)
  \/ s.do = "drain"      /\ DrainFits(c, q, d, hs, r)

(* What is known may be forgotten.                                         *)
Fits(b, c, X, q, k, d, hs, p) ==
  \/ k /\ <<q, FALSE, d, hs, p>> \in X
  \/ p = << >> /\ EndFits(c, q, d, hs)
  \/ p # << >> /\ StepFits(b, c, X, q, k, d, hs, Head(p), Tail(p), p)

(* The largest set of configurations all of which fit.                     *)
Good(b, c) ==
  UNION {X \in SUBSET Configs : \A w \in X : Fits(b, c, X, w[1], w[2], w[3], w[4], w[5])}

-----------------------------------------------------------------------------
(* The bytes on their way back.  A stream <<x, c, m, t, u>> are the bytes  *)
(* x, which are read by a host that believes the pipeline to be in state   *)
(* c; the mode m of the unit; the replies t that they are, together with   *)
(* what a unit in that mode still has to say; and what the host believes   *)
(* when it has read them.                                                  *)
Bytes   == 0 .. 255
Known   == {UNKNOWN, PAUSED, RUNPIPELINED, RUNUNPIPELINED}
Modes   == {"idle", "streaming", "lost"}
Streams == Seq(Bytes) \X Known \X Modes \X Seq(Nat) \X Known

Pending(m) == CASE m = "streaming" -> <<Streamed>>
                [] m = "lost"      -> <<STEP_EXECUTION>>
                [] m = "idle"      -> << >>

(* The packets, for either kind of unit.                                   *)
ReportOf(b)        == Packet(IF b THEN 46 ELSE 255, Zeros(IF b THEN 9 ELSE 8))
ExceptionOf(b)     == IF b THEN 47 ELSE 197
InvalidOf(b)       == IF b THEN 47 ELSE 32
IsReplyTo(b, op, p) ==
  \E data \in Seq(Bytes) : /\ Len(data) = ReplyLength(b, op)
                           /\ p = Packet(IF b THEN op + 1 ELSE op + 128, data)
MayExceptOf(b)     == IF b THEN SETBYTE .. GETDOUBLEWORD + 1 ELSE {EXECUTE_INSTRUCTION}
UnknownOf(b)       == Unsupported \cup (IF b THEN {} ELSE {MEM_TRACE})
Refuses(b, op, p)  == /\ op # RESET
                      /\ \/ op \in MayExceptOf(b) /\ p = Packet(ExceptionOf(b), Zeros(1))
                         \/ op \in UnknownOf(b)
                            /\ p = Packet(InvalidOf(b), IF b THEN Zeros(1) ELSE << >>)
EntryOf(b, last)   == IF b THEN Packet(43, <<IF last THEN 0 ELSE 1>> \o Zeros(31))
                      ELSE IF last THEN Packet(StreamEnd, << >>)
                      ELSE Packet(244, Zeros(32))
Believed(b, op, c) == IF b /\ op \in SetOps THEN op \div 2 ELSE c

(* What the unit may send, p, and the replies tk that it then owes less or *)
(* has begun to owe.                                                       *)
Moves(b, m, u, p, tk, m2, u2) ==
  \/ m \in {"idle", "streaming"} /\ m2 = m /\ p = ReportOf(b) /\ tk = << >> /\ u2 = u
  \/ \E op \in Ops(b) : /\ m = "idle" /\ m2 = "idle" /\ IsReplyTo(b, op, p)
                        /\ tk = <<op>> /\ u2 = Believed(b, op, u)
  \/ \E op \in Ops(b) : /\ m = "idle" /\ m2 = "idle" /\ Refuses(b, op, p)
                        /\ tk = Owes(b, op) /\ u2 = u
  \/ m = "idle" /\ m2 = "streaming" /\ p = << >> /\ tk = <<Streamed>> /\ u2 = u
  \/ m = "idle" /\ m2 = "lost" /\ p = << >> /\ tk = <<STEP_EXECUTION>> /\ u2 = u
  \/ m = "streaming" /\ m2 = m /\ p = EntryOf(b, FALSE) /\ tk = << >> /\ u2 = u
  \/ m = "streaming" /\ m2 = "idle" /\ p = EntryOf(b, TRUE) /\ tk = << >> /\ u2 = u

ClosedStreams(b, X) ==
  /\ \A c \in Known, m \in Modes : << <<>>, c, m, Pending(m), c >> \in X
  /\ \A x, p \in Seq(Bytes), c, u, u2 \in Known, m, m2 \in Modes, t, tk \in Seq(Nat) :
       <<x, c, m, t, u>> \in X /\ Moves(b, m, u, p, tk, m2, u2)
         => <<x \o p, c, m2, t \o tk, u2>> \in X

(* The smallest set of streams that the unit makes from the empty ones.    *)
Owed(b) == {z \in Streams : \A X \in SUBSET Streams : ClosedStreams(b, X) => z \in X}

-----------------------------------------------------------------------------
(* The state.  What the host knows, q and k, begins a configuration that   *)
(* fits; and the bytes on their way back are, with the requests that are   *)
(* still to be served, the replies q that the host is owed.                *)
Mode == IF unit.lost THEN "lost" ELSE IF unit.state = RUNSTREAMING THEN "streaming" ELSE "idle"

Knows(q, k) == /\ k => cached = PAUSED
               /\ <<q, k, Len(saved), handlers, prog>> \in Good(beri2, cmd)

(* The requests, and the replies that they are owed.                       *)
Reqs(b)      == [op : Ops(b), arg : {0, 1}]
Tokens(b, s) == FlattenSeq([i \in 1 .. Len(s) |-> Owes(b, s[i].op)])

Flows(q, t, u) == /\ <<back, cached, Mode, t, u>> \in Owed(beri2)
                  /\ q = t \o Tokens(beri2, net \o out)
                  /\ beri2 /\ u = PAUSED => unit.state \in {PAUSED, RUNSTREAMING}

Agrees == \E q \in Seq(Nat), k \in BOOLEAN :
            /\ Knows(q, k)
            /\ ~open => q = << >>
            /\ ~sloppy => \E t \in Seq(Nat), u \in Known : Flows(q, t, u)

Types == /\ beri2 \in BOOLEAN /\ ring \in Rings /\ open \in BOOLEAN /\ cmd \in Names
         /\ ret \in Outcomes /\ cached \in Known /\ saved \in Seq(0 .. 255) /\ fired \in BOOLEAN
         /\ out \in Seq(Reqs(beri2)) /\ Len(out) <= ring /\ net \in Seq(Reqs(beri2))
         /\ back \in Seq(Bytes)
         /\ unit \in [state : PAUSED .. RUNSTREAMING, breakpoint : BOOLEAN, lost : BOOLEAN]
         /\ was \in UNKNOWN .. RUNSTREAMING /\ sloppy \in BOOLEAN

Shape == /\ ~open => out = << >> /\ prog = << >> /\ handlers = << >> /\ saved = << >>
         /\ open /\ cmd = "memtrace" => /\ prog \in {<< >>, Write(MEM_TRACE)}
                                        /\ \A i \in 1 .. Len(out) : out[i].op = MEM_TRACE
         /\ open /\ cmd = "drain" => cached = UNKNOWN /\ prog \in {<< >>, Step("drain", 0, 0)}
         /\ unit.lost => ~beri2 /\ unit.state # RUNSTREAMING

IInv == Types /\ Shape /\ Agrees

-----------------------------------------------------------------------------
(* The state of a BERI2's pipeline.  A place <<o, st, c, sv, hs, p, r>> is *)
(* where a session is on its way back to the state w that it found: st is  *)
(* the state when all requests under way have been served; o is the one    *)
(* before the last of them, while the reply to that is waited for, which   *)
(* reports it; c, sv, hs, p and r are what the host knows, the states it   *)
(* has saved, the callers that go on after a failure, the steps that are   *)
(* left and what the command returns.                                      *)
States == {PAUSED, RUNPIPELINED, RUNUNPIPELINED}
Places == (Known \X States \X Known) \X (Seq(0 .. 255) \X Seq(Frames) \X Seq(Steps) \X Outcomes)

Place(o, st, c, sv, hs, p, r) == << <<o, st, c>>, <<sv, hs, p, r>> >>

(* After a failure e.                                                      *)
FailedAt(e, st, c, hs) ==
  IF hs = << >> THEN Place(UNKNOWN, st, c, << >>, hs, << >>, e)
                ELSE Place(UNKNOWN, st, c, hs[1].saved, hs, hs[1].rest, e)

(* Where the command is after a step s, for each kind of it that waits for *)
(* no change of the state; t are the steps after it, p those with it.      *)
Goes(X, st, c, sv, hs, s, t, p, r) ==
  \/ /\ s.do = "drain"
     /\ Place(UNKNOWN, st, c, sv, hs, t, r) \in X
  \/ /\ s.do \in {"write", "read"} /\ s.op \notin SetOps \cup {RESUMESTREAMING}
     /\ Place(UNKNOWN, st, c, sv, hs, t, r) \in X
     /\ s.do = "read" => FailedAt("EXCEPTION", st, c, hs) \in X
  \/ /\ s.do = "write" /\ s.op \in SetOps
     /\ t # << >> /\ Head(t).do \in {"readSet", "readPause"}
     /\ Place(st, s.op \div 2, c, sv, hs, t, r) \in X
  \/ /\ s.do = "needPaused"
     /\ IF c = PAUSED THEN Place(UNKNOWN, st, c, sv, hs, t, r) \in X
                      ELSE FailedAt("NOTPAUSED", st, c, hs) \in X
  \/ /\ s.do = "usage"
     /\ FailedAt("USAGE_ERROR", st, c, hs) \in X
  \/ /\ s.do = "set"
     /\ Place(UNKNOWN, st, c, sv, hs, (IF c # s.op THEN ToState("readSet", s.op) ELSE << >>) \o t, r) \in X
  \/ /\ s.do = "pause"
     /\ IF c # PAUSED THEN Place(UNKNOWN, st, c, sv, hs, ToState("readPause", PAUSED) \o t, r) \in X
                      ELSE Place(UNKNOWN, st, c, <<PAUSED>> \o sv, hs, t, r) \in X
  \/ /\ s.do = "restore"
     /\ Place(UNKNOWN, st, c, Tail(sv), hs, SetAgain(Head(sv)) \o t, r) \in X
  \/ /\ s.do = "try"
     /\ Place(UNKNOWN, st, c, sv,
              <<[rest |-> SubSeq(p, s.op + 2, Len(p)), saved |-> sv, ret |-> r]>> \o hs, t, r) \in X
  \/ /\ s.do = "excepted"
     /\ Place(UNKNOWN, st, c, sv, Tail(hs), t, IF r = "EXCEPTION" THEN "SUCCESS" ELSE r) \in X
  \/ /\ s.do = "ignored"
     /\ Place(UNKNOWN, st, c, sv, Tail(hs), t, Head(hs).ret) \in X

(* The same for the steps that wait for the change.                        *)
Learns(X, o, st, sv, hs, s, t, r) ==
  \/ /\ s.do = "readSet" /\ s.op \div 2 = st
     /\ Place(UNKNOWN, st, st, sv, hs, t, r) \in X
  \/ /\ s.do = "readPause" /\ st = PAUSED
     /\ Place(UNKNOWN, st, PAUSED, <<o>> \o sv, hs, t, r) \in X

(* A command that succeeds has arrived.                                    *)
Aims(w, X, o, st, c, sv, hs, p, r) ==
  \/ p = << >> /\ o = UNKNOWN /\ (r = "SUCCESS" => st = w)
  \/ p # << >> /\ o = UNKNOWN /\ Goes(X, st, c, sv, hs, Head(p), Tail(p), p, r)
  \/ p # << >> /\ o # UNKNOWN /\ Learns(X, o, st, sv, hs, Head(p), Tail(p), r)

AllAim(w, X) ==
  \A z \in X : Aims(w, X, z[1][1], z[1][2], z[1][3], z[2][1], z[2][2], z[2][3], z[2][4])

(* The largest set of places on the way to w.                              *)
Way(w) == UNION {X \in SUBSET Places : AllAim(w, X)}

-----------------------------------------------------------------------------
(* The session whose state is followed, and what is under way then: no     *)
(* change of the state, one that the unit has not served, or its reply,    *)
(* which reports o.  A breakpoint report may be in front of it.            *)
Tracked == open /\ beri2 /\ ~sloppy /\ was # UNKNOWN /\ cmd \notin ChangesState

Reported    == back # << >> => Len(back) >= 2 /\ back[1] = 46 /\ back[2] = 9
Answered(o) == Len(back) >= 3 /\ back[1] \notin {46, 47} /\ back[3] = o

Unchanging(st) ==
  /\ unit.state = st
  /\ \A i \in 1 .. Len(net \o out) : (net \o out)[i].op \notin SetOps \cup {RESUMESTREAMING}
Changing(o, st) ==
  \E x \in SetOps, a \in {0, 1} : /\ net \o out = <<[op |-> x, arg |-> a]>> /\ st = x \div 2
                                  /\ unit.state = o /\ Reported
Changed(o, st) == net \o out = << >> /\ unit.state = st /\ (Reported \/ Answered(o))

Settled(o, st) == \/ o = UNKNOWN /\ Unchanging(st)
                  \/ o # UNKNOWN /\ (Changing(o, st) \/ Changed(o, st))

Here(o, st) == /\ Place(o, st, cached, saved, handlers, prog, ret) \in Way(was)
               /\ Settled(o, st)

StateInv == /\ Tracked => \E o, st : Here(o, st)
            /\ open /\ beri2 => cmd # "control test"
            /\ open /\ cmd = "drain" /\ prog # << >> /\ sloppy => was = UNKNOWN

=============================================================================
