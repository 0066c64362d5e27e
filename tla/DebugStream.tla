----------------------------- MODULE DebugStream -----------------------------
(***************************************************************************)
(* The socket through which a host reaches the debug unit of a simulated   *)
(* processor (debug_stream.c, and the rules debugIn and debugOut of        *)
(* TopSimAxi.bsv): one session at a time, one byte of input held back, one *)
(* byte of output for each poll, and hosts that come and go.               *)
(*                                                                         *)
(* Byte <<c, n>> is the n-th that host c sends; byte n of the unit is the  *)
(* n-th it sends.  The socket of host c is named c, and none is 0.         *)
(***************************************************************************)
EXTENDS Naturals, Sequences

CONSTANTS MaxSent, MaxReplies     \* bytes of a host, bytes of the unit

VARIABLES
  hosts,                            \* every host that has connected
  accepted,                         \* how many of them were accepted
  debug_session_socket,
  debug_session_socket_writable,
  debug_buffer,                     \* << >> when it is not readable
  debugOutFires,                    \* rule debugOut: "no", or it "may" fire in
                                    \* this cycle, in which a poll is over ("polled")
  toUnit, fromUnit,                 \* the FIFOs of the two streams
  heard, said                       \* history: what the unit has taken and sent

debugVars == <<hosts, accepted, debug_session_socket, debug_session_socket_writable,
               debug_buffer, debugOutFires, toUnit, fromUnit, heard, said>>
socketVars == <<accepted, debug_session_socket, debug_session_socket_writable>>

NoSession == 0

-----------------------------------------------------------------------------
(* The C code.                                                             *)
(* Mutant: a byte is read whether or not there is one in the buffer.       *)
MayReadAlways == TRUE
MayRead == debug_buffer = << >>

(* Mutant: nothing is polled for while the socket is known to be writable. *)
PolledUnlessWritable(s) ==
  /\ debug_session_socket' = s
  /\ debug_session_socket_writable' = TRUE
  /\ IF MayRead /\ hosts[s].wire # << >> /\ ~debug_session_socket_writable
     THEN /\ debug_buffer' = <<Head(hosts[s].wire)>>
          /\ hosts' = [hosts EXCEPT ![s].wire = Tail(@)]
     ELSE UNCHANGED <<debug_buffer, hosts>>

(* What read(2) finds on the session's socket: a byte, the end, or nothing *)
(* yet.  The kernel holds more than a unit sends in the bound: a socket is *)
(* always reported as writable.                                            *)
Polled(s) ==
  /\ debug_session_socket' = IF MayRead /\ hosts[s].wire = << >> /\ ~hosts[s].open
                             THEN NoSession ELSE s
  /\ debug_session_socket_writable' = (debug_session_socket' = s)
  /\ IF MayRead /\ hosts[s].wire # << >>
     THEN /\ debug_buffer' = <<Head(hosts[s].wire)>>
          /\ hosts' = [hosts EXCEPT ![s].wire = Tail(@)]
     ELSE UNCHANGED <<debug_buffer, hosts>>

Accepts == accepted < Len(hosts)

(* A host that connects takes the place of the one that is served, whose   *)
(* socket is not closed.  The guard of debugIn calls this every cycle, and *)
(* a poll is made every debug_cycle_interval of them: here, at any time.   *)
debug_poll ==
  /\ debugOutFires # "polled"
  /\ debugOutFires' = IF debugOutFires = "may" THEN "polled" ELSE "no"
  /\ accepted' = IF Accepts THEN accepted + 1 ELSE accepted
  /\ LET s == IF Accepts THEN accepted + 1 ELSE debug_session_socket
     IN  IF s = NoSession
         THEN UNCHANGED <<hosts, debug_session_socket,
                          debug_session_socket_writable, debug_buffer>>
         ELSE Polled(s)
  /\ UNCHANGED <<toUnit, fromUnit, heard, said>>

(* A byte for a session that is gone is eaten; send(2) to a host that is   *)
(* gone fails and closes the session, with what is unread.                 *)
debug_stream_sink_put(ch) ==
  LET s == debug_session_socket
  IN  CASE s = NoSession -> UNCHANGED <<hosts, socketVars>>
        [] s # NoSession /\ ~hosts[s].open ->
             /\ debug_session_socket' = NoSession
             /\ debug_session_socket_writable' = FALSE
             /\ UNCHANGED <<hosts, accepted>>
        [] OTHER ->
             /\ hosts' = [hosts EXCEPT ![s].got = Append(@, ch)]
             /\ debug_session_socket_writable' = FALSE
             /\ UNCHANGED <<accepted, debug_session_socket>>

-----------------------------------------------------------------------------
(* The rules.  A FIFO of mkAvalonStreamSink2Get holds one element.         *)
debugIn ==
  /\ debug_buffer # << >> /\ toUnit = << >>
  /\ toUnit' = debug_buffer
  /\ debug_buffer' = << >>
  /\ UNCHANGED <<hosts, socketVars, debugOutFires, fromUnit, heard, said>>

(* The guard of debugOut, evaluated before the poll of the same cycle.     *)
debug_stream_sink_ready ==
  /\ fromUnit # << >> /\ debugOutFires = "no" /\ debug_session_socket_writable
  /\ debugOutFires' = "may"
  /\ UNCHANGED <<hosts, socketVars, debug_buffer, toUnit, fromUnit, heard, said>>

debugOut ==
  /\ debugOutFires # "no"
  /\ debug_stream_sink_put(Head(fromUnit))
  /\ fromUnit' = << >>
  /\ debugOutFires' = "no"
  /\ UNCHANGED <<debug_buffer, toUnit, heard, said>>

-----------------------------------------------------------------------------
(* The unit takes bytes and sends some; hosts connect, send and leave.     *)
UnitTakes ==
  /\ toUnit # << >>
  /\ heard' = heard \o toUnit
  /\ toUnit' = << >>
  /\ UNCHANGED <<hosts, socketVars, debug_buffer, debugOutFires, fromUnit, said>>

UnitSends ==
  /\ fromUnit = << >> /\ said < MaxReplies
  /\ said' = said + 1
  /\ fromUnit' = <<said'>>
  /\ UNCHANGED <<hosts, socketVars, debug_buffer, debugOutFires, toUnit, heard>>

HostDoes(hs) ==
  /\ hosts' = hs
  /\ UNCHANGED <<socketVars, debug_buffer, debugOutFires, toUnit, fromUnit, heard, said>>

HostConnects ==
  HostDoes(Append(hosts, [wire |-> << >>, sent |-> 0, got |-> << >>, open |-> TRUE]))

HostSends(c) ==
  /\ hosts[c].open /\ hosts[c].sent < MaxSent
  /\ HostDoes([hosts EXCEPT ![c].sent = @ + 1,
                            ![c].wire = Append(@, <<c, hosts[c].sent + 1>>)])

HostLeaves(c) == hosts[c].open /\ HostDoes([hosts EXCEPT ![c].open = FALSE])

-----------------------------------------------------------------------------
DebugInit ==
  /\ hosts = << >> /\ accepted = 0
  /\ debug_session_socket = NoSession /\ debug_session_socket_writable = FALSE
  /\ debug_buffer = << >> /\ debugOutFires = "no"
  /\ toUnit = << >> /\ fromUnit = << >>
  /\ heard = << >> /\ said = 0

Current(c) == c = debug_session_socket \/ c > accepted
Delivered == heard \o toUnit \o debug_buffer

(* How many bytes of host c have arrived, if no later host's has.          *)
Had(c) == IF Delivered # << >> /\ Delivered[Len(Delivered)][1] = c
          THEN Delivered[Len(Delivered)][2] ELSE 0

(* What host c sends after its first n bytes and up to the m-th.           *)
Sent(c, n, m) == [i \in 1 .. m - n |-> <<c, n + i>>]

(* Byte i of s is the next of its host, or the first of a later one.       *)
InTurn(s, i) ==
  \/ i > 1 /\ s[i] = <<s[i - 1][1], s[i - 1][2] + 1>>
  \/ s[i][2] = 1 /\ (i > 1 => s[i - 1][1] < s[i][1])

(* What the unit receives is what the hosts sent, one host after another   *)
(* and without gaps, though a byte is read before there is room for it and *)
(* may outlive its session; nothing is missing while the session lasts.    *)
(* A host that is served receives what the unit sends without gaps and     *)
(* nothing that an earlier host received, although the socket may close    *)
(* between the guard of debugOut and its call.                             *)
SessionsInOrder ==
  /\ \A i \in DOMAIN Delivered : InTurn(Delivered, i)
  /\ \A c \in DOMAIN hosts :
       /\ Current(c) => hosts[c].wire = Sent(c, Had(c), hosts[c].sent)
       /\ \A i \in DOMAIN hosts[c].got :
            /\ hosts[c].got[i] = hosts[c].got[1] + i - 1
            /\ \A d \in 1 .. c - 1 : \A j \in DOMAIN hosts[d].got :
                 hosts[d].got[j] < hosts[c].got[i]

(* A host that stays and that no other replaces is served: what it sends   *)
(* is read, and what the unit sends leaves.                                *)
Serving == debug_session_socket # NoSession /\ hosts[debug_session_socket].open

HostIsServed ==
  /\ []<>(Serving => hosts[debug_session_socket].wire = << >>)
  /\ []<>(Serving => fromUnit = << >>)
=============================================================================
