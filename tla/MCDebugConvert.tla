--------------------------- MODULE MCDebugConvert ---------------------------
(***************************************************************************)
(* The TLC instance of DebugConvert: packets with room for two bytes of    *)
(* data, and requests that have none, one, two, and three, which are too   *)
(* many.  Data bytes are chosen so that some of them, read as a length,    *)
(* fit, are zero or are too long.                                          *)
(***************************************************************************)
EXTENDS DebugConvert

P(op, data) == [op |-> op, data |-> data]
MCRequests == { P(1, << >>), P(2, <<3>>), P(1, <<2, 0>>), P(2, <<1, 2, 3>>) }
MCReplies  == { P(3, << >>), P(0, <<2>>), P(3, <<1, 0>>) }
=============================================================================
