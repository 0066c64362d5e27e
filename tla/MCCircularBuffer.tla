--------------------------- MODULE MCCircularBuffer ---------------------------
(* TLC instances of CircularBuffer: a buffer of four words, which holds    *)
(* three elements, so that pointers wrap and full, empty and almost full   *)
(* follow each other within a few cycles.                                  *)
EXTENDS CircularBuffer
===============================================================================
