--------------------------- MODULE MCEventStream ----------------------------
(***************************************************************************)
(* EventStream for TLC: two rows per read stand for 200, one reconnection   *)
(* for three.                                                               *)
(***************************************************************************)
EXTENDS EventStream
=============================================================================
