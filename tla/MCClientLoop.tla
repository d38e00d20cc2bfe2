---------------------------- MODULE MCClientLoop ----------------------------
(***************************************************************************)
(* An instance of ClientLoop: two sample formats, one of which the device  *)
(* does not support.                                                       *)
(***************************************************************************)
EXTENDS ClientLoop

CONSTANTS a, b

MCNearest == [f \in Formats |-> a]
=============================================================================
