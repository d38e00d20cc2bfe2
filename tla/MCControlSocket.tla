-------------------------- MODULE MCControlSocket --------------------------
(***************************************************************************)
(* ControlSocket for TLC: clients write up to three lines, valid ones of   *)
(* up to four bytes, among them one that the line buffer cannot hold, and  *)
(* invalid ones of one byte, and empty lines.                              *)
(***************************************************************************)
EXTENDS ControlSocket, Functions

\* The length and the validity of a line.
Lines == ((0..4) \X {TRUE}) \cup {<<1, FALSE>>}

\* Where the k-th of the lines ls starts.
Start(ls, k) == FoldFunctionOnSet(LAMBDA l, n : n + l[1] + 1, 0, ls, 1..k - 1)

AllScripts ==
  {[k \in DOMAIN ls |-> [start |-> Start(ls, k), len |-> ls[k][1], valid |-> ls[k][2]]] :
     ls \in UNION {[1..n -> Lines] : n \in 0..3}}
=============================================================================
