---------------------------- MODULE MCClientMgr ----------------------------
(***************************************************************************)
(* ClientMgr for TLC: two streams, neither of whose names begins the other.*)
(***************************************************************************)
EXTENDS ClientMgr

NamesApart == <<<<1>>, <<2>>>>
=============================================================================
