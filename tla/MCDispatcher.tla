---------------------------- MODULE MCDispatcher ----------------------------
(***************************************************************************)
(* Two IO threads, each with a connection that sends two packets, and one  *)
(* message type without a handler.                                         *)
(***************************************************************************)
EXTENDS Dispatcher, TLC

CONSTANTS t1, t2, c1, c2, move, fight

MCThreads == {t1, t2}
MCConns == {c1, c2}
MCHome == (c1 :> t1) @@ (c2 :> t2)

MCTypes == {move, fight}
MCBound == {move}
=============================================================================
