--------------------------- MODULE MCServerFrame ---------------------------
(***************************************************************************)
(* Half milliseconds, a frame of 2 ms and a budget of 3 ms; the clock may  *)
(* be set forward, back by less than a dispatch has run, and back by more. *)
(***************************************************************************)
EXTENDS ServerFrame

MCJumps == {1, 5, -1, -7, -40}
=============================================================================
