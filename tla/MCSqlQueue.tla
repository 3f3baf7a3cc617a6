----------------------------- MODULE MCSqlQueue -----------------------------
(***************************************************************************)
(* SqlQueue with two producers, the thread that runs start() and the logic *)
(* thread, and two packs each; the queue itself only tells packs that are  *)
(* executed from packs that are passed over.                               *)
(***************************************************************************)
EXTENDS SqlQueue

CONSTANTS p1, p2
MCProducers == {p1, p2}
MCKinds == {"procedure", "null"}
MCAllKinds == {"stmt", "procedure", "null"}
=============================================================================
