------------------------------ MODULE MCCodec ------------------------------
(***************************************************************************)
(* Codec on small streams: every way to cut them into reads.  The limit    *)
(* 65536 is scaled down to 2; the length field keeps its four bytes.       *)
(***************************************************************************)
EXTENDS Codec

\* -1 and 3 are the length fields just outside 0 .. MAXLEN.
MCLens == {-1, 0, 1, 2, 3}
MCReadSizes == 1..6
=============================================================================
