---------------------------- MODULE MCConnTable ----------------------------
(***************************************************************************)
(* Three connections on two IO threads.  The 16-bit halves of a DNID are   *)
(* scaled down to 4 values, so that a second has 3 numbers.                *)
(***************************************************************************)
EXTENDS ConnTable, TLC

CONSTANTS c1, c2, c3, t1, t2

MCConns == {c1, c2, c3}
MCThreads == {t1, t2}
MCHome == (c1 :> t1) @@ (c2 :> t2) @@ (c3 :> t2)

\* rand() after srand(s): every value 0 .. 3 comes up, in an order that
\* depends on s; 3 becomes 0 in a DNID.
MCRand == [p \in (FirstTime..MaxTime) \X (0..(RandLen - 1)) |-> (p[1] + p[2]) % HALF]
=============================================================================
