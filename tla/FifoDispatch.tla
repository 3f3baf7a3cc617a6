---------------------------- MODULE FifoDispatch ----------------------------
(***************************************************************************)
(* What Dispatcher promises between PushPack and the message handlers: one *)
(* queue, in which packets wait in the order they were put, and from which *)
(* the oldest one is handled, once.  A packet of a type nobody handles     *)
(* stops the process.  Nothing is said of threads, of the mutex or of      *)
(* frames.                                                                 *)
(***************************************************************************)
EXTENDS Integers, Sequences

CONSTANTS Packets,      (* the packets there may be                        *)
          Bound         (* the message types that have a handler           *)

VARIABLES waiting,      (* packets put and not yet handled, oldest first   *)
          handled,      (* packets handled, in the order of handling       *)
          running       (* "yes" until the process stops                   *)

vars == <<waiting, handled, running>>

Init == waiting = <<>> /\ handled = <<>> /\ running = "yes"

Put(p) ==
    /\ running = "yes"
    /\ waiting' = Append(waiting, p)
    /\ UNCHANGED <<handled, running>>

Handle ==
    /\ running = "yes"
    /\ waiting # <<>> /\ Head(waiting).type \in Bound
    /\ handled' = Append(handled, Head(waiting))
    /\ waiting' = Tail(waiting)
    /\ UNCHANGED running

Stop ==
    /\ running = "yes"
    /\ waiting # <<>> /\ Head(waiting).type \notin Bound
    /\ running' = "no"
    /\ UNCHANGED <<waiting, handled>>

Next == (\E p \in Packets : Put(p)) \/ Handle \/ Stop

\* What may happen.
Safety == Init /\ [][Next]_vars

\* The oldest packet does not wait for ever.
Spec == Safety /\ WF_vars(Handle \/ Stop)
=============================================================================
