---------------------------- MODULE ServerFrame ----------------------------
(***************************************************************************)
(* The frames of PetsServer::ServerLoop in time (PetsServer.cpp,           *)
(* Dispatcher::DispatchMsg, CELLTimestamp.cpp).  Both clocks the code      *)
(* reads are the system clock (libstdc++'s high_resolution_clock is that), *)
(* so they jump when the time is set.                                      *)
(*                                                                         *)
(* Time is counted in units of 1/U ms: the timer is compared as a fraction *)
(* of a millisecond, slept for in whole ones and read by DispatchMsg in    *)
(* whole ones.                                                             *)
(***************************************************************************)
EXTENDS Integers

CONSTANTS U,            (* units per millisecond                           *)
          FRAME,        (* 1000/SERVER_FPS: 50 ms                          *)
          BUDGET,       (* 1000 ms                                         *)
          WORD64,       (* 2^64: DispatchMsg's difference is unsigned      *)
          HANDLER,      (* longest time a handler takes                    *)
          DELAYS,       (* how long the thread may lose the processor      *)
          JUMPS,        (* by how much the clock may be set                *)
          MaxReal       (* bound: no more handlers and delays after it     *)

ASSUME ServerFrameAssumption ==
    /\ U \in Nat \ {0} /\ FRAME \in Nat /\ BUDGET \in Nat /\ HANDLER \in Nat
    /\ DELAYS \subseteq Nat /\ JUMPS \subseteq Int /\ WORD64 \in Nat \ {0} /\ MaxReal \in Nat

\* A frame does not last, and the clock is not set by, anything near 2^64 ms.
ASSUME ClockRangeAssumption ==
    \A j \in JUMPS \cup {0} :
       /\ -j <= (WORD64 - BUDGET - 1) * U
       /\ \A d \in DELAYS \cup {HANDLER} : MaxReal + d + j + U <= WORD64 * U

VARIABLES
    pc,       (* where the logic thread is                                 *)
    real,     (* time since the frame began                                *)
    jump,     (* by how much the clock has been set in this frame          *)
    spent,    (* time in handlers since DispatchMsg was called             *)
    late,     (* delays since then, and by how much the clock has been set *)
    phase     (* where in its millisecond the clock was then               *)

timeVars == <<real, jump, spent, late, phase>>
vars == <<pc, timeVars>>

-----------------------------------------------------------------------------
(* CELLTimestamp *)

\* getElapsedTimeMilliSec since update(), in units; negative if the clock was set
\* back.
Elapsed == real + jump

\* static_cast to int of a double: towards zero.
ToInt(x) == IF x >= 0 THEN x \div U ELSE -((-x) \div U)

\* getCurrentTimeStampMiliSec(), counted from the millisecond of beginTimeStamp.
CurrentMilliSec == (phase + spent + late) \div U

\* Its difference to beginTimeStamp.  Mutant: signed.
SinceBeginSigned == CurrentMilliSec
SinceBegin == CurrentMilliSec % WORD64

-----------------------------------------------------------------------------
(* ServerLoop *)

GateOpen == Elapsed <= FRAME * U

Gate ==
    /\ pc = "gate"
    /\ pc' = IF GateOpen THEN "dispatch" ELSE "sleep"
    /\ spent' = 0 /\ late' = 0
    /\ IF GateOpen THEN phase' \in 0..(U - 1) ELSE phase' = 0
    /\ UNCHANGED <<real, jump>>

BudgetLeft == SinceBegin <= BUDGET

\* DispatchMsg handles a packet.
Handle(d) ==
    /\ pc = "dispatch" /\ BudgetLeft
    /\ real < MaxReal
    /\ real' = real + d /\ spent' = spent + d
    /\ UNCHANGED <<pc, jump, late, phase>>

\* The queue is empty or the time is up.
DispatchEnds ==
    /\ pc = "dispatch"
    /\ pc' = "run"
    /\ spent' = 0 /\ late' = 0 /\ phase' = 0
    /\ UNCHANGED <<real, jump>>

\* CObjectManager::Run goes through m_ObjectMap, into which no code puts anything:
\* its loops have nothing to do.
Run ==
    /\ pc = "run"
    /\ pc' = "sleep"
    /\ UNCHANGED timeVars

\* How long the rest of the frame is.  Mutant: rounded down once more.
RestShort == FRAME - ToInt(Elapsed) - 1
Rest == FRAME - ToInt(Elapsed)

\* Sleep, if the whole milliseconds used are not more than a frame has.  A delay
\* between the reading and the sleep is the same as a sleep that ends late, and
\* left out.
Sleep ==
    /\ pc = "sleep" /\ ToInt(Elapsed) <= FRAME
    /\ real' = real + Rest * U
    /\ pc' = "update"
    /\ UNCHANGED <<jump, spent, late, phase>>

\* The frame has taken too long: a warning.
Overrun ==
    /\ pc = "sleep" /\ ToInt(Elapsed) > FRAME
    /\ pc' = "update"
    /\ UNCHANGED timeVars

\* m_servertimer.update()
Update ==
    /\ pc = "update"
    /\ real' = 0 /\ jump' = 0
    /\ pc' = "gate"
    /\ UNCHANGED <<spent, late, phase>>

-----------------------------------------------------------------------------
(* The world *)

Dispatching(n) == IF pc = "dispatch" THEN n ELSE 0

\* The thread loses the processor for a while.
Preempted(d) ==
    /\ pc # "update" /\ real < MaxReal
    /\ real' = real + d /\ late' = late + Dispatching(d)
    /\ UNCHANGED <<pc, jump, spent, phase>>

\* The clock is set, at most once in a frame.
ClockSet(j) ==
    /\ jump = 0 /\ pc \in {"gate", "dispatch", "run", "sleep"}
    /\ jump' = j /\ late' = late + Dispatching(j)
    /\ UNCHANGED <<pc, real, spent, phase>>

Init ==
    /\ pc = "gate" /\ real = 0 /\ jump = 0 /\ spent = 0 /\ late = 0 /\ phase = 0

ServerLoop ==
    \/ Gate \/ \E d \in 0..HANDLER : Handle(d)
    \/ DispatchEnds \/ Run \/ Sleep \/ Overrun \/ Update

Next == ServerLoop \/ \E d \in DELAYS : Preempted(d) \/ \E j \in JUMPS : ClockSet(j)

Spec == Init /\ [][Next]_vars

-----------------------------------------------------------------------------
(* Properties *)

\* A frame that sleeps is as long as SERVER_FPS says, to the millisecond, however
\* its work is cut into fractions of one: never shorter, so the loop never runs
\* faster than 20 frames a second, and less than 1 ms longer.  Setting the clock
\* forward shortens the frame by as much; setting it back by s lengthens it by s,
\* so the logic thread sleeps as long as the clock was set back.
FrameLength ==
    [][Sleep => /\ real' + jump >= FRAME * U - (IF jump < 0 THEN U ELSE 0)
                /\ real' + jump < (FRAME + 1) * U]_vars

\* The handlers of one DispatchMsg take its second at most, overrun it by no more
\* than the last of them, and do so once more at most if the clock is set back
\* meanwhile: because the difference is unsigned, a clock that is set back by an
\* hour ends the loop and does not keep it going for an hour.
DispatchBounded == spent <= 2 * ((BUDGET + 1) * U + HANDLER) + U
=============================================================================
