---------------------------- MODULE ServerProofs ----------------------------
(***************************************************************************)
(* Proofs about the server's frame (ServerFrame) and about the handlers    *)
(* that it runs (MessageRouting).                                          *)
(*                                                                         *)
(* ServerFrame, for any length of the frame, of the budget and of the      *)
(* handlers, any delays and any setting of the clock.  DispatchBounded     *)
(* needs what DispatchMsg has read of the clock: as long as the clock was  *)
(* not set in this frame, the handlers have had at most the time that has  *)
(* passed (Unset); after it was set they have had at most one budget more  *)
(* than that (Budgeted).                                                   *)
(*                                                                         *)
(* MessageRouting, for texts of any length and any bytes behind the frame. *)
(* RoutedToCase needs the two bytes that the constructor of each message   *)
(* writes (Received).  ParseSplits needs what Parse has done between two   *)
(* of its steps: strs is what is left behind the last cut, and the pieces  *)
(* in res are the ones between the cuts so far (CutTo).  AccountOrigin     *)
(* needs, beside that, what the first piece of two texts is, one behind    *)
(* the other (FirstPieceOfTwo).                                            *)
(***************************************************************************)
EXTENDS ServerFrame, MessageRouting, WellFoundedInduction, SequenceTheorems,
        FiniteSetTheorems, TLAPS

-----------------------------------------------------------------------------
(* ServerFrame: the inductive invariant *)

\* What the clock says since the millisecond in which DispatchMsg began, in units.
Clock == phase + spent + late

\* A budget and one handler more: what DispatchMsg takes if the clock is left alone.
Allowed == (BUDGET + 1) * U + HANDLER

Labels == {"gate", "dispatch", "run", "sleep", "update"}

TimeTypeOK ==
    /\ pc \in Labels
    /\ real \in Nat /\ jump \in JUMPS \cup {0} /\ spent \in Nat /\ late \in Int
    /\ phase \in 0..(U - 1)

\* Until packets have been handled, no more time has passed than the guards allow, and
\* the clock has seen no more of it.
Passed ==
    pc \in {"gate", "dispatch"} =>
            /\ \E d \in DELAYS \cup {HANDLER} : real <= MaxReal + d
            /\ spent + late <= real + (IF jump > 0 THEN jump ELSE 0)
            /\ late >= (IF jump < 0 THEN jump ELSE 0)

\* The clock was not set in this frame: it has seen all that the handlers took.
Unset == jump = 0 => late >= 0 /\ spent <= Allowed

\* The clock was set: what the handlers took since is on the clock.
Budgeted ==
    /\ Clock < 0 => spent <= Allowed
    /\ Clock >= 0 => spent <= Allowed + Clock
    /\ spent <= 2 * Allowed

\* Outside DispatchMsg nothing is counted.
Idle == pc # "dispatch" => spent = 0 /\ late = 0 /\ phase = 0

IInv == TimeTypeOK /\ Passed /\ Unset /\ Budgeted /\ Idle

-----------------------------------------------------------------------------
(* Arithmetic *)

\* The whole milliseconds of a reading, as the two casts of the code see it.
LEMMA ToIntFacts ==
    ASSUME NEW x \in Int
    PROVE  /\ ToInt(x) \in Int
           /\ x >= 0 => ToInt(x) * U <= x /\ x < ToInt(x) * U + U
           /\ x < 0 => x <= ToInt(x) * U /\ ToInt(x) * U < x + U
<1> USE ServerFrameAssumption
<1>1. CASE x >= 0
  BY DEF ToInt
<1>2. CASE x < 0
  <2>1. -x \in Int /\ ToInt(x) = -((-x) \div U)
    BY <1>2 DEF ToInt
  <2> QED
    BY <1>2, <2>1
<1> QED
  BY <1>1, <1>2

\* DispatchMsg goes on only while the clock is within the budget: a clock that has been
\* set back behind the begin wraps around and counts as late.
LEMMA BudgetLeftFacts ==
    ASSUME IInv, pc = "dispatch", BudgetLeft
    PROVE  0 <= Clock /\ Clock < (BUDGET + 1) * U
<1> USE ServerFrameAssumption
<1> DEFINE q == Clock \div U
<1>1. /\ Clock \in Int /\ BUDGET + 1 \in Int
      /\ spent \in Nat /\ late \in Int /\ real \in Nat /\ phase \in 0..(U - 1)
  BY DEF IInv, TimeTypeOK, Clock
<1>2. jump \in JUMPS \cup {0} /\ jump \in Int
  BY DEF IInv, TimeTypeOK
<1>3. PICK d \in DELAYS \cup {HANDLER} : real <= MaxReal + d
  BY DEF IInv, Passed
<1>4. /\ spent + late <= real + (IF jump > 0 THEN jump ELSE 0)
      /\ late >= (IF jump < 0 THEN jump ELSE 0)
  BY DEF IInv, Passed
<1>6. Clock < WORD64 * U
  <2>1. MaxReal + d + 0 + U <= WORD64 * U /\ MaxReal + d + jump + U <= WORD64 * U
    BY <1>2, ClockRangeAssumption
  <2> QED
    BY <1>1, <1>2, <1>3, <1>4, <2>1 DEF Clock
<1>7. Clock >= -((WORD64 - BUDGET - 1) * U)
  <2>1. -0 <= (WORD64 - BUDGET - 1) * U /\ -jump <= (WORD64 - BUDGET - 1) * U
    BY <1>2, ClockRangeAssumption
  <2> QED
    BY <1>1, <1>2, <1>4, <2>1 DEF Clock
<1>8. q \in Int /\ q * U <= Clock /\ Clock < q * U + U
  BY <1>1
<1>9. q % WORD64 <= BUDGET
  BY DEF BudgetLeft, SinceBegin, CurrentMilliSec, Clock
<1> HIDE DEF q
<1>10. q < WORD64
  BY <1>1, <1>6, <1>8
<1>11. q >= -(WORD64 - BUDGET - 1)
  <2>1. (-(WORD64 - BUDGET - 1)) * U < (q + 1) * U
    BY <1>1, <1>7, <1>8
  <2>2. -(WORD64 - BUDGET - 1) < q + 1
    BY <1>8, <2>1
  <2> QED
    BY <1>8, <2>2
<1>12. q >= 0
  <2> SUFFICES ASSUME q < 0 PROVE FALSE
    BY <1>8
  <2> QED
    BY <1>8, <1>9, <1>11
<1>13. q <= BUDGET
  BY <1>8, <1>9, <1>10
<1>14. 0 * U <= q * U /\ q * U + U <= (BUDGET + 1) * U
  <2>1. 0 * U <= q * U /\ q * U <= BUDGET * U /\ (BUDGET + 1) * U = BUDGET * U + U
    BY <1>8, <1>12, <1>13
  <2> QED
    BY <1>8, <2>1
<1> QED
  BY <1>1, <1>8, <1>14

\* The bound is a number.
LEMMA AllowedType == Allowed \in Nat /\ (BUDGET + 1) * U \in Nat
  BY ServerFrameAssumption DEF Allowed

-----------------------------------------------------------------------------
(* The frame *)

\* The gate: DispatchMsg begins with nothing counted, or the frame is late and skips it.
LEMMA GateStep ==
    ASSUME IInv, Gate
    PROVE  IInv'
<1> USE ServerFrameAssumption, AllowedType
<1>1. /\ pc = "gate" /\ pc' \in {"dispatch", "sleep"} /\ spent' = 0 /\ late' = 0
      /\ real' = real /\ jump' = jump
  BY DEF Gate
<1>2. PICK f \in 0..(U - 1) : phase' = f /\ (pc' # "dispatch" => f = 0)
  BY DEF Gate
<1>3. TimeTypeOK'
  BY <1>1, <1>2 DEF IInv, TimeTypeOK, Labels
<1>5. Passed'
  BY <1>1 DEF IInv, Idle, Passed
<1>6. Unset' /\ Budgeted'
  <2>1. f \in Nat /\ Clock' = f + 0 + 0
    BY <1>1, <1>2 DEF Clock
  <2>2. Clock' = f
    BY <2>1
  <2> QED
    BY <1>1, <2>2 DEF Unset, Budgeted
<1>7. Idle'
  BY <1>1, <1>2 DEF Idle
<1> QED
  BY <1>3, <1>5, <1>6, <1>7 DEF IInv

\* A handler runs within the budget, so it cannot overrun it by more than itself.
LEMMA HandleStep ==
    ASSUME IInv, NEW h \in 0..HANDLER, Handle(h)
    PROVE  IInv'
<1> USE ServerFrameAssumption, AllowedType
<1>1. /\ pc = "dispatch" /\ pc' = pc /\ real < MaxReal /\ real' = real + h /\ spent' = spent + h
      /\ jump' = jump /\ late' = late /\ phase' = phase
  BY DEF Handle
<1>2. /\ 0 <= Clock /\ Clock < (BUDGET + 1) * U
  BY BudgetLeftFacts DEF Handle
<1>3. /\ spent \in Nat /\ late \in Int /\ real \in Nat /\ phase \in Nat /\ jump \in Int
  BY DEF IInv, TimeTypeOK
<1>4. TimeTypeOK'
  BY <1>1 DEF IInv, TimeTypeOK
<1>7. Passed'
  <2>1. \E d \in DELAYS \cup {HANDLER} : real' <= MaxReal + d
    BY <1>1, <1>3
  <2>2. /\ spent' + late' <= real' + (IF jump' > 0 THEN jump' ELSE 0)
        /\ late' >= (IF jump' < 0 THEN jump' ELSE 0)
    BY <1>1, <1>3 DEF IInv, Passed
  <2> QED
    BY <2>1, <2>2 DEF Passed
<1>8. Unset'
  BY <1>1, <1>2, <1>3 DEF IInv, Unset, Clock, Allowed
<1>9. Budgeted'
  <2>1. Clock' = Clock + h /\ spent <= Allowed + Clock
    BY <1>1, <1>2, <1>3 DEF IInv, Budgeted, Clock
  <2> QED
    BY <1>1, <1>2, <1>3, <2>1 DEF Budgeted, Clock, Allowed
<1>10. Idle'
  BY <1>1 DEF Idle
<1> QED
  BY <1>4, <1>7, <1>8, <1>9, <1>10 DEF IInv

\* The end of DispatchMsg and the steps after it count nothing.
LEMMA DispatchEndsStep ==
    ASSUME IInv, DispatchEnds
    PROVE  IInv'
<1> USE ServerFrameAssumption, AllowedType
<1>1. /\ pc' = "run" /\ spent' = 0 /\ late' = 0 /\ phase' = 0
      /\ real' = real /\ jump' = jump
  BY DEF DispatchEnds
<1>3. TimeTypeOK' /\ Passed' /\ Idle'
  BY <1>1 DEF IInv, TimeTypeOK, Labels, Passed, Idle
<1>4. Unset' /\ Budgeted'
  BY <1>1 DEF Unset, Budgeted, Clock
<1> QED
  BY <1>3, <1>4 DEF IInv

\* Run takes no time that is counted.
LEMMA RunStep ==
    ASSUME IInv, Run
    PROVE  IInv'
<1> USE ServerFrameAssumption, AllowedType
<1>1. /\ pc = "run" /\ pc' = "sleep" /\ spent' = spent /\ late' = late /\ phase' = phase
      /\ real' = real /\ jump' = jump
  BY DEF Run, timeVars
<1>3. TimeTypeOK' /\ Passed' /\ Idle'
  BY <1>1 DEF IInv, TimeTypeOK, Labels, Passed, Idle
<1>4. Unset' /\ Budgeted'
  BY <1>1 DEF IInv, Unset, Budgeted, Clock
<1> QED
  BY <1>3, <1>4 DEF IInv

\* A sleep is never negative.
LEMMA SleepStep ==
    ASSUME IInv, Sleep
    PROVE  IInv'
<1> USE ServerFrameAssumption, AllowedType
<1>1. /\ pc = "sleep" /\ pc' = "update" /\ spent' = spent /\ late' = late /\ phase' = phase
      /\ real' = real + Rest * U /\ jump' = jump
  BY DEF Sleep
<1>2. Rest \in Nat
  <2>1. ToInt(Elapsed) \in Int /\ ToInt(Elapsed) <= FRAME
    BY ToIntFacts DEF Sleep, Elapsed, IInv, TimeTypeOK
  <2> QED
    BY <2>1 DEF Rest
<1>3. Rest * U \in Nat
  BY <1>2
<1>5. TimeTypeOK' /\ Passed' /\ Idle'
  BY <1>1, <1>3 DEF IInv, TimeTypeOK, Labels, Passed, Idle
<1>6. Unset' /\ Budgeted'
  BY <1>1 DEF IInv, Unset, Budgeted, Clock
<1> QED
  BY <1>5, <1>6 DEF IInv

\* A warning changes nothing.
LEMMA OverrunStep ==
    ASSUME IInv, Overrun
    PROVE  IInv'
<1>1. /\ pc = "sleep" /\ pc' = "update" /\ spent' = spent /\ late' = late /\ phase' = phase
      /\ real' = real /\ jump' = jump
  BY DEF Overrun, timeVars
<1>3. TimeTypeOK' /\ Passed' /\ Idle'
  BY <1>1 DEF IInv, TimeTypeOK, Labels, Passed, Idle
<1>4. Unset' /\ Budgeted'
  BY <1>1 DEF IInv, Unset, Budgeted, Clock
<1> QED
  BY <1>3, <1>4 DEF IInv

\* The next frame begins with a clock that was not set.
LEMMA UpdateStep ==
    ASSUME IInv, Update
    PROVE  IInv'
<1> USE ServerFrameAssumption, AllowedType
<1>1. /\ pc = "update" /\ pc' = "gate" /\ spent' = spent /\ late' = late /\ phase' = phase
      /\ real' = 0 /\ jump' = 0
  BY DEF Update
<1>2. spent = 0 /\ late = 0 /\ phase = 0
  BY <1>1 DEF IInv, Idle
<1>4. TimeTypeOK' /\ Idle'
  BY <1>1, <1>2 DEF TimeTypeOK, Labels, Idle
<1>5. Passed'
  BY <1>1, <1>2 DEF Passed
<1>6. Unset' /\ Budgeted'
  BY <1>1, <1>2 DEF Unset, Budgeted, Clock
<1> QED
  BY <1>4, <1>5, <1>6 DEF IInv

-----------------------------------------------------------------------------
(* The world *)

\* A delay is on the clock, so it shortens what the handlers may take.
LEMMA PreemptedStep ==
    ASSUME IInv, NEW h \in DELAYS, Preempted(h)
    PROVE  IInv'
<1> USE ServerFrameAssumption, AllowedType
<1>1. /\ pc' = pc /\ real < MaxReal /\ real' = real + h /\ late' = late + Dispatching(h)
      /\ spent' = spent /\ jump' = jump /\ phase' = phase
  BY DEF Preempted
<1>2. /\ spent \in Nat /\ late \in Int /\ real \in Nat /\ phase \in Nat /\ jump \in Int
      /\ h \in Nat /\ Dispatching(h) \in Nat /\ Dispatching(h) <= h
      /\ pc # "dispatch" => Dispatching(h) = 0
  BY DEF IInv, TimeTypeOK, Dispatching
<1>4. TimeTypeOK' /\ Idle'
  BY <1>1, <1>2 DEF IInv, TimeTypeOK, Idle
<1>5. Passed'
  BY <1>1, <1>2 DEF IInv, Passed
<1>6. Unset' /\ Budgeted'
  BY <1>1, <1>2 DEF IInv, Unset, Budgeted, Clock
<1> QED
  BY <1>4, <1>5, <1>6 DEF IInv

\* Setting the clock starts the budget again at most, and not a second time.
LEMMA ClockSetStep ==
    ASSUME IInv, NEW j \in JUMPS, ClockSet(j)
    PROVE  IInv'
<1> USE ServerFrameAssumption, AllowedType
<1>1. /\ pc' = pc /\ jump = 0 /\ jump' = j /\ late' = late + Dispatching(j)
      /\ real' = real /\ spent' = spent /\ phase' = phase
  BY DEF ClockSet
<1>2. /\ spent \in Nat /\ late \in Int /\ real \in Nat /\ phase \in Nat
      /\ j \in Int /\ Dispatching(j) \in {0, j}
      /\ pc # "dispatch" => Dispatching(j) = 0
  BY DEF IInv, TimeTypeOK, Dispatching
<1>4. TimeTypeOK' /\ Idle'
  BY <1>1, <1>2 DEF IInv, TimeTypeOK, Idle
<1>5. Passed'
  BY <1>1, <1>2 DEF IInv, Passed
<1>6. Unset' /\ Budgeted'
  BY <1>1, <1>2 DEF IInv, Unset, Budgeted, Clock
<1> QED
  BY <1>4, <1>5, <1>6 DEF IInv

-----------------------------------------------------------------------------
(* The theorems *)

\* The invariant holds at the start, and every step keeps it.
THEOREM ServerFrameInvariant == Spec => []IInv
<1>1. Init => IInv
  <2> SUFFICES ASSUME Init PROVE IInv
    OBVIOUS
  <2> USE ServerFrameAssumption, AllowedType DEF Init
  <2>3. TimeTypeOK /\ Idle /\ Passed
    BY DEF TimeTypeOK, Labels, Idle, Passed
  <2>4. Unset /\ Budgeted
    BY DEF Unset, Budgeted, Clock
  <2> QED
    BY <2>3, <2>4 DEF IInv
<1>2. IInv /\ [Next]_vars => IInv'
  <2> SUFFICES ASSUME IInv, [Next]_vars PROVE IInv'
    OBVIOUS
  <2>1. CASE ServerLoop
    BY <2>1, GateStep, HandleStep, DispatchEndsStep, RunStep, SleepStep, OverrunStep, UpdateStep
       DEF ServerLoop
  <2>2. ASSUME NEW d \in DELAYS, Preempted(d) PROVE IInv'
    BY <2>2, PreemptedStep
  <2>3. ASSUME NEW j \in JUMPS, ClockSet(j) PROVE IInv'
    BY <2>3, ClockSetStep
  <2>4. CASE UNCHANGED vars
    <3>1. /\ pc' = pc /\ real' = real /\ jump' = jump
          /\ spent' = spent /\ late' = late /\ phase' = phase
      BY <2>4 DEF vars, timeVars
    <3> QED
      BY <3>1 DEF IInv, TimeTypeOK, Passed, Unset, Budgeted, Idle, Clock
  <2> QED
    BY <2>1, <2>2, <2>3, <2>4 DEF Next
<1> QED
  BY <1>1, <1>2, PTL DEF Spec

\* The handlers of one DispatchMsg are bounded whatever the clock does, for any budget.
THEOREM ServerFrameDispatchBounded == Spec => []DispatchBounded
<1>1. IInv => DispatchBounded
  <2> SUFFICES ASSUME IInv PROVE DispatchBounded
    OBVIOUS
  <2>1. spent <= 2 * Allowed /\ spent \in Nat
    BY DEF IInv, Budgeted, TimeTypeOK
  <2> QED
    BY <2>1, ServerFrameAssumption DEF DispatchBounded, Allowed
<1> QED
  BY <1>1, ServerFrameInvariant, PTL

\* A frame that sleeps has the length SERVER_FPS asks for, to the millisecond, for any
\* resolution of the clock.
THEOREM ServerFrameFrameLength == Spec => FrameLength
<1> DEFINE Right == /\ real' + jump >= FRAME * U - (IF jump < 0 THEN U ELSE 0)
                    /\ real' + jump < (FRAME + 1) * U
<1>1. ASSUME IInv, Sleep PROVE Right
  <2> USE ServerFrameAssumption
  <2> DEFINE n == ToInt(Elapsed)
  <2>1. real \in Nat /\ jump \in Int /\ Elapsed \in Int /\ Elapsed = real + jump
    BY <1>1 DEF IInv, TimeTypeOK, Elapsed
  <2>2. /\ n \in Int
        /\ Elapsed >= 0 => n * U <= Elapsed /\ Elapsed < n * U + U
        /\ Elapsed < 0 => Elapsed <= n * U /\ n * U < Elapsed + U
    BY <2>1, ToIntFacts
  <2>3. real' = real + (FRAME - n) * U
    BY <1>1 DEF Sleep, Rest
  <2> HIDE DEF n
  <2>4. real' + jump = Elapsed + FRAME * U - n * U
    BY <2>1, <2>2, <2>3
  <2> QED
    BY <2>1, <2>2, <2>4
<1> HIDE DEF Right
<1>2. IInv => [Sleep => Right]_vars
  BY <1>1
<1>3. Spec => [][Sleep => Right]_vars
  BY <1>2, ServerFrameInvariant, PTL DEF Spec
<1> QED
  BY <1>3 DEF FrameLength, Right

-----------------------------------------------------------------------------
(* Least elements, sequences *)

\* A set of natural numbers that is not empty has a least element.
LEMMA LeastElement ==
    ASSUME NEW T, T \subseteq Nat, T # {}
    PROVE  \E x \in T : \A y \in T : x <= y
<1> DEFINE R == OpToRel(<,Nat)
<1>1. IsWellFoundedOn(R, Nat)
  BY NatLessThanWellFounded, Zenon
<1>2. \A x, y \in Nat : x < y => <<x, y>> \in R
  BY Zenon DEF OpToRel
<1> HIDE DEF R
<1>3. \E x \in T : \A y \in T : ~ (<<y, x>> \in R)
  BY <1>1, WFMin, Zenon
<1>4. PICK x \in T : \A y \in T : ~ (<<y, x>> \in R)
  BY <1>3
<1>5. \A y \in T : ~ (y < x)
  BY <1>2, <1>4, Zenon
<1> QED
  BY <1>5

\* The part of a sequence from m to n.
LEMMA SubSeqFacts ==
    ASSUME NEW S, NEW s \in Seq(S), NEW m \in 1..(Len(s) + 1), NEW n \in (m - 1)..Len(s)
    PROVE  /\ SubSeq(s, m, n) \in Seq(S) /\ Len(SubSeq(s, m, n)) = n - m + 1
           /\ \A i \in 1..(n - m + 1) : SubSeq(s, m, n)[i] = s[m + i - 1]
  OBVIOUS

\* What is left of a sequence behind its first k elements.
LEMMA SuffixFacts ==
    ASSUME NEW S, NEW s \in Seq(S), NEW k \in 0..Len(s)
    PROVE  /\ SubSeq(s, k + 1, Len(s)) \in Seq(S) /\ Len(SubSeq(s, k + 1, Len(s))) = Len(s) - k
           /\ \A i \in 1..(Len(s) - k) : SubSeq(s, k + 1, Len(s))[i] = s[k + i]
  OBVIOUS

\* The first k elements of a sequence.
LEMMA PrefixFacts ==
    ASSUME NEW S, NEW s \in Seq(S), NEW k \in 0..Len(s)
    PROVE  /\ SubSeq(s, 1, k) \in Seq(S) /\ Len(SubSeq(s, 1, k)) = k
           /\ \A i \in 1..k : SubSeq(s, 1, k)[i] = s[i]
  OBVIOUS

\* Two sequences, one behind the other.
LEMMA ConcatFacts ==
    ASSUME NEW S, NEW s \in Seq(S), NEW t \in Seq(S)
    PROVE  /\ s \o t \in Seq(S) /\ Len(s \o t) = Len(s) + Len(t)
           /\ \A i \in 1..Len(s) : (s \o t)[i] = s[i]
           /\ \A i \in (Len(s) + 1)..(Len(s) + Len(t)) : (s \o t)[i] = t[i - Len(s)]
  OBVIOUS

\* A beginning of two sequences, one behind the other, that reaches k into the second.
LEMMA ConcatPrefix ==
    ASSUME NEW s \in Seq(Nat), NEW t \in Seq(Nat), NEW k \in 0..Len(t)
    PROVE  SubSeq(s \o t, 1, Len(s) + k) = s \o SubSeq(t, 1, k)
<1> DEFINE st == s \o t
           p == SubSeq(t, 1, k)
           l == SubSeq(st, 1, Len(s) + k)
           r == s \o p
<1>1. Len(s) \in Nat /\ Len(t) \in Nat
  OBVIOUS
<1>2. /\ st \in Seq(Nat) /\ Len(st) = Len(s) + Len(t)
      /\ \A i \in 1..Len(s) : st[i] = s[i]
      /\ \A i \in (Len(s) + 1)..(Len(s) + Len(t)) : st[i] = t[i - Len(s)]
  BY ConcatFacts
<1> HIDE DEF st
<1>3. p \in Seq(Nat) /\ Len(p) = k /\ \A i \in 1..k : p[i] = t[i]
  BY PrefixFacts
<1> HIDE DEF p
<1>4. Len(s) + k \in 0..Len(st)
  BY <1>1, <1>2
<1>5. l \in Seq(Nat) /\ Len(l) = Len(s) + k /\ \A i \in 1..(Len(s) + k) : l[i] = st[i]
  BY <1>2, <1>4, PrefixFacts
<1> HIDE DEF l
<1>6. /\ r \in Seq(Nat) /\ Len(r) = Len(s) + Len(p)
      /\ \A i \in 1..Len(s) : r[i] = s[i]
      /\ \A i \in (Len(s) + 1)..(Len(s) + Len(p)) : r[i] = p[i - Len(s)]
  BY <1>3, ConcatFacts
<1> HIDE DEF r
<1>7. ASSUME NEW i \in 1..(Len(s) + k) PROVE l[i] = r[i]
  <2>1. CASE i <= Len(s)
    BY <1>1, <1>2, <1>5, <1>6, <2>1
  <2>2. CASE i > Len(s)
    <3>1. /\ i \in (Len(s) + 1)..(Len(s) + k) /\ i \in (Len(s) + 1)..(Len(s) + Len(t))
          /\ i - Len(s) \in 1..k
      BY <1>1, <2>2
    <3>2. l[i] = t[i - Len(s)]
      BY <1>2, <1>5, <3>1
    <3>3. r[i] = t[i - Len(s)]
      BY <1>3, <1>6, <3>1
    <3> QED
      BY <3>2, <3>3
  <2> QED
    BY <1>1, <2>1, <2>2
<1>8. l = r
  BY <1>3, <1>5, <1>6, <1>7, SeqEqual
<1> QED
  BY <1>8 DEF l, r, st, p

\* Two sequences that agree on the first k elements have them in common.
LEMMA SamePrefix ==
    ASSUME NEW s \in Seq(Nat), NEW t \in Seq(Nat), NEW k \in Nat, k <= Len(s), k <= Len(t),
           \A i \in 1..k : s[i] = t[i]
    PROVE  SubSeq(s, 1, k) = SubSeq(t, 1, k)
<1>1. k \in 0..Len(s) /\ k \in 0..Len(t)
  OBVIOUS
<1>2. /\ SubSeq(s, 1, k) \in Seq(Nat) /\ Len(SubSeq(s, 1, k)) = k
      /\ \A i \in 1..k : SubSeq(s, 1, k)[i] = s[i]
  BY <1>1, PrefixFacts
<1>3. /\ SubSeq(t, 1, k) \in Seq(Nat) /\ Len(SubSeq(t, 1, k)) = k
      /\ \A i \in 1..k : SubSeq(t, 1, k)[i] = t[i]
  BY <1>1, PrefixFacts
<1> QED
  BY <1>2, <1>3, SeqEqual

-----------------------------------------------------------------------------
(* MessageRouting: the strings and the cuts *)

\* The string that std::string makes of a char pointer ends in front of the first NUL.
LEMMA TextFacts ==
    ASSUME NEW s \in Seq(Nat), \E i \in 1..Len(s) : s[i] = NUL
    PROVE  \E i \in 1..Len(s) : /\ s[i] = NUL /\ \A j \in 1..(i - 1) : s[j] # NUL
                               /\ Text(s) = SubSeq(s, 1, i - 1)
<1> DEFINE T == {i \in 1..Len(s) : s[i] = NUL}
           First(i) == s[i] = NUL /\ \A j \in 1..(i - 1) : s[j] # NUL
<1>1. T \subseteq Nat /\ T # {}
  OBVIOUS
<1>2. PICK x \in T : \A y \in T : x <= y
  BY <1>1, LeastElement
<1>3. x \in DOMAIN s /\ First(x)
  BY <1>2
<1> DEFINE c == CHOOSE i \in DOMAIN s : First(i)
<1>4. c \in DOMAIN s /\ First(c)
  <2> HIDE DEF First
  <2> QED
    BY <1>3, Zenon
<1>5. Text(s) = SubSeq(s, 1, c - 1)
  BY DEF Text
<1>6. c \in 1..Len(s)
  <2>1. DOMAIN s = 1..Len(s)
    OBVIOUS
  <2> QED
    BY <1>4, <2>1, Zenon
<1> HIDE DEF c
<1> QED
  BY <1>4, <1>5, <1>6

\* The separators in front of a position are finitely many.
LEMMA BeforeFacts ==
    ASSUME NEW s, NEW i \in Nat
    PROVE  IsFiniteSet({j \in 1..(i - 1) : s[j] = AMP}) /\ Before(s, i) \in Nat
<1>1. IsFiniteSet(1..(i - 1))
  BY FS_Interval
<1>2. {j \in 1..(i - 1) : s[j] = AMP} \subseteq 1..(i - 1)
  OBVIOUS
<1>3. IsFiniteSet({j \in 1..(i - 1) : s[j] = AMP})
  BY <1>1, <1>2, FS_Subset
<1> QED
  BY <1>3, FS_CardinalityType DEF Before

\* Bytes that are no separators do not count.
LEMMA BeforeGap ==
    ASSUME NEW s, NEW i \in Nat \ {0}, NEW j \in Nat, i <= j, \A k \in i..(j - 1) : s[k] # AMP
    PROVE  Before(s, j) = Before(s, i)
<1>1. {k \in 1..(j - 1) : s[k] = AMP} = {k \in 1..(i - 1) : s[k] = AMP}
  OBVIOUS
<1> QED
  BY <1>1 DEF Before

\* A separator counts one for what is behind it.
LEMMA BeforeNext ==
    ASSUME NEW s, NEW i \in Nat \ {0}, s[i] = AMP
    PROVE  Before(s, i + 1) = Before(s, i) + 1
<1> DEFINE A == {k \in 1..(i - 1) : s[k] = AMP}
<1>1. {k \in 1..(i + 1 - 1) : s[k] = AMP} = A \cup {i}
  OBVIOUS
<1>2. i \notin A
  OBVIOUS
<1>3. IsFiniteSet(A)
  BY BeforeFacts
<1>4. Cardinality(A \cup {i}) = Cardinality(A) + 1
  BY <1>2, <1>3, FS_AddElement
<1>5. Before(s, i) = Cardinality(A)
  BY DEF Before
<1>6. Before(s, i + 1) = Cardinality(A \cup {i})
  BY <1>1 DEF Before
<1> QED
  BY <1>4, <1>5, <1>6

\* A separator is in front of more positions than the separators before it.
LEMMA BeforeGrows ==
    ASSUME NEW s, NEW i \in Nat \ {0}, NEW j \in Nat, i < j, s[i] = AMP
    PROVE  Before(s, i) < Before(s, j)
<1> DEFINE A == {k \in 1..(i + 1 - 1) : s[k] = AMP}
           B == {k \in 1..(j - 1) : s[k] = AMP}
<1>1. A \subseteq B
  OBVIOUS
<1>2. IsFiniteSet(B)
  BY BeforeFacts
<1>3. Cardinality(A) <= Cardinality(B)
  BY <1>1, <1>2, FS_Subset
<1>4. Before(s, i + 1) <= Before(s, j)
  BY <1>3 DEF Before
<1>5. Before(s, i) \in Nat /\ Before(s, j) \in Nat
  BY BeforeFacts
<1> QED
  BY <1>4, <1>5, BeforeNext

\* There is one k-th cut.
LEMMA CutIs ==
    ASSUME NEW s \in Seq(Nat), NEW k \in Nat \ {0}, NEW i \in 1..(Len(s) + 1), CutAt(s, k, i)
    PROVE  Cut(s, k) = i
<1>1. ASSUME NEW j \in 1..(Len(s) + 1), CutAt(s, k, j) PROVE j = i
  <2>1. Before(s, i) = Before(s, j) /\ Before(s, i) \in Nat
    BY <1>1, BeforeFacts DEF CutAt
  <2>2. CASE j < i
    <3>1. s[j] = AMP
      BY <1>1, <2>2 DEF CutAt
    <3> QED
      BY <2>1, <2>2, <3>1, BeforeGrows
  <2>3. CASE i < j
    <3>1. s[i] = AMP
      BY <2>3 DEF CutAt
    <3> QED
      BY <2>1, <2>3, <3>1, BeforeGrows
  <2> QED
    BY <2>2, <2>3
<1> DEFINE c == CHOOSE j \in 1..(Len(s) + 1) : CutAt(s, k, j)
<1>2. c \in 1..(Len(s) + 1) /\ CutAt(s, k, c)
  BY Zenon
<1>3. Cut(s, k) = c
  BY DEF Cut
<1> HIDE DEF c
<1> QED
  BY <1>1, <1>2, <1>3

\* A text has a first separator, or ends without one.
LEMMA FirstCut ==
    ASSUME NEW s \in Seq(Nat)
    PROVE  \E a \in 1..(Len(s) + 1) : /\ a = Len(s) + 1 \/ s[a] = AMP
                                      /\ \A j \in 1..(a - 1) : s[j] # AMP
<1> DEFINE T == {i \in 1..(Len(s) + 1) : i = Len(s) + 1 \/ s[i] = AMP}
<1>1. T \subseteq Nat /\ Len(s) + 1 \in T
  OBVIOUS
<1>2. PICK a \in T : \A y \in T : a <= y
  BY <1>1, LeastElement
<1>3. \A j \in 1..(a - 1) : s[j] # AMP
  <2>1. SUFFICES ASSUME NEW j \in 1..(a - 1), s[j] = AMP PROVE FALSE
    OBVIOUS
  <2>2. j \in T /\ j < a
    BY <2>1
  <2> QED
    BY <1>2, <2>2
<1> QED
  BY <1>2, <1>3

\* The first piece of a text is what stands in front of its first separator, or all of it.
LEMMA FirstPiece ==
    ASSUME NEW s \in Seq(Nat), NEW a \in 1..(Len(s) + 1), a = Len(s) + 1 \/ s[a] = AMP,
           \A j \in 1..(a - 1) : s[j] # AMP
    PROVE  Pieces(s)[1] = SubSeq(s, 1, a - 1)
<1>1. Before(s, 1) = 0
  <2>1. {j \in 1..(1 - 1) : s[j] = AMP} = {}
    OBVIOUS
  <2> QED
    BY <2>1, FS_EmptySet DEF Before
<1>2. Before(s, a) = 0
  BY <1>1, BeforeGap
<1>3. CutAt(s, 1, a)
  BY <1>2 DEF CutAt
<1>4. Cut(s, 1) = a
  BY <1>3, CutIs
<1>5. Cut(s, 0) = 0
  BY DEF Cut
<1>6. Before(s, Len(s) + 1) \in Nat
  <2>1. Len(s) + 1 \in Nat
    OBVIOUS
  <2> QED
    BY <2>1, BeforeFacts
<1>7. 1 \in 1..(Before(s, Len(s) + 1) + 1)
  BY <1>6
<1>8. Pieces(s)[1] = SubSeq(s, Cut(s, 1 - 1) + 1, Cut(s, 1) - 1)
  BY <1>7 DEF Pieces
<1> QED
  BY <1>4, <1>5, <1>8

\* The first piece of two texts, one behind the other: that of the first text if it has a
\* separator, and all of it with the first piece of the second if it has none.
LEMMA FirstPieceOfTwo ==
    ASSUME NEW s \in Seq(Nat), NEW t \in Seq(Nat)
    PROVE  Pieces(s \o t)[1] = IF \E i \in DOMAIN s : s[i] = AMP
                               THEN Pieces(s)[1] ELSE s \o Pieces(t)[1]
<1> DEFINE st == s \o t
<1>1. /\ st \in Seq(Nat) /\ Len(st) = Len(s) + Len(t)
      /\ \A i \in 1..Len(s) : st[i] = s[i]
      /\ \A i \in (Len(s) + 1)..(Len(s) + Len(t)) : st[i] = t[i - Len(s)]
  BY ConcatFacts
<1>2. Len(s) \in Nat /\ Len(t) \in Nat /\ DOMAIN s = 1..Len(s)
  OBVIOUS
<1> HIDE DEF st
<1>3. PICK a \in 1..(Len(s) + 1) : /\ a = Len(s) + 1 \/ s[a] = AMP
                                   /\ \A j \in 1..(a - 1) : s[j] # AMP
  BY FirstCut
<1>4. ASSUME \E i \in DOMAIN s : s[i] = AMP PROVE Pieces(st)[1] = Pieces(s)[1]
  <2>1. a \in 1..Len(s) /\ s[a] = AMP
    BY <1>2, <1>3, <1>4
  <2>2. Pieces(s)[1] = SubSeq(s, 1, a - 1)
    BY <1>3, FirstPiece
  <2>3. a \in 1..(Len(st) + 1) /\ st[a] = AMP /\ \A j \in 1..(a - 1) : st[j] # AMP
    BY <1>1, <1>2, <1>3, <2>1
  <2>4. Pieces(st)[1] = SubSeq(st, 1, a - 1)
    BY <1>1, <2>3, FirstPiece
  <2>5. SubSeq(st, 1, a - 1) = SubSeq(s, 1, a - 1)
    <3>1. a - 1 \in Nat /\ a - 1 <= Len(s) /\ a - 1 <= Len(st) /\ \A i \in 1..(a - 1) : st[i] = s[i]
      BY <1>1, <1>2, <2>1
    <3> QED
      BY <1>1, <3>1, SamePrefix
  <2> QED
    BY <2>2, <2>4, <2>5
<1>5. ASSUME ~ \E i \in DOMAIN s : s[i] = AMP PROVE Pieces(st)[1] = s \o Pieces(t)[1]
  <2>1. PICK b \in 1..(Len(t) + 1) : /\ b = Len(t) + 1 \/ t[b] = AMP
                                     /\ \A j \in 1..(b - 1) : t[j] # AMP
    BY FirstCut
  <2>2. Pieces(t)[1] = SubSeq(t, 1, b - 1)
    BY <2>1, FirstPiece
  <2> DEFINE d == Len(s) + b
  <2>3. d \in 1..(Len(st) + 1) /\ (d = Len(st) + 1 \/ st[d] = AMP)
    <3>1. d \in 1..(Len(st) + 1) /\ (b = Len(t) + 1 => d = Len(st) + 1)
      <4> DEFINE x == Len(s)
                 y == Len(t)
                 z == Len(st)
      <4>1. x \in Nat /\ y \in Nat /\ z = x + y /\ b \in 1..(y + 1)
        BY <1>1, <1>2
      <4> HIDE DEF x, y, z
      <4>2. x + b \in 1..(z + 1) /\ (b = y + 1 => x + b = z + 1)
        BY <4>1
      <4> QED
        BY <4>2 DEF x, y, z
    <3>2. ASSUME b # Len(t) + 1 PROVE st[d] = AMP
      <4>1. d \in (Len(s) + 1)..(Len(s) + Len(t)) /\ d - Len(s) = b
        BY <1>2, <3>2
      <4> QED
        BY <1>1, <2>1, <3>2, <4>1
    <3> QED
      BY <3>1, <3>2
  <2>4. \A j \in 1..(d - 1) : st[j] # AMP
    <3>1. SUFFICES ASSUME NEW j \in 1..(d - 1) PROVE st[j] # AMP
      OBVIOUS
    <3>2. CASE j <= Len(s)
      <4>1. j \in 1..Len(s) /\ j \in DOMAIN s
        BY <1>2, <3>2
      <4> QED
        BY <1>1, <1>5, <4>1
    <3>3. CASE j > Len(s)
      <4>1. j \in (Len(s) + 1)..(Len(s) + Len(t)) /\ j - Len(s) \in 1..(b - 1)
        BY <1>2, <3>3
      <4> QED
        BY <1>1, <2>1, <4>1
    <3> QED
      BY <1>2, <3>2, <3>3
  <2>5. d - 1 \in 0..Len(st) /\ d - 1 = Len(s) + (b - 1) /\ b - 1 \in 0..Len(t)
    BY <1>1, <1>2
  <2> HIDE DEF d
  <2>6. Pieces(st)[1] = SubSeq(st, 1, d - 1)
    BY <1>1, <2>3, <2>4, FirstPiece
  <2>7. SubSeq(st, 1, d - 1) = s \o SubSeq(t, 1, b - 1)
    BY <1>1, <1>2, <2>5, ConcatPrefix DEF st
  <2> QED
    BY <2>2, <2>6, <2>7
<1> QED
  BY <1>4, <1>5 DEF st

\* The bytes in front of the first NUL, which is at n + 1 or not in the text at all.
LEMMA UpToNulIs ==
    ASSUME NEW s \in Seq(Nat), NEW n \in 0..Len(s), \A i \in 1..n : s[i] # NUL,
           n = Len(s) \/ s[n + 1] = NUL
    PROVE  UpToNul(s) = SubSeq(s, 1, n)
<1> DEFINE End(k) == (\A i \in 1..k : s[i] # NUL) /\ (k = Len(s) \/ s[k + 1] = NUL)
           c == CHOOSE k \in 0..Len(s) : End(k)
<1>1. End(n)
  OBVIOUS
<1>2. c \in 0..Len(s) /\ End(c)
  <2> HIDE DEF End
  <2> QED
    BY <1>1, Zenon
<1>3. UpToNul(s) = SubSeq(s, 1, c)
  BY DEF UpToNul
<1> HIDE DEF c
<1>4. c = n
  <2>1. ~(c < n)
    BY <1>2
  <2>2. ~(n < c)
    BY <1>2
  <2> QED
    BY <1>2, <2>1, <2>2
<1> QED
  BY <1>3, <1>4

-----------------------------------------------------------------------------
(* MessageRouting: the inductive invariant *)

Parsing == {"split", "parsed"}

RoutingTypeOK ==
    /\ hpc \in {"idle", "dispatch", "switch", "parse", "return", "dead", "trapped"} \cup Parsing
    /\ frame \in Seq(Nat) /\ beyond \in Seq(Nat)
    /\ str \in Seq(Nat) /\ strs \in Seq(Nat) /\ res \in Seq(Seq(Nat))

\* The frame and what follows it, while a message is handled.
Received ==
    /\ hpc # "idle" => Len(beyond) > 2 /\ beyond[Len(beyond)] = NUL
    /\ msg.family \in {"login", "chat", "move"} => Len(frame) >= 2
    /\ msg.family = "login" => /\ msg.name \in {"login", "register"}
                               /\ frame[1] = LOGIN /\ frame[2] = LoginEnum.login
    /\ msg.family = "chat" => /\ msg.name \in DOMAIN ChatEnum
                              /\ frame[1] = CHAT /\ frame[2] = ChatEnum[msg.name]
    /\ msg.family = "move" => /\ msg.name = "move"
                              /\ frame[1] = MOVE /\ frame[2] = MoveEnum.move

\* The branch that a message of each family takes.
Routed ==
    /\ hpc = "idle" => msg = NoMsg
    /\ hpc \in {"idle", "dispatch", "switch"} => branch = "none"
    /\ msg.family = "login" =>
          /\ hpc # "dead"
          /\ hpc \in {"parse", "return", "trapped"} \cup Parsing => branch = "login"
    /\ msg.family \in {"chat", "move"} =>
          /\ hpc \in {"dispatch", "switch", "return"}
          /\ hpc = "return" => branch = msg.name

\* What OnNetLoginMsg makes its string of.
Body == SubSeq(frame \o beyond, 3, Len(frame \o beyond))

\* Parse has cut its string c bytes behind the beginning for the last time.
CutTo(c) ==
    /\ strs = SubSeq(WithDelimiter(str), c + 1, Len(WithDelimiter(str)))
    /\ \/ c = 0 /\ res = <<>>
       \/ c > 0 /\ res # <<>> /\ CutAt(str, Len(res), c)
    /\ \A k \in 1..Len(res) : res[k] = SubSeq(str, Cut(str, k - 1) + 1, Cut(str, k) - 1)

Parsed ==
    /\ hpc \in {"dispatch", "switch", "parse"} => res = <<>>
    /\ hpc \in Parsing => str = Text(Body)
    /\ hpc = "split" => Len(str) > 1 /\ \E c \in 0..(Len(str) + 1) : CutTo(c)
    /\ hpc = "parsed" => res = IF Len(str) <= 1 THEN <<>> ELSE Pieces(str)

RoutingIInv == RoutingTypeOK /\ Received /\ Routed /\ Parsed

-----------------------------------------------------------------------------
(* MessageRouting: the invariant is kept by every action *)

\* What OnNetLoginMsg takes for its string ends in a NUL, behind the frame at the latest.
LEMMA BodyFacts ==
    ASSUME RoutingTypeOK, Received, hpc # "idle"
    PROVE  Body \in Seq(Nat) /\ Len(Body) = Len(frame) + Len(beyond) - 2 /\ Len(Body) > 0
           /\ Body[Len(Body)] = NUL
           /\ \A i \in 1..Len(Body) : Body[i] = At(i + 2)
<1> DEFINE whole == frame \o beyond
<1>1. frame \in Seq(Nat) /\ beyond \in Seq(Nat) /\ Len(beyond) > 2 /\ beyond[Len(beyond)] = NUL
  BY DEF RoutingTypeOK, Received
<1>2. /\ whole \in Seq(Nat) /\ Len(whole) = Len(frame) + Len(beyond)
      /\ whole[Len(frame) + Len(beyond)] = beyond[Len(beyond)]
  BY <1>1
<1>3. Body = SubSeq(whole, 2 + 1, Len(whole))
  BY DEF Body
<1> HIDE DEF whole
<1>4. 2 \in 0..Len(whole)
  BY <1>1, <1>2
<1>5. /\ Body \in Seq(Nat) /\ Len(Body) = Len(whole) - 2
      /\ \A i \in 1..(Len(whole) - 2) : Body[i] = whole[2 + i]
  BY <1>2, <1>3, <1>4, SuffixFacts
<1>6. \A i \in 1..Len(Body) : Body[i] = At(i + 2)
  BY <1>5 DEF At, whole
<1>7. Len(frame) \in Nat /\ Len(beyond) \in Nat /\ Len(Body) = Len(frame) + Len(beyond) - 2
  <2>1. Len(frame) \in Nat /\ Len(beyond) \in Nat
    BY <1>1
  <2>2. Len(Body) = Len(whole) - 2 /\ Len(whole) = Len(frame) + Len(beyond)
    BY <1>2, <1>5, Zenon
  <2> HIDE DEF Body
  <2> QED
    BY <2>1, <2>2
<1>8. Len(Body) \in 1..Len(Body) /\ 2 + Len(Body) = Len(frame) + Len(beyond)
  BY <1>1, <1>7
<1>9. Body[Len(Body)] = whole[2 + Len(Body)]
  BY <1>5, <1>8
<1>10. Body[Len(Body)] = NUL
  BY <1>1, <1>2, <1>8, <1>9
<1>11. Len(Body) > 0
  BY <1>7, <1>8
<1> QED
  BY <1>5, <1>6, <1>7, <1>10, <1>11

\* OnNetLoginMsg always finds the end of its string.
LEMMA TextType ==
    ASSUME RoutingTypeOK, Received, hpc # "idle"
    PROVE  Text(Body) \in Seq(Nat)
<1>1. Body \in Seq(Nat) /\ Len(Body) \in 1..Len(Body) /\ Body[Len(Body)] = NUL
  BY BodyFacts
<1>2. PICK i \in 1..Len(Body) : Text(Body) = SubSeq(Body, 1, i - 1)
  BY <1>1, TextFacts
<1> QED
  BY <1>1, <1>2

\* Parse puts one separator behind its string.
LEMMA WithDelimiterFacts ==
    ASSUME NEW s \in Seq(Nat)
    PROVE  /\ WithDelimiter(s) \in Seq(Nat) /\ Len(WithDelimiter(s)) = Len(s) + 1
           /\ \A i \in 1..Len(s) : WithDelimiter(s)[i] = s[i]
           /\ WithDelimiter(s)[Len(s) + 1] = AMP
  BY DEF WithDelimiter, AMP

\* A frame arrives: its type and its subtype are those of its family.
LEMMA PacketStep ==
    ASSUME RoutingIInv, NEW m, NEW bytes \in Seq(Nat), Packet(m, bytes),
           m.family \in {"login", "chat", "move"} => Len(bytes) >= 2,
           m.family = "login" => /\ m.name \in {"login", "register"}
                                 /\ bytes[1] = LOGIN /\ bytes[2] = LoginEnum.login,
           m.family = "chat" => /\ m.name \in DOMAIN ChatEnum
                                /\ bytes[1] = CHAT /\ bytes[2] = ChatEnum[m.name],
           m.family = "move" => m.name = "move" /\ bytes[1] = MOVE /\ bytes[2] = MoveEnum.move
    PROVE  RoutingIInv'
<1>1. beyond' \in Seq(Nat) /\ Len(beyond') > 2 /\ beyond'[Len(beyond')] = NUL
  <2>1. PICK b \in [1..MaxBeyond -> Bytes] : beyond' = b \o <<NUL>>
    BY DEF Packet
  <2>2. MaxBeyond \in Nat /\ MaxBeyond > 1
    BY MessageRoutingAssumption
  <2>3. b \in [1..MaxBeyond -> Nat]
    BY MessageRoutingAssumption
  <2>4. b \in Seq(Nat) /\ Len(b) = MaxBeyond
    BY <2>2, <2>3
  <2> QED
    BY <2>1, <2>2, <2>4 DEF NUL
<1>2. RoutingTypeOK'
  BY <1>1 DEF RoutingTypeOK, Packet
<1>3. Received'
  BY <1>1 DEF Received, Packet
<1>4. Routed'
  BY DEF Routed, Packet, Parsing
<1>5. Parsed'
  BY DEF Parsed, Packet, Parsing
<1> QED
  BY <1>2, <1>3, <1>4, <1>5 DEF RoutingIInv

\* Whatever a client sends, the invariant holds when the handler begins.
LEMMA SendStep ==
    ASSUME RoutingIInv, Send
    PROVE  RoutingIInv'
<1>1. CASE \E n \in DOMAIN LoginMsg, text \in Strings(MaxText) :
            Packet(Msg("login", n), LoginMsg[n] \o text)
  <2>1. PICK n \in DOMAIN LoginMsg, text \in Strings(MaxText) :
            Packet(Msg("login", n), LoginMsg[n] \o text)
    BY <1>1
  <2>2. n \in {"login", "register"} /\ LoginMsg[n] = <<LOGIN, LoginEnum.login>>
    BY DEF LoginMsg, Protocol
  <2>3. text \in Seq(Nat)
    <3>1. PICK k \in 0..MaxText : text \in [1..k -> Bytes]
      BY DEF Strings
    <3>2. text \in [1..k -> Nat]
      BY <3>1, MessageRoutingAssumption
    <3> QED
      BY <3>2
  <2>4. /\ LoginMsg[n] \o text \in Seq(Nat) /\ Len(LoginMsg[n] \o text) >= 2
        /\ (LoginMsg[n] \o text)[1] = LOGIN /\ (LoginMsg[n] \o text)[2] = LoginEnum.login
    BY <2>2, <2>3 DEF LOGIN, LoginEnum
  <2> QED
    BY <2>1, <2>2, <2>4, PacketStep DEF Msg
<1>2. CASE \E n \in DOMAIN ChatMsg : Packet(Msg("chat", n), ChatMsg[n])
  <2>1. PICK n \in DOMAIN ChatMsg : Packet(Msg("chat", n), ChatMsg[n])
    BY <1>2
  <2>2. n \in DOMAIN ChatEnum /\ ChatMsg[n] = <<CHAT, ChatEnum[n]>>
    BY DEF ChatMsg, Protocol
  <2>3. ChatEnum[n] \in Nat
    BY <2>2 DEF ChatEnum
  <2>4. /\ ChatMsg[n] \in Seq(Nat) /\ Len(ChatMsg[n]) >= 2
        /\ ChatMsg[n][1] = CHAT /\ ChatMsg[n][2] = ChatEnum[n]
    BY <2>2, <2>3 DEF CHAT
  <2> QED
    BY <2>1, <2>2, <2>4, PacketStep DEF Msg
<1>3. CASE \E n \in DOMAIN MoveMsg : Packet(Msg("move", n), MoveMsg[n])
  <2>1. PICK n \in DOMAIN MoveMsg : Packet(Msg("move", n), MoveMsg[n])
    BY <1>3
  <2>2. n = "move" /\ MoveMsg[n] = <<MOVE, MoveEnum.move>>
    BY DEF MoveMsg, Protocol
  <2>3. /\ MoveMsg[n] \in Seq(Nat) /\ Len(MoveMsg[n]) >= 2
        /\ MoveMsg[n][1] = MOVE /\ MoveMsg[n][2] = MoveEnum.move
    BY <2>2 DEF MOVE, MoveEnum
  <2> QED
    BY <2>1, <2>2, <2>3, PacketStep DEF Msg
<1>4. CASE \E k \in 0..1 : Packet(Msg("short", "none"), SubSeq(LoginMsg.login, 1, k))
  <2>1. PICK k \in 0..1 : Packet(Msg("short", "none"), SubSeq(LoginMsg.login, 1, k))
    BY <1>4
  <2>2. LoginMsg.login = <<LOGIN, LoginEnum.login>>
    BY DEF LoginMsg, Protocol
  <2>3. LoginMsg.login \in Seq(Nat) /\ Len(LoginMsg.login) = 2
    BY <2>2 DEF LOGIN, LoginEnum
  <2>4. SubSeq(LoginMsg.login, 1, k) \in Seq(Nat)
    BY <2>3
  <2> QED
    BY <2>1, <2>2, <2>4, PacketStep DEF Msg
<1> QED
  BY <1>1, <1>2, <1>3, <1>4 DEF Send

\* The type and the subtype of a message that is not short are in its frame.
LEMMA AtFacts ==
    ASSUME RoutingIInv, hpc # "idle", msg.family \in {"login", "chat", "move"}
    PROVE  At(1) = frame[1] /\ At(2) = frame[2]
<1>1. frame \in Seq(Nat) /\ beyond \in Seq(Nat) /\ Len(frame) >= 2
  BY DEF RoutingIInv, RoutingTypeOK, Received
<1> QED
  BY <1>1 DEF At

\* DispatchMsg: every family has a handler.
LEMMA DispatchMsgStep ==
    ASSUME RoutingIInv, DispatchMsg
    PROVE  RoutingIInv'
<1>1. /\ hpc = "dispatch" /\ hpc' \in {"switch", "dead"}
      /\ UNCHANGED <<msg, frame, beyond, branch, str, strs, res>>
  BY DEF DispatchMsg, packVars, parseVars
<1>2. msg.family \in {"login", "chat", "move"} => hpc' = "switch"
  BY AtFacts DEF DispatchMsg, RoutingIInv, Received
<1>3. RoutingTypeOK' /\ Received'
  BY <1>1 DEF RoutingIInv, RoutingTypeOK, Received, Parsing
<1>4. Routed'
  BY <1>1, <1>2 DEF RoutingIInv, Routed, Parsing
<1>5. Parsed'
  BY <1>1 DEF RoutingIInv, Parsed, Parsing
<1> QED
  BY <1>3, <1>4, <1>5 DEF RoutingIInv

\* A switch over the subtype, once its branch is known to be right.
LEMMA SwitchStep ==
    ASSUME RoutingIInv, NEW base, NEW enum, Switch(base, enum), Routed'
    PROVE  RoutingIInv'
<1>1. /\ hpc = "switch" /\ hpc' \in {"parse", "return"}
      /\ UNCHANGED <<msg, frame, beyond, str, strs, res>>
  BY DEF Switch, packVars, parseVars
<1>2. RoutingTypeOK' /\ Received'
  BY <1>1 DEF RoutingIInv, RoutingTypeOK, Received, Parsing
<1>3. Parsed'
  BY <1>1 DEF RoutingIInv, Parsed, Parsing
<1> QED
  BY <1>2, <1>3 DEF RoutingIInv

\* Only the login family gets here by its type, and its subtype is the case login.
LEMMA OnDispatchLoginMsgStep ==
    ASSUME RoutingIInv, OnDispatchLoginMsg
    PROVE  RoutingIInv'
<1>1. /\ hpc = "switch" /\ hpc' \in {"parse", "return"} /\ msg' = msg /\ At(1) = LOGIN
      /\ branch' = "login" => hpc' = "parse"
  BY DEF OnDispatchLoginMsg, Switch, packVars
<1>2. msg.family \notin {"chat", "move"}
  BY <1>1, AtFacts DEF RoutingIInv, Received, LOGIN, CHAT, MOVE
<1>3. msg.family = "login" => branch' = "login"
  <2>1. SUFFICES ASSUME msg.family = "login" PROVE branch' = "login"
    OBVIOUS
  <2>2. At(2) = LoginEnum.login
    BY <1>1, <2>1, AtFacts DEF RoutingIInv, Received
  <2>3. \A n \in DOMAIN LoginEnum : LoginEnum[n] = LoginEnum.login <=> n = "login"
    BY DEF LoginEnum
  <2>4. "login" \in DOMAIN LoginEnum
    BY DEF LoginEnum
  <2> QED
    BY <2>2, <2>3, <2>4 DEF OnDispatchLoginMsg, Switch
<1>4. Routed'
  BY <1>1, <1>2, <1>3 DEF Routed, Parsing
<1> QED
  BY <1>4, SwitchStep DEF OnDispatchLoginMsg

\* Only the chat family gets here by its type, and each message has a subtype of its own.
LEMMA OnDispatchChatMsgStep ==
    ASSUME RoutingIInv, OnDispatchChatMsg
    PROVE  RoutingIInv'
<1>1. hpc = "switch" /\ hpc' = "return" /\ msg' = msg /\ At(1) = CHAT
  BY DEF OnDispatchChatMsg, Switch, packVars, CHAT, LOGIN
<1>2. msg.family \notin {"login", "move"}
  BY <1>1, AtFacts DEF RoutingIInv, Received, LOGIN, CHAT, MOVE
<1>3. msg.family = "chat" => branch' = msg.name
  <2>1. SUFFICES ASSUME msg.family = "chat" PROVE branch' = msg.name
    OBVIOUS
  <2>2. msg.name \in DOMAIN ChatEnum /\ ChatEnum[msg.name] = At(2)
    BY <1>1, <2>1, AtFacts DEF RoutingIInv, Received
  <2>3. \A n \in DOMAIN ChatEnum : ChatEnum[n] = At(2) <=> n = msg.name
    BY <2>2 DEF ChatEnum
  <2> QED
    BY <2>2, <2>3 DEF OnDispatchChatMsg, Switch
<1>4. Routed'
  BY <1>1, <1>2, <1>3 DEF Routed, Parsing
<1> QED
  BY <1>4, SwitchStep DEF OnDispatchChatMsg

\* Only the move family gets here by its type, and its subtype is the case move.
LEMMA OnDispatchMoveMsgStep ==
    ASSUME RoutingIInv, OnDispatchMoveMsg
    PROVE  RoutingIInv'
<1>1. hpc = "switch" /\ hpc' = "return" /\ msg' = msg /\ At(1) = MOVE
  BY DEF OnDispatchMoveMsg, Switch, packVars, MOVE, LOGIN
<1>2. msg.family \notin {"login", "chat"}
  BY <1>1, AtFacts DEF RoutingIInv, Received, LOGIN, CHAT, MOVE
<1>3. msg.family = "move" => branch' = msg.name
  <2>1. SUFFICES ASSUME msg.family = "move" PROVE branch' = msg.name
    OBVIOUS
  <2>2. msg.name = "move" /\ MoveEnum.move = At(2)
    BY <1>1, <2>1, AtFacts DEF RoutingIInv, Received
  <2>3. \A n \in DOMAIN MoveEnum : MoveEnum[n] = At(2) <=> n = "move"
    BY <2>2 DEF MoveEnum
  <2>4. "move" \in DOMAIN MoveEnum
    BY DEF MoveEnum
  <2> QED
    BY <2>2, <2>3, <2>4 DEF OnDispatchMoveMsg, Switch
<1>4. Routed'
  BY <1>1, <1>2, <1>3 DEF Routed, Parsing
<1> QED
  BY <1>4, SwitchStep DEF OnDispatchMoveMsg

\* Parse begins: nothing has been cut off.
LEMMA ParseBeginStep ==
    ASSUME RoutingIInv, ParseBegin
    PROVE  RoutingIInv'
<1>1. /\ hpc = "parse" /\ hpc' \in {"parsed", "split"} /\ str' = Text(Body)
      /\ strs' = (IF Len(str') <= 1 THEN <<>> ELSE WithDelimiter(str'))
      /\ hpc' = (IF Len(str') <= 1 THEN "parsed" ELSE "split")
      /\ msg' = msg /\ frame' = frame /\ beyond' = beyond /\ branch' = branch
      /\ res' = res
  BY DEF ParseBegin, packVars, Body
<1>2. str' \in Seq(Nat)
  BY <1>1, TextType DEF RoutingIInv
<1>3. strs' \in Seq(Nat)
  BY <1>1, <1>2, WithDelimiterFacts
<1>4. RoutingTypeOK' /\ Received'
  BY <1>1, <1>2, <1>3 DEF RoutingIInv, RoutingTypeOK, Received, Parsing
<1>5. Routed'
  BY <1>1 DEF RoutingIInv, Routed, Parsing
<1>6. Body' = Body
  BY <1>1 DEF Body
<1>7. ASSUME hpc' = "split" PROVE Len(str') > 1 /\ \E c \in 0..(Len(str') + 1) : CutTo(c)'
  <2>1. Len(str') > 1 /\ strs' = WithDelimiter(str') /\ res' = <<>>
    BY <1>1, <1>2, <1>7 DEF RoutingIInv, Parsed
  <2>2. strs' = SubSeq(WithDelimiter(str'), 0 + 1, Len(WithDelimiter(str')))
    BY <1>2, <2>1, WithDelimiterFacts, SubSeqFull
  <2>3. CutTo(0)'
    BY <2>1, <2>2 DEF CutTo
  <2> QED
    BY <1>2, <2>1, <2>3
<1>8. Parsed'
  BY <1>1, <1>6, <1>7 DEF RoutingIInv, Parsed, Parsing
<1> QED
  BY <1>4, <1>5, <1>8 DEF RoutingIInv

\* OnNetLoginMsg looks at how many pieces there are, and does nothing else.
LEMMA OnNetLoginMsgStep ==
    ASSUME RoutingIInv, OnNetLoginMsg
    PROVE  RoutingIInv'
<1>1. /\ hpc = "parsed" /\ hpc' = "return"
      /\ UNCHANGED <<msg, frame, beyond, branch, str, strs, res>>
  BY DEF OnNetLoginMsg, packVars, parseVars
<1>2. RoutingTypeOK' /\ Received'
  BY <1>1 DEF RoutingIInv, RoutingTypeOK, Received, Parsing
<1>3. Routed'
  BY <1>1 DEF RoutingIInv, Routed, Parsing
<1>4. Parsed'
  BY <1>1 DEF RoutingIInv, Parsed, Parsing, Body
<1> QED
  BY <1>2, <1>3, <1>4 DEF RoutingIInv

\* The handler returns and the next message may come.
LEMMA ReturnStep ==
    ASSUME RoutingIInv, Return
    PROVE  RoutingIInv'
  BY DEF Return, RoutingIInv, RoutingTypeOK, Received, Routed, Parsed, Parsing, NoMsg, Msg

\* Between two steps of Parse, strs is what is left of the string behind the last cut.
LEMMA CutToFacts ==
    ASSUME str \in Seq(Nat), res \in Seq(Seq(Nat)), NEW c \in 0..(Len(str) + 1), CutTo(c)
    PROVE  /\ strs \in Seq(Nat) /\ Len(strs) = Len(str) + 1 - c
           /\ \A j \in 1..(Len(str) + 1 - c) : strs[j] = WithDelimiter(str)[c + j]
           /\ c = Cut(str, Len(res))
<1> DEFINE t == WithDelimiter(str)
<1>1. t \in Seq(Nat) /\ Len(t) = Len(str) + 1
  BY WithDelimiterFacts
<1>2. strs = SubSeq(t, c + 1, Len(t))
  BY DEF CutTo
<1> HIDE DEF t
<1>3. c \in 0..Len(t)
  BY <1>1
<1>4. /\ strs \in Seq(Nat) /\ Len(strs) = Len(t) - c
      /\ \A j \in 1..(Len(t) - c) : strs[j] = t[c + j]
  BY <1>1, <1>2, <1>3, SuffixFacts
<1>5. c = Cut(str, Len(res))
  <2>1. CASE c = 0 /\ res = <<>>
    BY <2>1 DEF Cut
  <2>2. CASE c > 0 /\ res # <<>> /\ CutAt(str, Len(res), c)
    <3>1. Len(res) \in Nat \ {0} /\ c \in 1..(Len(str) + 1)
      BY <2>2
    <3> QED
      BY <2>2, <3>1, CutIs
  <2> QED
    BY <2>1, <2>2 DEF CutTo
<1> QED
  BY <1>1, <1>4, <1>5 DEF t

\* The next separator behind the last cut is the next cut.
LEMMA NextCut ==
    ASSUME str \in Seq(Nat), res \in Seq(Seq(Nat)), NEW c \in 0..(Len(str) + 1), CutTo(c),
           NEW d \in (c + 1)..(Len(str) + 1), d = Len(str) + 1 \/ str[d] = AMP,
           \A j \in (c + 1)..(d - 1) : str[j] # AMP
    PROVE  CutAt(str, Len(res) + 1, d) /\ Cut(str, Len(res) + 1) = d
<1>1. Len(res) \in Nat /\ Len(str) \in Nat
  OBVIOUS
<1>2. Before(str, c + 1) = Len(res)
  <2>1. CASE c = 0 /\ res = <<>>
    <3>1. {j \in 1..(c + 1 - 1) : str[j] = AMP} = {}
      BY <2>1
    <3> QED
      BY <2>1, <3>1, FS_EmptySet DEF Before
  <2>2. CASE c > 0 /\ CutAt(str, Len(res), c)
    <3>1. c # Len(str) + 1 /\ c \in Nat \ {0}
      BY <1>1, <2>2
    <3>2. str[c] = AMP /\ Before(str, c) = Len(res) - 1
      BY <2>2, <3>1 DEF CutAt
    <3> QED
      BY <1>1, <3>1, <3>2, BeforeNext
  <2> QED
    BY <2>1, <2>2 DEF CutTo
<1>3. Before(str, d) = Before(str, c + 1)
  BY <1>1, BeforeGap
<1>4. CutAt(str, Len(res) + 1, d)
  BY <1>1, <1>2, <1>3 DEF CutAt
<1> QED
  BY <1>1, <1>4, CutIs

\* Parse cuts one piece off: it is the piece between the last cut and the next.
LEMMA ParseSplitStep ==
    ASSUME RoutingIInv, ParseSplit
    PROVE  RoutingIInv'
<1> DEFINE t == WithDelimiter(str)
           n == Len(str)
<1>1. PICK i \in DOMAIN strs :
         /\ strs[i] = AMP /\ \A j \in 1..(i - 1) : strs[j] # AMP
         /\ res' = Append(res, SubSeq(strs, 1, i - 1))
         /\ strs' = SubSeq(strs, i + 1, Len(strs))
  BY DEF ParseSplit, Step
<1>2. hpc = "split" /\ UNCHANGED <<hpc, msg, frame, beyond, branch, str>>
  BY DEF ParseSplit, packVars
<1>3. str \in Seq(Nat) /\ res \in Seq(Seq(Nat)) /\ n \in Nat /\ n > 1
  BY <1>2 DEF RoutingIInv, RoutingTypeOK, Parsed
<1>4. PICK c \in 0..(n + 1) : CutTo(c)
  BY <1>2 DEF RoutingIInv, Parsed
<1>5. /\ strs \in Seq(Nat) /\ Len(strs) = n + 1 - c
      /\ \A j \in 1..(n + 1 - c) : strs[j] = t[c + j]
      /\ c = Cut(str, Len(res))
  BY <1>3, <1>4, CutToFacts
<1>6. /\ t \in Seq(Nat) /\ Len(t) = n + 1 /\ \A j \in 1..n : t[j] = str[j]
  BY <1>3, WithDelimiterFacts
<1> HIDE DEF t
<1> DEFINE d == c + i
<1>7. i \in 1..(n + 1 - c)
  BY <1>1, <1>3, <1>5
<1>8. d \in (c + 1)..(n + 1)
  BY <1>3, <1>7
<1>9. d = n + 1 \/ str[d] = AMP
  <2>1. t[d] = AMP
    BY <1>1, <1>5, <1>7
  <2>2. d = n + 1 \/ d \in 1..n
    BY <1>3, <1>8
  <2> HIDE DEF d
  <2> QED
    BY <1>6, <2>1, <2>2
<1>10. \A j \in (c + 1)..(d - 1) : str[j] # AMP
  <2>1. SUFFICES ASSUME NEW j \in (c + 1)..(d - 1) PROVE str[j] # AMP
    OBVIOUS
  <2>2. j - c \in 1..(i - 1) /\ j - c \in 1..(n + 1 - c) /\ j \in 1..n /\ c + (j - c) = j
    <3>1. n \in Nat /\ c \in 0..(n + 1)
      BY <1>3
    <3> HIDE DEF n
    <3> QED
      BY <1>7, <3>1
  <2>3. strs[j - c] # AMP
    BY <1>1, <2>2
  <2>4. strs[j - c] = t[j]
    BY <1>5, <2>2
  <2> QED
    BY <1>6, <2>2, <2>3, <2>4
<1>11. CutAt(str, Len(res) + 1, d) /\ Cut(str, Len(res) + 1) = d
  BY <1>3, <1>4, <1>8, <1>9, <1>10, NextCut
<1> DEFINE piece == SubSeq(strs, 1, i - 1)
<1>12. /\ piece \in Seq(Nat) /\ Len(piece) = i - 1
       /\ \A j \in 1..(i - 1) : piece[j] = str[c + j]
  <2>1. i - 1 \in 0..Len(strs)
    <3>1. n \in Nat /\ c \in 0..(n + 1) /\ Len(strs) = n + 1 - c
      BY <1>3, <1>5
    <3> HIDE DEF n
    <3> QED
      BY <1>7, <3>1
  <2>2. /\ piece \in Seq(Nat) /\ Len(piece) = i - 1
        /\ \A j \in 1..(i - 1) : piece[j] = strs[j]
    BY <1>5, <2>1, PrefixFacts
  <2> HIDE DEF piece
  <2>5. \A j \in 1..(i - 1) : j \in 1..(n + 1 - c) /\ c + j \in 1..n
    BY <1>3, <1>7
  <2> QED
    BY <1>5, <1>6, <2>2, <2>5
<1>13. piece = SubSeq(str, c + 1, d - 1)
  <2>1. c + 1 \in 1..(n + 1) /\ d - 1 \in (c + 1 - 1)..n
    BY <1>3, <1>8
  <2>2. /\ SubSeq(str, c + 1, d - 1) \in Seq(Nat)
        /\ Len(SubSeq(str, c + 1, d - 1)) = (d - 1) - (c + 1) + 1
        /\ \A j \in 1..((d - 1) - (c + 1) + 1) : SubSeq(str, c + 1, d - 1)[j] = str[(c + 1) + j - 1]
    BY <1>3, <2>1, SubSeqFacts
  <2>3. (d - 1) - (c + 1) + 1 = i - 1
    BY <1>3, <1>7
  <2>4. \A j \in 1..(i - 1) : (c + 1) + j - 1 = c + j
    BY <1>3
  <2> HIDE DEF piece, d
  <2>5. \A j \in 1..(i - 1) : SubSeq(str, c + 1, d - 1)[j] = piece[j]
    BY <1>12, <2>2, <2>3, <2>4
  <2> QED
    BY <1>12, <2>2, <2>3, <2>5, SeqEqual
<1>14. /\ strs' \in Seq(Nat) /\ Len(strs') = n + 1 - d
       /\ \A j \in 1..(n + 1 - d) : strs'[j] = t[d + j]
  <2>1. i \in 0..Len(strs)
    BY <1>3, <1>5, <1>7
  <2>2. /\ strs' \in Seq(Nat) /\ Len(strs') = Len(strs) - i
        /\ \A j \in 1..(Len(strs) - i) : strs'[j] = strs[i + j]
    <3> DEFINE u == strs
    <3>1. u \in Seq(Nat) /\ i \in 0..Len(u) /\ strs' = SubSeq(u, i + 1, Len(u))
      BY <1>1, <1>5, <2>1
    <3> HIDE DEF u
    <3>2. /\ strs' \in Seq(Nat) /\ Len(strs') = Len(u) - i
          /\ \A j \in 1..(Len(u) - i) : strs'[j] = u[i + j]
      BY <3>1, SuffixFacts
    <3> QED
      BY <3>2 DEF u
  <2>3. Len(strs) - i = n + 1 - d
    BY <1>3, <1>5, <1>7
  <2>4. \A j \in 1..(n + 1 - d) : i + j \in 1..(n + 1 - c) /\ c + (i + j) = d + j
    BY <1>3, <1>7
  <2> HIDE DEF d
  <2>5. \A j \in 1..(n + 1 - d) : strs'[j] = strs[i + j]
    BY <2>2, <2>3
  <2>6. \A j \in 1..(n + 1 - d) : strs[i + j] = t[d + j]
    BY <1>5, <2>4
  <2> QED
    BY <2>2, <2>3, <2>5, <2>6
<1>15. strs' = SubSeq(t, d + 1, Len(t))
  <2>1. d \in 0..Len(t)
    BY <1>3, <1>6, <1>8
  <2>2. /\ SubSeq(t, d + 1, Len(t)) \in Seq(Nat) /\ Len(SubSeq(t, d + 1, Len(t))) = Len(t) - d
        /\ \A j \in 1..(Len(t) - d) : SubSeq(t, d + 1, Len(t))[j] = t[d + j]
    BY <1>6, <2>1, SuffixFacts
  <2>3. Len(t) - d = n + 1 - d
    BY <1>3, <1>6, <1>8
  <2> HIDE DEF d
  <2>4. /\ Len(strs') = Len(SubSeq(t, d + 1, Len(t)))
        /\ \A j \in 1..Len(strs') : strs'[j] = SubSeq(t, d + 1, Len(t))[j]
    BY <1>14, <2>2, <2>3
  <2> QED
    BY <1>14, <2>2, <2>4, SeqEqual
<1>16. /\ res' \in Seq(Seq(Nat)) /\ Len(res') = Len(res) + 1 /\ res'[Len(res) + 1] = piece
       /\ \A k \in 1..Len(res) : res'[k] = res[k]
  BY <1>1, <1>3, <1>12
<1> HIDE DEF piece, d
<1>17. \A k \in 1..Len(res') : res'[k] = SubSeq(str, Cut(str, k - 1) + 1, Cut(str, k) - 1)
  <2>1. SUFFICES ASSUME NEW k \in 1..(Len(res) + 1)
                 PROVE  res'[k] = SubSeq(str, Cut(str, k - 1) + 1, Cut(str, k) - 1)
    BY <1>16
  <2>2. CASE k \in 1..Len(res)
    BY <1>4, <1>16, <2>2 DEF CutTo
  <2>3. CASE k = Len(res) + 1
    <3>1. k - 1 = Len(res)
      BY <1>3, <2>3
    <3> QED
      BY <1>5, <1>11, <1>13, <1>16, <2>3, <3>1
  <2> QED
    BY <1>3, <2>2, <2>3
<1>18. CutTo(d)'
  <2>1. d > 0 /\ res' # <<>>
    BY <1>3, <1>8, <1>16
  <2>2. CutAt(str', Len(res'), d)
    BY <1>2, <1>11, <1>16
  <2>3. strs' = SubSeq(WithDelimiter(str'), d + 1, Len(WithDelimiter(str')))
    BY <1>2, <1>15 DEF t
  <2> QED
    BY <1>2, <1>17, <2>1, <2>2, <2>3 DEF CutTo
<1>19. Parsed'
  <2>1. d \in 0..(Len(str') + 1) /\ Len(str') > 1
    BY <1>2, <1>3, <1>8
  <2> QED
    BY <1>2, <1>18, <2>1 DEF RoutingIInv, Parsed, Parsing, Body
<1>20. RoutingTypeOK' /\ Received' /\ Routed'
  BY <1>2, <1>14, <1>16 DEF RoutingIInv, RoutingTypeOK, Received, Routed, Parsing
<1> QED
  BY <1>19, <1>20 DEF RoutingIInv

\* Parse ends: with no separator left, the pieces are all the pieces of the string.
LEMMA ParseEndStep ==
    ASSUME RoutingIInv, ParseEnd
    PROVE  RoutingIInv'
<1> DEFINE n == Len(str)
<1>1. /\ hpc = "split" /\ hpc' \in {"parsed", "trapped"} /\ \A i \in DOMAIN strs : strs[i] # AMP
      /\ UNCHANGED <<msg, frame, beyond, branch, str, strs, res>>
  BY DEF ParseEnd, packVars, parseVars
<1>2. str \in Seq(Nat) /\ res \in Seq(Seq(Nat)) /\ n \in Nat /\ n > 1
  BY <1>1 DEF RoutingIInv, RoutingTypeOK, Parsed
<1>3. PICK c \in 0..(n + 1) : CutTo(c)
  BY <1>1 DEF RoutingIInv, Parsed
<1>4. /\ strs \in Seq(Nat) /\ Len(strs) = n + 1 - c
      /\ \A j \in 1..(n + 1 - c) : strs[j] = WithDelimiter(str)[c + j]
  BY <1>2, <1>3, CutToFacts
<1>5. c = n + 1
  <2>1. SUFFICES ASSUME c < n + 1 PROVE FALSE
    BY <1>2
  <2>2. n + 1 - c \in 1..(n + 1 - c) /\ n + 1 - c \in DOMAIN strs /\ c + (n + 1 - c) = n + 1
    BY <1>2, <1>4, <2>1
  <2>3. strs[n + 1 - c] = AMP
    BY <1>2, <1>4, <2>2, WithDelimiterFacts
  <2> QED
    BY <1>1, <2>2, <2>3
<1>6. Before(str, n + 1) = Len(res) - 1
  BY <1>2, <1>3, <1>5 DEF CutTo, CutAt
<1>7. res = Pieces(str)
  <2>1. Before(str, n + 1) + 1 = Len(res) /\ DOMAIN res = 1..Len(res)
    BY <1>2, <1>6
  <2>2. \A k \in 1..Len(res) : res[k] = SubSeq(str, Cut(str, k - 1) + 1, Cut(str, k) - 1)
    BY <1>3 DEF CutTo
  <2>3. res = [k \in 1..Len(res) |-> res[k]]
    BY <1>2, <2>1
  <2>4. [k \in 1..Len(res) |-> res[k]]
           = [k \in 1..Len(res) |-> SubSeq(str, Cut(str, k - 1) + 1, Cut(str, k) - 1)]
    BY <2>2
  <2> QED
    BY <2>1, <2>3, <2>4, Zenon DEF Pieces
<1>8. Parsed'
  BY <1>1, <1>2, <1>7 DEF RoutingIInv, Parsed, Parsing, Body
<1>9. RoutingTypeOK' /\ Received' /\ Routed'
  BY <1>1 DEF RoutingIInv, RoutingTypeOK, Received, Routed, Parsing
<1> QED
  BY <1>8, <1>9 DEF RoutingIInv

\* The invariant of the handlers: at each of their labels, what has been routed and cut is
\* what the bytes of the frame call for.
THEOREM MessageRoutingInvariant == RoutingSpec => []RoutingIInv
<1>1. RoutingInit => RoutingIInv
  BY DEF RoutingInit, RoutingIInv, RoutingTypeOK, Received, Routed, Parsed, Parsing, NoMsg, Msg
<1>2. RoutingIInv /\ [RoutingNext]_routingVars => RoutingIInv'
  <2>1. SUFFICES ASSUME RoutingIInv, [RoutingNext]_routingVars PROVE RoutingIInv'
    OBVIOUS
  <2>2. CASE UNCHANGED routingVars
    <3>1. UNCHANGED <<hpc, msg, frame, beyond, branch, str, strs, res>>
      BY <2>2 DEF routingVars, packVars, parseVars
    <3>2. RoutingTypeOK'
      BY <2>1, <3>1 DEF RoutingIInv, RoutingTypeOK
    <3>3. Received' /\ Routed'
      BY <2>1, <3>1 DEF RoutingIInv, Received, Routed
    <3>4. Parsed'
      BY <2>1, <3>1 DEF RoutingIInv, Parsed, CutTo, Parsing, Body
    <3> QED
      BY <3>2, <3>3, <3>4 DEF RoutingIInv
  <2>3. CASE Send
    BY <2>1, <2>3, SendStep
  <2>4. CASE Handler
    BY <2>1, <2>4, DispatchMsgStep, OnDispatchLoginMsgStep, OnDispatchChatMsgStep,
       OnDispatchMoveMsgStep, ParseBeginStep, ParseSplitStep, ParseEndStep, OnNetLoginMsgStep,
       ReturnStep DEF Handler
  <2> QED
    BY <2>1, <2>2, <2>3, <2>4 DEF RoutingNext
<1> QED
  BY <1>1, <1>2, PTL DEF RoutingSpec

\* DispatchMsg and the three switches take every message that a constructor has made to the
\* case that is written for it, whatever its text: none throws, none falls into a default.  A
\* SRegisterMsg, which carries the byte of a login, is taken to the case of a login.
THEOREM MessageRoutingRoutedToCase == RoutingSpec => []RoutedToCase
<1>1. RoutingIInv => RoutedToCase
  <2>1. SUFFICES ASSUME RoutingIInv, msg.family \in {"login", "chat", "move"}
                 PROVE  /\ hpc # "dead"
                        /\ hpc \notin {"dispatch", "switch"} => branch = CaseFor(msg)
    BY DEF RoutedToCase
  <2>2. hpc # "idle"
    BY <2>1 DEF RoutingIInv, Routed, NoMsg, Msg
  <2>3. CASE msg.family = "login"
    <3>1. CaseFor(msg) = "login"
      BY <2>1, <2>3 DEF RoutingIInv, Received, CaseFor
    <3> QED
      BY <2>1, <2>2, <2>3, <3>1 DEF RoutingIInv, RoutingTypeOK, Routed, Parsing
  <2>4. CASE msg.family \in {"chat", "move"}
    <3>1. CaseFor(msg) = msg.name
      BY <2>1, <2>4 DEF RoutingIInv, Received, CaseFor, ChatEnum
    <3> QED
      BY <2>1, <2>2, <2>4, <3>1 DEF RoutingIInv, Routed
  <2> QED
    BY <2>1, <2>3, <2>4
<1> QED
  BY <1>1, MessageRoutingInvariant, PTL

\* What Parse leaves in res is what a reader of the string would call its pieces: those
\* between one separator and the next, in order, none lost, none joined.
THEOREM MessageRoutingParseSplits == RoutingSpec => []ParseSplits
<1>1. RoutingIInv => ParseSplits
  BY DEF RoutingIInv, Parsed, ParseSplits
<1> QED
  BY <1>1, MessageRoutingInvariant, PTL

\* Which bytes the account of a login is made of, for texts of any length and any bytes on
\* the heap behind them: those that were sent, and of the heap only for a text that has
\* neither its NUL nor its separator.
THEOREM MessageRoutingAccountOrigin == RoutingSpec => []AccountOrigin
<1>1. RoutingIInv => AccountOrigin
  <2> DEFINE sent == SubSeq(frame, 3, Len(frame))
             own == UpToNul(sent)
             heap == IF own = sent THEN UpToNul(beyond) ELSE <<>>
  <2>1. SUFFICES ASSUME RoutingIInv, hpc = "parsed", Len(frame) >= 2
                 PROVE  /\ str = own \o heap
                        /\ Len(str) > 1 => res[1] = IF \E i \in DOMAIN own : own[i] = AMP
                                                    THEN Pieces(own)[1] ELSE own \o Pieces(heap)[1]
    BY Zenon DEF AccountOrigin
  <2>2. frame \in Seq(Nat) /\ beyond \in Seq(Nat) /\ str = Text(Body)
    BY <2>1 DEF RoutingIInv, RoutingTypeOK, Parsed, Parsing
  <2>3. /\ sent \in Seq(Nat) /\ Len(sent) = Len(frame) - 2
        /\ \A i \in 1..(Len(frame) - 2) : sent[i] = frame[2 + i]
    <3>1. 2 \in 0..Len(frame) /\ sent = SubSeq(frame, 2 + 1, Len(frame))
      BY <2>1, <2>2
    <3> HIDE DEF sent
    <3> QED
      BY <2>2, <3>1, SuffixFacts
  <2> HIDE DEF sent
  <2>4. /\ Body \in Seq(Nat) /\ Len(Body) = Len(frame) + Len(beyond) - 2 /\ Len(Body) > 0
        /\ Body[Len(Body)] = NUL /\ \A i \in 1..Len(Body) : Body[i] = At(i + 2)
    BY <2>1, BodyFacts DEF RoutingIInv
  <2>5. Len(sent) \in Nat /\ Len(sent) <= Len(Body) /\ DOMAIN sent = 1..Len(sent)
    BY <2>2, <2>3, <2>4
  <2>6. \A i \in 1..Len(sent) : Body[i] = sent[i]
    <3>1. SUFFICES ASSUME NEW i \in 1..Len(sent) PROVE Body[i] = sent[i]
      OBVIOUS
    <3>2. i \in 1..Len(Body) /\ i + 2 \in 1..Len(frame) /\ i \in 1..(Len(frame) - 2) /\ 2 + i = i + 2
      <4>1. Len(frame) \in Nat /\ Len(Body) \in Nat
        BY <2>2, <2>4
      <4> QED
        BY <2>3, <2>5, <4>1
    <3>3. At(i + 2) = frame[i + 2]
      BY <2>2, <3>2, ConcatFacts DEF At
    <3> QED
      BY <2>3, <2>4, <3>2, <3>3
  <2>7. Len(Body) \in 1..Len(Body)
    BY <2>4
  <2>8. PICK e \in 1..Len(Body) : /\ Body[e] = NUL /\ \A j \in 1..(e - 1) : Body[j] # NUL
                                  /\ Text(Body) = SubSeq(Body, 1, e - 1)
    BY <2>4, <2>7, TextFacts
  <2>9. PICK g \in 1..Len(beyond) : /\ beyond[g] = NUL /\ \A j \in 1..(g - 1) : beyond[j] # NUL
    <3>1. beyond[Len(beyond)] = NUL /\ Len(beyond) \in 1..Len(beyond)
      BY <2>1, <2>2 DEF RoutingIInv, Received
    <3> QED
      BY <2>2, <3>1, TextFacts
  <2>10. UpToNul(beyond) = SubSeq(beyond, 1, g - 1)
    <3>1. g - 1 \in 0..Len(beyond) /\ beyond[(g - 1) + 1] = NUL
      BY <2>2, <2>9
    <3> QED
      BY <2>2, <2>9, <3>1, UpToNulIs
  <2>11. str = own \o heap /\ own \in Seq(Nat) /\ heap \in Seq(Nat)
    <3>1. CASE \E i \in DOMAIN sent : sent[i] = NUL
      <4>1. PICK f \in 1..Len(sent) : sent[f] = NUL /\ \A j \in 1..(f - 1) : sent[j] # NUL
        BY <2>3, <2>5, <3>1, TextFacts
      <4>2. f - 1 \in 0..Len(sent) /\ f - 1 < Len(sent) /\ sent[(f - 1) + 1] = NUL
        BY <2>5, <4>1
      <4>3. own = SubSeq(sent, 1, f - 1)
        BY <2>3, <4>1, <4>2, UpToNulIs
      <4>4. own \in Seq(Nat) /\ Len(own) = f - 1
        <5>1. SubSeq(sent, 1, f - 1) \in Seq(Nat) /\ Len(SubSeq(sent, 1, f - 1)) = f - 1
          BY <2>3, <4>2, PrefixFacts
        <5> HIDE DEF own
        <5> QED
          BY <4>3, <5>1
      <4> HIDE DEF own
      <4>5. heap = <<>>
        BY <4>2, <4>4
      <4>6. e = f
        <5>1. ~(e < f)
          BY <2>5, <2>6, <2>8, <4>1
        <5>2. ~(f < e)
          BY <2>5, <2>6, <2>8, <4>1
        <5> QED
          BY <5>1, <5>2
      <4>7. SubSeq(Body, 1, e - 1) = SubSeq(sent, 1, e - 1)
        <5>1. e - 1 \in Nat /\ e - 1 <= Len(Body) /\ e - 1 <= Len(sent)
          BY <2>5, <4>6
        <5>2. \A i \in 1..(e - 1) : Body[i] = sent[i]
          BY <2>5, <2>6, <5>1
        <5> QED
          BY <2>3, <2>4, <5>1, <5>2, SamePrefix
      <4> HIDE DEF heap
      <4>8. str = own
        BY <2>2, <2>8, <4>3, <4>6, <4>7
      <4> QED
        BY <4>4, <4>5, <4>8
    <3>2. CASE ~ \E i \in DOMAIN sent : sent[i] = NUL
      <4>1. own = sent
        <5>1. Len(sent) \in 0..Len(sent) /\ \A i \in 1..Len(sent) : sent[i] # NUL
          BY <2>5, <3>2
        <5>2. own = SubSeq(sent, 1, Len(sent))
          BY <2>3, <5>1, UpToNulIs
        <5> QED
          BY <2>3, <5>2, SubSeqFull
      <4>2. heap = SubSeq(beyond, 1, g - 1)
        BY <2>10, <4>1
      <4> HIDE DEF own, heap
      <4>3. g - 1 \in 0..Len(beyond)
        BY <2>2, <2>9
      <4>4. heap \in Seq(Nat) /\ Len(heap) = g - 1 /\ \A i \in 1..(g - 1) : heap[i] = beyond[i]
        BY <2>2, <4>2, <4>3, PrefixFacts
      <4>5. ASSUME NEW i \in 1..Len(beyond)
            PROVE  Len(sent) + i \in 1..Len(Body) /\ Body[Len(sent) + i] = beyond[i]
        <5>1. Len(frame) \in Nat /\ Len(beyond) \in Nat
          BY <2>2
        <5>2. /\ Len(sent) + i \in 1..Len(Body) /\ (Len(sent) + i) + 2 = Len(frame) + i
              /\ Len(frame) + i \in (Len(frame) + 1)..(Len(frame) + Len(beyond))
              /\ (Len(frame) + i) - Len(frame) = i
          BY <2>3, <2>4, <5>1
        <5>3. At(Len(frame) + i) = beyond[i]
          BY <2>2, <5>2, ConcatFacts DEF At
        <5> QED
          BY <2>4, <5>2, <5>3
      <4>6. e = Len(sent) + g
        <5>1. e > Len(sent)
          BY <2>5, <2>6, <2>8, <3>2
        <5>2. ~(e > Len(sent) + g)
          <6>1. SUFFICES ASSUME e > Len(sent) + g PROVE FALSE
            OBVIOUS
          <6>2. Len(sent) + g \in 1..(e - 1)
            BY <2>5, <6>1
          <6>3. Body[Len(sent) + g] = NUL
            BY <2>9, <4>5
          <6> QED
            BY <2>8, <6>2, <6>3
        <5>3. ~(e < Len(sent) + g)
          <6>1. SUFFICES ASSUME e < Len(sent) + g PROVE FALSE
            OBVIOUS
          <6>2. e - Len(sent) \in 1..(g - 1) /\ Len(sent) + (e - Len(sent)) = e
            BY <2>5, <5>1, <6>1
          <6>3. e - Len(sent) \in 1..Len(beyond)
            BY <4>3, <6>2
          <6>4. Body[e] = beyond[e - Len(sent)]
            BY <4>5, <6>2, <6>3
          <6> QED
            BY <2>8, <2>9, <6>2, <6>4
        <5> QED
          BY <2>5, <5>2, <5>3
      <4>7. sent \o heap \in Seq(Nat) /\ Len(sent \o heap) = e - 1
        <5>1. sent \o heap \in Seq(Nat) /\ Len(sent \o heap) = Len(sent) + Len(heap)
          BY <2>3, <4>4, ConcatFacts
        <5>2. Len(sent) + Len(heap) = e - 1
          BY <2>5, <4>4, <4>6
        <5> QED
          BY <5>1, <5>2
      <4>8. ASSUME NEW i \in 1..(e - 1) PROVE Body[i] = (sent \o heap)[i]
        <5>1. CASE i <= Len(sent)
          <6>1. i \in 1..Len(sent)
            BY <2>5, <5>1
          <6>2. (sent \o heap)[i] = sent[i]
            BY <2>3, <4>4, <6>1, ConcatFacts
          <6> QED
            BY <2>6, <6>1, <6>2
        <5>2. CASE i > Len(sent)
          <6>1. /\ i \in (Len(sent) + 1)..(Len(sent) + Len(heap)) /\ i - Len(sent) \in 1..(g - 1)
                /\ i - Len(sent) \in 1..Len(beyond) /\ Len(sent) + (i - Len(sent)) = i
            BY <2>5, <4>3, <4>4, <4>6, <5>2
          <6>2. (sent \o heap)[i] = heap[i - Len(sent)]
            BY <2>3, <4>4, <6>1, ConcatFacts
          <6>3. Body[i] = beyond[i - Len(sent)]
            BY <4>5, <6>1
          <6> QED
            BY <4>4, <6>1, <6>2, <6>3
        <5>3. i <= Len(sent) \/ i > Len(sent)
          BY <2>5
        <5> QED
          BY <5>1, <5>2, <5>3, Zenon
      <4>9. e - 1 \in 0..Len(Body)
        BY <2>4
      <4>10. /\ SubSeq(Body, 1, e - 1) \in Seq(Nat) /\ Len(SubSeq(Body, 1, e - 1)) = e - 1
             /\ \A i \in 1..(e - 1) : SubSeq(Body, 1, e - 1)[i] = Body[i]
        <5> HIDE DEF Body
        <5> QED
          BY <2>4, <4>9, PrefixFacts
      <4>11. SubSeq(Body, 1, e - 1) = sent \o heap
        <5> DEFINE x == SubSeq(Body, 1, e - 1)
                   y == sent \o heap
        <5>1. x \in Seq(Nat) /\ y \in Seq(Nat) /\ Len(x) = e - 1 /\ Len(y) = e - 1
          BY <4>7, <4>10
        <5>2. \A i \in 1..(e - 1) : x[i] = y[i]
          BY <4>8, <4>10
        <5> HIDE DEF x, y
        <5>3. x = y
          BY <5>1, <5>2, SeqEqual
        <5> QED
          BY <5>3 DEF x, y
      <4>12. str = own \o heap
        BY <2>2, <2>8, <4>1, <4>11
      <4> QED
        BY <2>3, <4>1, <4>4, <4>12
    <3> QED
      BY <3>1, <3>2
  <2> HIDE DEF own, heap
  <2>12. Len(str) > 1 => res = Pieces(own \o heap)
    <3>1. Len(str) > 1 => ~(Len(str) <= 1)
      <4>1. Len(str) \in Nat
        BY <2>1 DEF RoutingIInv, RoutingTypeOK
      <4> QED
        BY <4>1
    <3>2. Len(str) > 1 => res = Pieces(str)
      BY <2>1, <3>1, Zenon DEF RoutingIInv, Parsed
    <3> QED
      BY <2>11, <3>2
  <2>13. Pieces(own \o heap)[1] = IF \E i \in DOMAIN own : own[i] = AMP
                                  THEN Pieces(own)[1] ELSE own \o Pieces(heap)[1]
    BY <2>11, FirstPieceOfTwo
  <2>14. Len(str) > 1 => res[1] = Pieces(own \o heap)[1]
    BY <2>12
  <2> QED
    BY <2>11, <2>13, <2>14, Zenon
<1> QED
  BY <1>1, MessageRoutingInvariant, PTL
=============================================================================
