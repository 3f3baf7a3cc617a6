-------------------------- MODULE DispatcherProofs --------------------------
(***************************************************************************)
(* Proofs about Dispatcher for any number of IO threads, connections and   *)
(* packets.                                                                *)
(*                                                                         *)
(* NothingLost is not inductive: a store puts back the queue the thread    *)
(* has loaded, so what was loaded must still be the queue (Loaded), which  *)
(* holds because whoever is between a load and a store has the mutex       *)
(* (Mutex).                                                                *)
(*                                                                         *)
(* ConnectionOrder needs that a packet on its way to the queue is the      *)
(* newest of its connection (Newest), and up to which packet of a          *)
(* connection the pushes have come (Reached).                              *)
(***************************************************************************)
EXTENDS Dispatcher, TLAPS

-----------------------------------------------------------------------------
(* The inductive invariant *)

\* A thread that works on the queue has the mutex.
Mutex ==
    /\ \A t \in IOThreads : iopc[t] \in {"load", "store", "unlock"} => m_msgQueueMtx = t
    /\ lpc \in {"front", "pop", "unlock"} => m_msgQueueMtx = Logic

\* What has been loaded is still there at the store.
Loaded ==
    /\ \A t \in IOThreads : iopc[t] = "store" => ioQueue[t] = m_MsgQueue
    /\ lpc = "pop" => lQueue = m_MsgQueue /\ pack = m_MsgQueue[1]

IInv == TypeOK /\ Mutex /\ Loaded /\ PopFindsPack /\ NothingLost

-----------------------------------------------------------------------------
\* The facts about sequences that the queue needs.
LEMMA AppendFacts ==
    ASSUME NEW S, NEW s \in Seq(S), NEW e \in S
    PROVE  /\ Append(s, e) \in Seq(S)
           /\ Len(Append(s, e)) = Len(s) + 1
           /\ \A i \in 1..Len(s) : Append(s, e)[i] = s[i]
           /\ Append(s, e)[Len(s) + 1] = e
           /\ Append(s, e) # <<>>
  OBVIOUS

LEMMA TailFacts ==
    ASSUME NEW S, NEW s \in Seq(S), s # <<>>
    PROVE  /\ Tail(s) \in Seq(S)
           /\ Len(s) \in Nat /\ Len(s) > 0
           /\ Len(Tail(s)) = Len(s) - 1
           /\ \A i \in 1..Len(Tail(s)) : Tail(s)[i] = s[i + 1]
           /\ Head(s) = s[1]
           /\ s[1] \in S
  OBVIOUS

\* Steps that touch neither the queue nor the packets of the histories.
LEMMA QueueAlone ==
    ASSUME IInv, m_MsgQueue' = m_MsgQueue, pushed' = pushed, handled' = handled,
           pack' = pack, InHand' = InHand
    PROVE  NothingLost'
  BY DEF IInv, NothingLost

\* An IO thread that builds a packet, takes the mutex, loads the queue or gives the
\* mutex back.
LEMMA NewPackStep ==
    ASSUME IInv, NEW t \in IOThreads, NEW c \in Conns, NEW type \in Types, NewPack(t, c, type)
    PROVE  IInv'
<1> USE DispatcherAssumption
<1> DEFINE p == [conn |-> c, n |-> made[c] + 1, type |-> type]
<1>1. p \in Packet /\ made' \in [Conns -> 0..MaxPacks]
  BY DEF NewPack, IInv, TypeOK, Packet
<1>2. ioPack' = [ioPack EXCEPT ![t] = p]
  BY DEF NewPack
<1>3. iopc' = [iopc EXCEPT ![t] = "lock"] /\ iopc[t] = "idle"
  BY DEF NewPack
<1>4. /\ m_MsgQueue' = m_MsgQueue /\ m_msgQueueMtx' = m_msgQueueMtx /\ ioQueue' = ioQueue
      /\ lpc' = lpc /\ pack' = pack /\ lQueue' = lQueue /\ clock' = clock
      /\ handled' = handled /\ pushed' = pushed
  BY DEF NewPack, logicVars
<1> HIDE DEF p
<1>5. TypeOK'
  BY <1>1, <1>2, <1>3, <1>4 DEF IInv, TypeOK, IOLabels
<1>6. Mutex' /\ Loaded' /\ PopFindsPack'
  BY <1>3, <1>4 DEF IInv, TypeOK, Mutex, Loaded, PopFindsPack
<1>7. NothingLost'
  BY <1>4, QueueAlone DEF InHand
<1> QED
  BY <1>5, <1>6, <1>7 DEF IInv

LEMMA PushLockStep ==
    ASSUME IInv, NEW t \in IOThreads, PushLock(t)
    PROVE  IInv'
<1> USE DispatcherAssumption
<1>1. /\ m_MsgQueue' = m_MsgQueue /\ ioQueue' = ioQueue /\ made' = made /\ ioPack' = ioPack
      /\ lpc' = lpc /\ pack' = pack /\ lQueue' = lQueue /\ clock' = clock
      /\ handled' = handled /\ pushed' = pushed
  BY DEF PushLock, logicVars
<1>2. iopc' = [iopc EXCEPT ![t] = "load"] /\ iopc[t] = "lock"
  BY DEF PushLock
<1>3. m_msgQueueMtx' = t /\ m_msgQueueMtx = None
  BY DEF PushLock, MayPush
<1>4. TypeOK'
  BY <1>1, <1>2, <1>3 DEF IInv, TypeOK, IOLabels
<1>5. Mutex' /\ Loaded' /\ PopFindsPack'
  BY <1>1, <1>2, <1>3 DEF IInv, TypeOK, Mutex, Loaded, PopFindsPack
<1>6. NothingLost'
  BY <1>1, QueueAlone DEF InHand
<1> QED
  BY <1>4, <1>5, <1>6 DEF IInv

LEMMA PushLoadStep ==
    ASSUME IInv, NEW t \in IOThreads, PushLoad(t)
    PROVE  IInv'
<1> USE DispatcherAssumption
<1>1. /\ m_MsgQueue' = m_MsgQueue /\ m_msgQueueMtx' = m_msgQueueMtx /\ made' = made
      /\ ioPack' = ioPack /\ lpc' = lpc /\ pack' = pack /\ lQueue' = lQueue
      /\ clock' = clock /\ handled' = handled /\ pushed' = pushed
  BY DEF PushLoad, logicVars
<1>2. iopc' = [iopc EXCEPT ![t] = "store"] /\ iopc[t] = "load"
  BY DEF PushLoad
<1>3. ioQueue' = [ioQueue EXCEPT ![t] = m_MsgQueue]
  BY DEF PushLoad
<1>4. TypeOK'
  BY <1>1, <1>2, <1>3 DEF IInv, TypeOK, IOLabels
<1>5. Mutex' /\ Loaded' /\ PopFindsPack'
  BY <1>1, <1>2, <1>3 DEF IInv, TypeOK, Mutex, Loaded, PopFindsPack
<1>6. NothingLost'
  BY <1>1, QueueAlone DEF InHand
<1> QED
  BY <1>4, <1>5, <1>6 DEF IInv

LEMMA PushUnlockStep ==
    ASSUME IInv, NEW t \in IOThreads, PushUnlock(t)
    PROVE  IInv'
<1> USE DispatcherAssumption
<1>1. /\ m_MsgQueue' = m_MsgQueue /\ ioQueue' = ioQueue /\ made' = made /\ ioPack' = ioPack
      /\ lpc' = lpc /\ pack' = pack /\ lQueue' = lQueue /\ clock' = clock
      /\ handled' = handled /\ pushed' = pushed
  BY DEF PushUnlock, logicVars
<1>2. iopc' = [iopc EXCEPT ![t] = "idle"] /\ iopc[t] = "unlock"
  BY DEF PushUnlock
<1>3. m_msgQueueMtx' = None /\ m_msgQueueMtx = t
  BY <1>2 DEF PushUnlock, IInv, Mutex
<1>4. TypeOK'
  BY <1>1, <1>2, <1>3 DEF IInv, TypeOK, IOLabels
<1>5. Mutex' /\ Loaded' /\ PopFindsPack'
  BY <1>1, <1>2, <1>3 DEF IInv, TypeOK, Mutex, Loaded, PopFindsPack
<1>6. NothingLost'
  BY <1>1, QueueAlone DEF InHand
<1> QED
  BY <1>4, <1>5, <1>6 DEF IInv

\* The push itself: the loaded queue is the queue, so exactly one packet is added.
LEMMA PushStoreStep ==
    ASSUME IInv, NEW t \in IOThreads, PushStore(t)
    PROVE  IInv'
<1> USE DispatcherAssumption
<1>1. /\ m_msgQueueMtx' = m_msgQueueMtx /\ made' = made /\ ioPack' = ioPack
      /\ ioQueue' = ioQueue /\ lpc' = lpc /\ pack' = pack /\ lQueue' = lQueue
      /\ clock' = clock /\ handled' = handled
  BY DEF PushStore, logicVars
<1>2. iopc' = [iopc EXCEPT ![t] = "unlock"] /\ iopc[t] = "store" /\ m_msgQueueMtx = t
  BY DEF PushStore, IInv, Mutex
<1>3. /\ ioPack[t] \in Packet /\ m_MsgQueue \in Seq(Packet) /\ pushed \in Seq(Packet)
      /\ handled \in Seq(Packet)
  BY <1>2 DEF IInv, TypeOK
<1>4. m_MsgQueue' = Append(m_MsgQueue, ioPack[t]) /\ pushed' = Append(pushed, ioPack[t])
  BY <1>2 DEF PushStore, IInv, Loaded
<1>5. /\ m_MsgQueue' \in Seq(Packet) /\ Len(m_MsgQueue') = Len(m_MsgQueue) + 1
      /\ \A i \in 1..Len(m_MsgQueue) : m_MsgQueue'[i] = m_MsgQueue[i]
      /\ m_MsgQueue'[Len(m_MsgQueue) + 1] = ioPack[t]
      /\ m_MsgQueue' # <<>>
  BY <1>3, <1>4, AppendFacts
<1>6. /\ pushed' \in Seq(Packet) /\ Len(pushed') = Len(pushed) + 1
      /\ \A i \in 1..Len(pushed) : pushed'[i] = pushed[i]
      /\ pushed'[Len(pushed) + 1] = ioPack[t]
  BY <1>3, <1>4, AppendFacts
<1>7. TypeOK'
  BY <1>1, <1>2, <1>5, <1>6 DEF IInv, TypeOK, IOLabels
<1>8. Mutex' /\ Loaded' /\ PopFindsPack'
  BY <1>1, <1>2, <1>5 DEF IInv, TypeOK, Mutex, Loaded, PopFindsPack
<1>9. NothingLost'
  <2> DEFINE out == Len(handled) + InHand
  <2>0. InHand \in {0, 1} /\ InHand' = InHand
    BY <1>1 DEF InHand
  <2>7. Len(m_MsgQueue) \in Nat /\ Len(pushed) \in Nat /\ Len(handled) \in Nat
    BY <1>3
  <2>1. out \in Nat /\ out' = out /\ Len(handled) <= out
    BY <1>1, <2>0, <2>7
  <2>2. Len(pushed) = out + Len(m_MsgQueue)
    BY DEF IInv, NothingLost
  <2>3. Len(pushed') = out' + Len(m_MsgQueue')
    BY <1>5, <1>6, <2>7, <2>1, <2>2
  <2>4. \A i \in 1..Len(handled') : handled'[i] = pushed'[i]
    BY <1>1, <1>6, <2>7, <2>1, <2>2 DEF IInv, NothingLost
  <2>5. InHand' = 1 => pack' = pushed'[out']
    <3>1. InHand = 1 => out \in 1..Len(pushed)
      BY <2>7, <2>2
    <3> QED
      BY <1>1, <1>6, <2>0, <2>1, <3>1 DEF IInv, NothingLost
  <2>6. ASSUME NEW i \in 1..Len(m_MsgQueue') PROVE m_MsgQueue'[i] = pushed'[out + i]
    <3>1. CASE i \in 1..Len(m_MsgQueue)
      <4>1. out + i \in 1..Len(pushed)
        BY <2>7, <2>1, <2>2, <3>1
      <4>2. m_MsgQueue[i] = pushed[out + i]
        BY <3>1 DEF IInv, NothingLost
      <4> QED
        BY <1>5, <1>6, <3>1, <4>1, <4>2
    <3>2. CASE i = Len(m_MsgQueue) + 1
      BY <1>5, <1>6, <2>7, <2>1, <2>2, <3>2
    <3> QED
      BY <1>5, <2>7, <3>1, <3>2
  <2> QED
    BY <2>0, <2>1, <2>3, <2>4, <2>5, <2>6 DEF NothingLost
<1> QED
  BY <1>7, <1>8, <1>9 DEF IInv

\* The logic thread between the frames, at its clock tests and at empty().
QuietStep ==
    \/ FrameInTime \/ FrameLate \/ BudgetLeft \/ BudgetSpent
    \/ GetPackEmpty \/ GetPackTry \/ Run \/ Sleep \/ Tick

LEMMA QuietSteps ==
    ASSUME IInv, QuietStep
    PROVE  IInv'
<1>1. /\ m_MsgQueue' = m_MsgQueue /\ m_msgQueueMtx' = m_msgQueueMtx /\ made' = made
      /\ iopc' = iopc /\ ioPack' = ioPack /\ ioQueue' = ioQueue
      /\ pack' = pack /\ lQueue' = lQueue /\ handled' = handled /\ pushed' = pushed
  BY DEF QuietStep, FrameInTime, FrameLate, BudgetLeft, BudgetSpent, GetPackEmpty,
         GetPackTry, Run, Sleep, Tick, ioVars
<1>2. /\ lpc' \in LogicLabels /\ clock' \in {"frame", "late", "over"}
      /\ \/ lpc' = lpc
         \/ /\ lpc \notin {"lock", "front", "pop", "unlock", "handle", "dead"}
            /\ lpc' \notin {"front", "pop", "unlock", "handle", "dead"}
            /\ lpc' = "lock" => m_MsgQueue # <<>>
  BY DEF QuietStep, FrameInTime, FrameLate, BudgetLeft, BudgetSpent, GetPackEmpty,
         GetPackTry, SeesPack, Run, Sleep, Tick, IInv, TypeOK, LogicLabels
<1>3. TypeOK'
  BY <1>1, <1>2 DEF IInv, TypeOK
<1>4. Mutex' /\ Loaded' /\ PopFindsPack'
  BY <1>1, <1>2 DEF IInv, Mutex, Loaded, PopFindsPack
<1>5. NothingLost'
  BY <1>1, <1>2, QueueAlone DEF InHand
<1> QED
  BY <1>3, <1>4, <1>5 DEF IInv

LEMMA GetPackLockStep ==
    ASSUME IInv, GetPackLock
    PROVE  IInv'
<1> USE DispatcherAssumption
<1>1. /\ m_MsgQueue' = m_MsgQueue /\ made' = made /\ iopc' = iopc /\ ioPack' = ioPack
      /\ ioQueue' = ioQueue /\ pack' = pack /\ lQueue' = lQueue /\ clock' = clock
      /\ handled' = handled /\ pushed' = pushed
      /\ lpc = "lock" /\ lpc' = "front" /\ m_msgQueueMtx = None /\ m_msgQueueMtx' = Logic
  BY DEF GetPackLock, ioVars
<1>2. TypeOK'
  BY <1>1 DEF IInv, TypeOK, LogicLabels
<1>3. Mutex' /\ Loaded' /\ PopFindsPack'
  BY <1>1 DEF IInv, TypeOK, Mutex, Loaded, PopFindsPack
<1>4. NothingLost'
  BY <1>1, QueueAlone DEF InHand
<1> QED
  BY <1>2, <1>3, <1>4 DEF IInv

LEMMA GetPackFrontStep ==
    ASSUME IInv, GetPackFront
    PROVE  IInv'
<1> USE DispatcherAssumption
<1>1. /\ m_MsgQueue' = m_MsgQueue /\ m_msgQueueMtx' = m_msgQueueMtx /\ made' = made
      /\ iopc' = iopc /\ ioPack' = ioPack /\ ioQueue' = ioQueue /\ clock' = clock
      /\ handled' = handled /\ pushed' = pushed
      /\ lpc = "front" /\ lpc' = "pop" /\ lQueue' = m_MsgQueue
  BY DEF GetPackFront, ioVars
<1>2. m_MsgQueue # <<>> /\ m_MsgQueue \in Seq(Packet)
  BY <1>1 DEF IInv, PopFindsPack, TypeOK
<1>3. pack' = m_MsgQueue[1] /\ pack' \in Packet
  BY <1>2, TailFacts DEF GetPackFront, Front
<1>4. TypeOK'
  BY <1>1, <1>2, <1>3 DEF IInv, TypeOK, LogicLabels
<1>5. Mutex' /\ Loaded' /\ PopFindsPack'
  BY <1>1, <1>3 DEF IInv, TypeOK, Mutex, Loaded, PopFindsPack
<1>6. InHand = 0 /\ InHand' = 0
  BY <1>1 DEF InHand
<1>7. NothingLost'
  BY <1>1, <1>6 DEF IInv, NothingLost
<1> QED
  BY <1>4, <1>5, <1>7 DEF IInv

\* The pop itself: the packet that leaves the queue is the one in hand.
LEMMA GetPackPopStep ==
    ASSUME IInv, GetPackPop
    PROVE  IInv'
<1> USE DispatcherAssumption
<1>1. /\ m_msgQueueMtx' = m_msgQueueMtx /\ made' = made
      /\ iopc' = iopc /\ ioPack' = ioPack /\ ioQueue' = ioQueue /\ clock' = clock
      /\ handled' = handled /\ pushed' = pushed /\ pack' = pack /\ lQueue' = lQueue
      /\ lpc = "pop" /\ lpc' = "unlock" /\ m_msgQueueMtx = Logic
  BY DEF GetPackPop, ioVars, IInv, Mutex
<1>2. /\ m_MsgQueue # <<>> /\ m_MsgQueue \in Seq(Packet)
      /\ pushed \in Seq(Packet) /\ handled \in Seq(Packet)
      /\ pack = m_MsgQueue[1] /\ m_MsgQueue' = Tail(m_MsgQueue)
  BY <1>1 DEF GetPackPop, IInv, PopFindsPack, TypeOK, Loaded
<1>3. /\ m_MsgQueue' \in Seq(Packet)
      /\ Len(m_MsgQueue) \in Nat /\ Len(m_MsgQueue) > 0
      /\ Len(m_MsgQueue') = Len(m_MsgQueue) - 1
      /\ \A i \in 1..Len(m_MsgQueue') : m_MsgQueue'[i] = m_MsgQueue[i + 1]
  BY <1>2, TailFacts
<1>4. TypeOK'
  BY <1>1, <1>3 DEF IInv, TypeOK, LogicLabels
<1>5. Mutex' /\ Loaded' /\ PopFindsPack'
  <2>1. \A t \in IOThreads : iopc[t] \notin {"load", "store", "unlock"}
    BY <1>1 DEF IInv, Mutex
  <2> QED
    BY <1>1, <2>1 DEF IInv, TypeOK, Mutex, Loaded, PopFindsPack
<1>6. InHand = 0 /\ InHand' = 1
  BY <1>1 DEF InHand
<1>7. NothingLost'
  <2>1. Len(handled) \in Nat /\ Len(pushed) \in Nat
    BY <1>2
  <2>2. /\ Len(pushed) = Len(handled) + Len(m_MsgQueue)
        /\ \A i \in 1..Len(handled) : handled[i] = pushed[i]
        /\ \A i \in 1..Len(m_MsgQueue) : m_MsgQueue[i] = pushed[Len(handled) + i]
    BY <1>6, <2>1 DEF IInv, NothingLost
  <2>3. pack = pushed[Len(handled) + 1]
    BY <1>2, <1>3, <2>2
  <2>4. ASSUME NEW i \in 1..Len(m_MsgQueue')
        PROVE  m_MsgQueue'[i] = pushed[Len(handled) + 1 + i]
    <3>1. i + 1 \in 1..Len(m_MsgQueue) /\ Len(handled) + (i + 1) = Len(handled) + 1 + i
      BY <1>3, <2>1
    <3> QED
      BY <1>3, <2>2, <2>4, <3>1
  <2>5. Len(pushed) = Len(handled) + 1 + Len(m_MsgQueue')
    BY <1>3, <2>1, <2>2
  <2> QED
    BY <1>1, <1>6, <2>2, <2>3, <2>4, <2>5 DEF NothingLost
<1> QED
  BY <1>4, <1>5, <1>7 DEF IInv

LEMMA GetPackUnlockStep ==
    ASSUME IInv, GetPackUnlock
    PROVE  IInv'
<1> USE DispatcherAssumption
<1>1. /\ m_MsgQueue' = m_MsgQueue /\ made' = made /\ iopc' = iopc /\ ioPack' = ioPack
      /\ ioQueue' = ioQueue /\ pack' = pack /\ lQueue' = lQueue /\ clock' = clock
      /\ handled' = handled /\ pushed' = pushed
      /\ lpc = "unlock" /\ lpc' = "handle" /\ m_msgQueueMtx = Logic /\ m_msgQueueMtx' = None
  BY DEF GetPackUnlock, ioVars, IInv, Mutex
<1>2. TypeOK'
  BY <1>1 DEF IInv, TypeOK, LogicLabels
<1>3. Mutex' /\ Loaded' /\ PopFindsPack'
  BY <1>1 DEF IInv, TypeOK, Mutex, Loaded, PopFindsPack
<1>4. NothingLost'
  BY <1>1, QueueAlone DEF InHand
<1> QED
  BY <1>2, <1>3, <1>4 DEF IInv

LEMMA HandleBoundStep ==
    ASSUME IInv, HandleBound
    PROVE  IInv'
<1>1. /\ m_MsgQueue' = m_MsgQueue /\ m_msgQueueMtx' = m_msgQueueMtx /\ made' = made
      /\ iopc' = iopc /\ ioPack' = ioPack /\ ioQueue' = ioQueue /\ lQueue' = lQueue
      /\ clock' = clock /\ pushed' = pushed
      /\ lpc = "handle" /\ lpc' = "budget" /\ handled' = Append(handled, pack) /\ pack' = None
  BY DEF HandleBound, ioVars, Deleted
<1>2. /\ pack \in Packet /\ handled \in Seq(Packet) /\ m_MsgQueue \in Seq(Packet)
      /\ pushed \in Seq(Packet)
  BY <1>1 DEF IInv, TypeOK
<1>3. /\ handled' \in Seq(Packet) /\ Len(handled') = Len(handled) + 1
      /\ \A i \in 1..Len(handled) : handled'[i] = handled[i]
      /\ handled'[Len(handled) + 1] = pack
  BY <1>1, <1>2, AppendFacts
<1>4. TypeOK'
  BY <1>1, <1>3 DEF IInv, TypeOK, LogicLabels
<1>5. Mutex' /\ Loaded' /\ PopFindsPack'
  BY <1>1 DEF IInv, TypeOK, Mutex, Loaded, PopFindsPack
<1>6. InHand = 1 /\ InHand' = 0
  BY <1>1 DEF InHand
<1>7. NothingLost'
  <2>1. Len(handled) \in Nat /\ Len(m_MsgQueue) \in Nat
    BY <1>2
  <2>2. /\ Len(pushed) = Len(handled) + 1 + Len(m_MsgQueue)
        /\ \A i \in 1..Len(handled) : handled[i] = pushed[i]
        /\ pack = pushed[Len(handled) + 1]
        /\ \A i \in 1..Len(m_MsgQueue) : m_MsgQueue[i] = pushed[Len(handled) + 1 + i]
    BY <1>6 DEF IInv, NothingLost
  <2>3. ASSUME NEW i \in 1..Len(handled') PROVE handled'[i] = pushed[i]
    <3>1. CASE i \in 1..Len(handled)
      BY <1>3, <2>2, <3>1
    <3>2. CASE i = Len(handled) + 1
      BY <1>3, <2>2, <3>2
    <3> QED
      BY <1>3, <2>1, <3>1, <3>2
  <2>4. Len(handled') + InHand' = Len(handled) + 1
    BY <1>3, <1>6, <2>1
  <2> QED
    BY <1>1, <1>6, <2>2, <2>3, <2>4 DEF NothingLost
<1> QED
  BY <1>4, <1>5, <1>7 DEF IInv

LEMMA HandleUnboundStep ==
    ASSUME IInv, HandleUnbound
    PROVE  IInv'
<1>1. /\ m_MsgQueue' = m_MsgQueue /\ m_msgQueueMtx' = m_msgQueueMtx /\ made' = made
      /\ iopc' = iopc /\ ioPack' = ioPack /\ ioQueue' = ioQueue /\ lQueue' = lQueue
      /\ clock' = clock /\ pushed' = pushed /\ handled' = handled /\ pack' = pack
      /\ lpc = "handle" /\ lpc' = "dead"
  BY DEF HandleUnbound, ioVars
<1>2. TypeOK'
  BY <1>1 DEF IInv, TypeOK, LogicLabels
<1>3. Mutex' /\ Loaded' /\ PopFindsPack'
  BY <1>1 DEF IInv, TypeOK, Mutex, Loaded, PopFindsPack
<1>4. NothingLost'
  BY <1>1, QueueAlone DEF InHand
<1> QED
  BY <1>2, <1>3, <1>4 DEF IInv

-----------------------------------------------------------------------------
LEMMA Initial == Init => IInv
  BY DispatcherAssumption
     DEF Init, IInv, TypeOK, Mutex, Loaded, PopFindsPack, NothingLost, InHand, IOLabels, LogicLabels

LEMMA Inductive == IInv /\ [Next]_vars => IInv'
<1> SUFFICES ASSUME IInv, [Next]_vars PROVE IInv'
  OBVIOUS
<1>1. ASSUME NEW t \in IOThreads, NEW c \in Conns, NEW type \in Types, NewPack(t, c, type)
      PROVE  IInv'
  BY <1>1, NewPackStep
<1>2. ASSUME NEW t \in IOThreads, PushPack(t) PROVE IInv'
  BY <1>2, PushLockStep, PushLoadStep, PushStoreStep, PushUnlockStep DEF PushPack
<1>3. CASE ServerLoop \/ Tick
  BY <1>3, QuietSteps, GetPackLockStep, GetPackFrontStep, GetPackPopStep, GetPackUnlockStep,
     HandleBoundStep, HandleUnboundStep DEF ServerLoop, DispatchMsg, QuietStep
<1>4. CASE UNCHANGED vars
  BY <1>4 DEF vars, ioVars, logicVars, IInv, TypeOK, Mutex, Loaded, PopFindsPack,
              NothingLost, InHand
<1> QED
  BY <1>1, <1>2, <1>3, <1>4 DEF Next

LEMMA Invariance == Spec => []IInv
  BY Initial, Inductive, PTL DEF Spec

-----------------------------------------------------------------------------
(* The order of a connection's packets *)

\* The codec has made a packet of connection c that is not in the queue yet: only the
\* IO thread that owns c can have it.
Pending(c) == iopc[Home[c]] \in {"lock", "load", "store"} /\ ioPack[Home[c]].conn = c

\* The number of the packet of c that was pushed last.
Top(c) == IF Pending(c) THEN made[c] - 1 ELSE made[c]

\* A packet that waits for its push is the newest one of its connection.
Newest ==
    \A t \in IOThreads : iopc[t] \in {"lock", "load", "store"} =>
        Home[ioPack[t].conn] = t /\ ioPack[t].n = made[ioPack[t].conn]

\* The packets of a connection have been pushed up to its last one.
Reached ==
    \A c \in Conns :
        /\ \A i \in 1..Len(pushed) : pushed[i].conn = c => pushed[i].n <= Top(c)
        /\ Top(c) > 0 => \E i \in 1..Len(pushed) : pushed[i].conn = c /\ pushed[i].n = Top(c)

\* ConnectionOrder, of the pushes.
PushOrder ==
    \A j \in 1..Len(pushed) :
        /\ \A i \in 1..(j - 1) : pushed[i].conn = pushed[j].conn => pushed[i].n < pushed[j].n
        /\ pushed[j].n > 1 => \E i \in 1..(j - 1) : /\ pushed[i].conn = pushed[j].conn
                                                   /\ pushed[i].n = pushed[j].n - 1

Order == Newest /\ Reached /\ PushOrder

\* Only a new packet and a push change what Order speaks of.
LEMMA OrderKept ==
    ASSUME Order, UNCHANGED <<made, ioPack, pushed>>,
           \A t \in IOThreads : iopc'[t] \in {"lock", "load", "store"}
                                   <=> iopc[t] \in {"lock", "load", "store"}
    PROVE  Order'
<1>1. Newest'
  BY DEF Order, Newest
<1>2. ASSUME NEW c \in Conns PROVE Top(c)' = Top(c)
  <2>1. Home[c] \in IOThreads
    BY DispatcherAssumption
  <2>2. Pending(c)' <=> Pending(c)
    BY <2>1 DEF Pending
  <2> QED
    BY <2>2 DEF Top
<1>3. Reached'
  BY <1>2 DEF Order, Reached
<1>4. PushOrder'
  BY DEF Order, PushOrder
<1> QED
  BY <1>1, <1>3, <1>4 DEF Order

\* A new packet of c is its newest, and c has no other: its IO thread was idle.
LEMMA NewPackOrder ==
    ASSUME IInv, Order, NEW t \in IOThreads, NEW c \in Conns, NEW type \in Types, NewPack(t, c, type)
    PROVE  Order'
<1> USE DispatcherAssumption
<1> DEFINE p == [conn |-> c, n |-> made[c] + 1, type |-> type]
<1>1. /\ iopc[t] = "idle" /\ Home[c] = t /\ pushed' = pushed /\ made' = [made EXCEPT ![c] = made[c] + 1]
      /\ ioPack' = [ioPack EXCEPT ![t] = p] /\ iopc' = [iopc EXCEPT ![t] = "lock"]
  BY DEF NewPack, Owns
<1>2. /\ made \in [Conns -> 0..MaxPacks] /\ iopc \in [IOThreads -> IOLabels]
      /\ ioPack \in [IOThreads -> Packet \cup {None}]
      /\ \A u \in IOThreads : iopc[u] # "idle" => ioPack[u] \in Packet
  BY DEF IInv, TypeOK
<1>3. p.conn = c /\ p.n = made[c] + 1
  OBVIOUS
<1> HIDE DEF p
<1>4. Newest'
  <2> SUFFICES ASSUME NEW u \in IOThreads, iopc'[u] \in {"lock", "load", "store"}
               PROVE  Home[ioPack'[u].conn] = u /\ ioPack'[u].n = made'[ioPack'[u].conn]
    BY DEF Newest
  <2>1. CASE u = t
    <3>1. ioPack'[u] = p /\ made'[c] = made[c] + 1
      BY <1>1, <1>2, <2>1
    <3> QED
      BY <1>1, <1>3, <2>1, <3>1
  <2>2. CASE u # t
    <3>1. ioPack'[u] = ioPack[u] /\ iopc'[u] = iopc[u] /\ ioPack[u] \in Packet
      BY <1>1, <1>2, <2>2
    <3>2. Home[ioPack[u].conn] = u /\ ioPack[u].n = made[ioPack[u].conn] /\ ioPack[u].conn \in Conns
      BY <3>1 DEF Order, Newest, Packet
    <3>3. made'[ioPack[u].conn] = made[ioPack[u].conn]
      BY <1>1, <1>2, <2>2, <3>2
    <3> QED
      BY <3>1, <3>2, <3>3
  <2> QED
    BY <2>1, <2>2
<1>5. ASSUME NEW d \in Conns PROVE Top(d)' = Top(d)
  <2>1. CASE d = c
    <3>1. ~Pending(c)
      BY <1>1 DEF Pending
    <3>2. Pending(c)'
      BY <1>1, <1>2, <1>3 DEF Pending
    <3>3. made'[c] = made[c] + 1 /\ made[c] \in Nat
      BY <1>1, <1>2
    <3> QED
      BY <2>1, <3>1, <3>2, <3>3 DEF Top
  <2>2. CASE d # c
    <3>1. made'[d] = made[d]
      BY <1>1, <1>2, <2>2
    <3>2. Pending(d)' <=> Pending(d)
      <4>1. CASE Home[d] = t
        BY <1>1, <1>2, <1>3, <2>2, <4>1 DEF Pending
      <4>2. CASE Home[d] # t
        BY <1>1, <1>2, <4>2 DEF Pending
      <4> QED
        BY <4>1, <4>2
    <3> QED
      BY <3>1, <3>2 DEF Top
  <2> QED
    BY <2>1, <2>2
<1>6. Reached'
  BY <1>1, <1>5 DEF Order, Reached
<1>7. PushOrder'
  BY <1>1 DEF Order, PushOrder
<1> QED
  BY <1>4, <1>6, <1>7 DEF Order

\* The packet that is pushed is the next one of its connection.
LEMMA PushStoreOrder ==
    ASSUME IInv, Order, NEW t \in IOThreads, PushStore(t)
    PROVE  Order'
<1> USE DispatcherAssumption
<1> DEFINE p == ioPack[t]
           c == p.conn
           l == Len(pushed)
<1>1. /\ iopc[t] = "store" /\ iopc' = [iopc EXCEPT ![t] = "unlock"]
      /\ made' = made /\ ioPack' = ioPack /\ pushed' = Append(pushed, p)
  BY DEF PushStore
<1>2. /\ made \in [Conns -> 0..MaxPacks] /\ iopc \in [IOThreads -> IOLabels]
      /\ pushed \in Seq(Packet) /\ p \in Packet /\ c \in Conns /\ p.n \in Nat /\ p.n > 0
  <2>1. /\ made \in [Conns -> 0..MaxPacks] /\ iopc \in [IOThreads -> IOLabels]
        /\ pushed \in Seq(Packet) /\ p \in Packet
    BY <1>1 DEF IInv, TypeOK
  <2> QED
    BY <2>1 DEF Packet
<1>3. Home[c] = t /\ p.n = made[c]
  BY <1>1 DEF Order, Newest
<1>4. Pending(c) /\ Top(c) = p.n - 1
  BY <1>1, <1>3 DEF Pending, Top
<1>5. /\ l \in Nat /\ Len(pushed') = l + 1 /\ pushed'[l + 1] = p
      /\ \A i \in 1..l : pushed'[i] = pushed[i]
  BY <1>1, <1>2, AppendFacts
<1>6. ASSUME NEW i \in 1..l PROVE pushed[i].n \in Nat
  <2>1. pushed[i] \in Packet
    BY <1>2
  <2> QED
    BY <2>1 DEF Packet
<1>7. Newest'
  BY <1>1, <1>2 DEF Order, Newest
<1>8. ASSUME NEW d \in Conns, d = c PROVE Top(d)' = p.n
  BY <1>1, <1>2, <1>3, <1>8 DEF Pending, Top
<1>9. ASSUME NEW d \in Conns, d # c PROVE Top(d)' = Top(d)
  <2>1. Pending(d)' <=> Pending(d)
    <3>1. CASE Home[d] = t
      BY <1>1, <1>2, <1>9, <3>1 DEF Pending
    <3>2. CASE Home[d] # t
      BY <1>1, <1>2, <3>2 DEF Pending
    <3> QED
      BY <3>1, <3>2
  <2> QED
    BY <1>1, <2>1 DEF Top
<1>10. ASSUME NEW i \in 1..l, pushed[i].conn = c PROVE pushed[i].n < p.n
  <2>1. pushed[i].n <= Top(c)
    BY <1>2, <1>10 DEF Order, Reached
  <2> QED
    BY <1>2, <1>4, <1>6, <2>1
<1>11. p.n > 1 => \E i \in 1..l : pushed[i].conn = c /\ pushed[i].n = p.n - 1
  <2>1. Top(c) > 0 => \E i \in 1..l : pushed[i].conn = c /\ pushed[i].n = Top(c)
    BY <1>2 DEF Order, Reached
  <2> QED
    BY <1>2, <1>4, <2>1
<1> HIDE DEF p, l
<1>12. Reached'
  <2> SUFFICES ASSUME NEW d \in Conns
               PROVE  /\ \A i \in 1..(l + 1) : pushed'[i].conn = d => pushed'[i].n <= Top(d)'
                      /\ Top(d)' > 0 => \E i \in 1..(l + 1) : /\ pushed'[i].conn = d
                                                              /\ pushed'[i].n = Top(d)'
    BY <1>5 DEF Reached
  <2>1. CASE d = c
    <3>1. ASSUME NEW i \in 1..(l + 1), pushed'[i].conn = c PROVE pushed'[i].n <= p.n
      <4>1. CASE i = l + 1
        BY <1>2, <1>5, <4>1
      <4>2. CASE i \in 1..l
        <5>1. pushed'[i] = pushed[i] /\ pushed[i].n \in Nat
          BY <1>5, <1>6, <4>2
        <5>2. pushed[i].n < p.n
          BY <1>10, <3>1, <4>2, <5>1
        <5> QED
          BY <1>2, <5>1, <5>2
      <4> QED
        BY <1>5, <4>1, <4>2
    <3>2. \E i \in 1..(l + 1) : pushed'[i].conn = c /\ pushed'[i].n = p.n
      BY <1>5
    <3>3. Top(d)' = p.n
      BY <1>8, <2>1
    <3> QED
      BY <2>1, <3>1, <3>2, <3>3
  <2>2. CASE d # c
    <3>1. Top(d)' = Top(d)
      BY <1>9, <2>2
    <3>2. /\ \A i \in 1..l : pushed[i].conn = d => pushed[i].n <= Top(d)
          /\ Top(d) > 0 => \E i \in 1..l : pushed[i].conn = d /\ pushed[i].n = Top(d)
      BY DEF Order, Reached, l
    <3>3. ASSUME NEW i \in 1..(l + 1), pushed'[i].conn = d PROVE i \in 1..l
      BY <1>5, <2>2, <3>3
    <3>4. \A i \in 1..l : i \in 1..(l + 1) /\ pushed'[i] = pushed[i]
      BY <1>5
    <3>5. \A i \in 1..(l + 1) : pushed'[i].conn = d => pushed'[i].n <= Top(d)'
      BY <3>1, <3>2, <3>3, <3>4
    <3>6. ASSUME Top(d) > 0
          PROVE  \E i \in 1..(l + 1) : pushed'[i].conn = d /\ pushed'[i].n = Top(d)
      <4>1. PICK i \in 1..l : pushed[i].conn = d /\ pushed[i].n = Top(d)
        BY <3>2, <3>6
      <4> QED
        BY <3>4, <4>1
    <3> QED
      BY <3>1, <3>5, <3>6
  <2> QED
    BY <2>1, <2>2
<1>13. PushOrder'
  <2> SUFFICES ASSUME NEW j \in 1..(l + 1)
               PROVE  /\ \A i \in 1..(j - 1) :
                            pushed'[i].conn = pushed'[j].conn => pushed'[i].n < pushed'[j].n
                      /\ pushed'[j].n > 1 => \E i \in 1..(j - 1) :
                            pushed'[i].conn = pushed'[j].conn /\ pushed'[i].n = pushed'[j].n - 1
    BY <1>5 DEF PushOrder
  <2>1. CASE j = l + 1
    <3>1. 1..(j - 1) = 1..l /\ pushed'[j] = p
      BY <1>5, <2>1
    <3> QED
      BY <1>5, <1>10, <1>11, <3>1
  <2>2. CASE j \in 1..l
    <3>1. \A i \in 1..(j - 1) : pushed'[i] = pushed[i]
      BY <1>5, <2>2
    <3>2. pushed'[j] = pushed[j]
      BY <1>5, <2>2
    <3>3. /\ \A i \in 1..(j - 1) : pushed[i].conn = pushed[j].conn => pushed[i].n < pushed[j].n
          /\ pushed[j].n > 1 => \E i \in 1..(j - 1) :
                pushed[i].conn = pushed[j].conn /\ pushed[i].n = pushed[j].n - 1
      BY <2>2 DEF Order, PushOrder, l
    <3> QED
      BY <3>1, <3>2, <3>3
  <2> QED
    BY <1>5, <2>1, <2>2
<1> QED
  BY <1>7, <1>12, <1>13 DEF Order

\* Every step keeps the order.
LEMMA InductiveOrder == IInv /\ Order /\ [Next]_vars => Order'
<1> SUFFICES ASSUME IInv, Order, [Next]_vars PROVE Order'
  OBVIOUS
<1>0. iopc \in [IOThreads -> IOLabels]
  BY DEF IInv, TypeOK
<1>1. ASSUME NEW t \in IOThreads, NEW c \in Conns, NEW type \in Types, NewPack(t, c, type)
      PROVE  Order'
  BY <1>1, NewPackOrder
<1>2. ASSUME NEW t \in IOThreads, PushPack(t) PROVE Order'
  <2>1. CASE PushStore(t)
    BY <2>1, PushStoreOrder
  <2>2. CASE PushLock(t) \/ PushLoad(t) \/ PushUnlock(t)
    <3>1. /\ UNCHANGED <<made, ioPack, pushed>>
          /\ \/ iopc[t] = "lock" /\ iopc' = [iopc EXCEPT ![t] = "load"]
             \/ iopc[t] = "load" /\ iopc' = [iopc EXCEPT ![t] = "store"]
             \/ iopc[t] = "unlock" /\ iopc' = [iopc EXCEPT ![t] = "idle"]
      BY <2>2 DEF PushLock, PushLoad, PushUnlock
    <3>2. \A u \in IOThreads : iopc'[u] \in {"lock", "load", "store"}
                                  <=> iopc[u] \in {"lock", "load", "store"}
      BY <1>0, <3>1
    <3> QED
      BY <3>1, <3>2, OrderKept
  <2> QED
    BY <1>2, <2>1, <2>2 DEF PushPack
<1>3. CASE ServerLoop \/ Tick \/ UNCHANGED vars
  <2>1. UNCHANGED <<made, iopc, ioPack, pushed>>
    BY <1>3 DEF ServerLoop, DispatchMsg, FrameInTime, FrameLate, BudgetLeft, BudgetSpent,
       GetPackEmpty, GetPackTry, GetPackLock, GetPackFront, GetPackPop, GetPackUnlock,
       HandleBound, HandleUnbound, Run, Sleep, Tick, vars, ioVars
  <2> QED
    BY <2>1, OrderKept
<1> QED
  BY <1>1, <1>2, <1>3 DEF Next

\* No packet has been made or pushed at the start.
LEMMA InitialOrder == Init => Order
<1> SUFFICES ASSUME Init PROVE Order
  OBVIOUS
<1>1. Newest
  BY DEF Init, Newest
<1>2. Len(pushed) = 0
  BY DEF Init
<1>3. ASSUME NEW c \in Conns PROVE Top(c) = 0
  BY DispatcherAssumption DEF Init, Top, Pending
<1>4. Reached
  BY <1>2, <1>3 DEF Reached
<1>5. PushOrder
  BY <1>2 DEF PushOrder
<1> QED
  BY <1>1, <1>4, <1>5 DEF Order

-----------------------------------------------------------------------------
(* The abstract queue *)

\* A packet in front of a queue: the one in the hands of the logic thread.
LEMMA FrontFacts ==
    ASSUME NEW S, NEW s \in Seq(S), NEW e \in S, NEW f \in S
    PROVE  /\ <<e>> \o s # <<>> /\ Head(<<e>> \o s) = e /\ Tail(<<e>> \o s) = s
           /\ Append(<<e>> \o s, f) = <<e>> \o Append(s, f)
  OBVIOUS

\* A queue is its first packet in front of the others.
LEMMA FrontAndTail ==
    ASSUME NEW S, NEW s \in Seq(S), s # <<>>
    PROVE  <<s[1]>> \o Tail(s) = s
  OBVIOUS

\* A push puts a packet behind those that wait, the one in hand included.
LEMMA PushStorePuts ==
    ASSUME IInv, NEW t \in IOThreads, PushStore(t)
    PROVE  FD!Put(ioPack[t])
<1>1. /\ lpc # "dead" /\ lpc' = lpc /\ pack' = pack /\ handled' = handled
      /\ m_MsgQueue' = Append(m_MsgQueue, ioPack[t])
  BY DEF PushStore, Alive, logicVars, IInv, Loaded
<1>2. ioPack[t] \in Packet /\ m_MsgQueue \in Seq(Packet) /\ (InHand = 1 => pack \in Packet)
  BY DEF PushStore, IInv, TypeOK, InHand
<1>3. InHand' = InHand /\ Alive' /\ Alive
  BY <1>1 DEF InHand, Alive
<1>4. InHand = 1 => Append(<<pack>> \o m_MsgQueue, ioPack[t]) = <<pack>> \o m_MsgQueue'
  BY <1>1, <1>2, FrontFacts
<1> QED
  BY <1>1, <1>3, <1>4 DEF FD!Put

\* The packet in hand is the first of those that wait: handling it takes it away.
LEMMA HandleBoundHandles ==
    ASSUME IInv, HandleBound
    PROVE  FD!Handle
<1>1. /\ lpc = "handle" /\ lpc' = "budget" /\ pack.type \in Bound
      /\ handled' = Append(handled, pack) /\ m_MsgQueue' = m_MsgQueue
  BY DEF HandleBound
<1>2. InHand = 1 /\ InHand' = 0 /\ Alive /\ Alive'
  BY <1>1 DEF InHand, Alive
<1>3. pack \in Packet /\ m_MsgQueue \in Seq(Packet)
  BY <1>1 DEF IInv, TypeOK
<1>4. /\ <<pack>> \o m_MsgQueue # <<>> /\ Head(<<pack>> \o m_MsgQueue) = pack
      /\ Tail(<<pack>> \o m_MsgQueue) = m_MsgQueue
  BY <1>3, FrontFacts
<1> QED
  BY <1>1, <1>2, <1>4 DEF FD!Handle

\* The exception of a message without a handler is the Stop of the abstract queue.
LEMMA HandleUnboundStops ==
    ASSUME IInv, HandleUnbound
    PROVE  FD!Stop
<1>1. /\ lpc = "handle" /\ lpc' = "dead" /\ pack.type \notin Bound
      /\ handled' = handled /\ m_MsgQueue' = m_MsgQueue /\ pack' = pack
  BY DEF HandleUnbound
<1>2. InHand = 1 /\ InHand' = 1 /\ Alive /\ ~Alive'
  BY <1>1 DEF InHand, Alive
<1>3. pack \in Packet /\ m_MsgQueue \in Seq(Packet)
  BY <1>1 DEF IInv, TypeOK
<1>4. <<pack>> \o m_MsgQueue # <<>> /\ Head(<<pack>> \o m_MsgQueue) = pack
  BY <1>3, FrontFacts
<1> QED
  BY <1>1, <1>2, <1>4 DEF FD!Stop

\* The pop moves the first packet from the queue to the hand: nothing has happened.
LEMMA GetPackPopStutters ==
    ASSUME IInv, GetPackPop
    PROVE  UNCHANGED FD!vars
<1>1. /\ lpc = "pop" /\ lpc' = "unlock" /\ handled' = handled /\ pack' = pack
      /\ m_MsgQueue' = Tail(m_MsgQueue) /\ pack = m_MsgQueue[1]
      /\ m_MsgQueue \in Seq(Packet) /\ m_MsgQueue # <<>>
  BY DEF GetPackPop, IInv, TypeOK, Loaded, PopFindsPack
<1>2. InHand = 0 /\ InHand' = 1 /\ Alive /\ Alive'
  BY <1>1 DEF InHand, Alive
<1>3. <<pack'>> \o m_MsgQueue' = m_MsgQueue
  BY <1>1, FrontAndTail
<1> QED
  BY <1>1, <1>2, <1>3 DEF FD!vars

\* Every step of the threads is a step of the abstract queue, or none.
LEMMA StepSimulation == IInv /\ [Next]_vars => [FD!Next]_(FD!vars)
<1> SUFFICES ASSUME IInv, [Next]_vars PROVE FD!Next \/ UNCHANGED FD!vars
  OBVIOUS
<1>1. ASSUME NEW t \in IOThreads, PushStore(t) PROVE FD!Next
  <2>1. ioPack[t] \in Packet
    BY <1>1 DEF PushStore, IInv, TypeOK
  <2> QED
    BY <1>1, <2>1, PushStorePuts DEF FD!Next
<1>2. CASE HandleBound
  BY <1>2, HandleBoundHandles DEF FD!Next
<1>3. CASE HandleUnbound
  BY <1>3, HandleUnboundStops DEF FD!Next
<1>4. CASE GetPackPop
  BY <1>4, GetPackPopStutters
<1>5. ASSUME NEW t \in IOThreads,
             \/ \E c \in Conns, type \in Types : NewPack(t, c, type)
             \/ PushLock(t) \/ PushLoad(t) \/ PushUnlock(t)
      PROVE  UNCHANGED FD!vars
  BY <1>5 DEF NewPack, PushLock, PushLoad, PushUnlock, logicVars, FD!vars, InHand, Alive
<1>6. CASE GetPackLock \/ GetPackUnlock
  BY <1>6 DEF GetPackLock, GetPackUnlock, FD!vars, InHand, Alive
<1>7. CASE GetPackFront
  BY <1>7 DEF GetPackFront, FD!vars, InHand, Alive
<1>8. CASE QuietStep
  <2>1. /\ m_MsgQueue' = m_MsgQueue /\ pack' = pack /\ handled' = handled
        /\ InHand' = InHand /\ (Alive' <=> Alive)
    BY <1>8 DEF QuietStep, FrameInTime, FrameLate, BudgetLeft, BudgetSpent, GetPackEmpty,
       GetPackTry, Run, Sleep, Tick, InHand, Alive
  <2> QED
    BY <2>1 DEF FD!vars
<1>9. CASE UNCHANGED vars
  BY <1>9 DEF vars, logicVars, FD!vars, InHand, Alive
<1> QED
  BY <1>1, <1>2, <1>3, <1>4, <1>5, <1>6, <1>7, <1>8, <1>9
  DEF Next, PushPack, ServerLoop, DispatchMsg, QuietStep

-----------------------------------------------------------------------------
(* The theorems *)

\* The variables of Dispatcher keep their types, and the logic thread's packet
\* pointer is set exactly while it owns a packet.
THEOREM DispatcherTypeOK == Spec => []TypeOK
<1>1. IInv => TypeOK
  BY DEF IInv
<1> QED
  BY <1>1, Invariance, PTL

\* PushPack and GetPack lose, double and reorder nothing, for any number of IO
\* threads.
THEOREM DispatcherNothingLost == Spec => []NothingLost
<1>1. IInv => NothingLost
  BY DEF IInv
<1> QED
  BY <1>1, Invariance, PTL

\* GetPack may test empty() without the mutex: with one consumer, the packet it
\* has seen is still there when front() and pop() run.
THEOREM DispatcherPopFindsPack == Spec => []PopFindsPack
<1>1. IInv => PopFindsPack
  BY DEF IInv
<1> QED
  BY <1>1, Invariance, PTL

\* The packets of a connection are handled in the order of its frames and none is
\* left out, for any number of connections on any IO threads: muduo runs a
\* connection's callbacks in the one loop that owns it, and PushPack is over before
\* the next of them begins.
THEOREM DispatcherConnectionOrder == Spec => []ConnectionOrder
<1>1. Init => IInv /\ Order
  BY Initial, InitialOrder
<1>2. (IInv /\ Order) /\ [Next]_vars => (IInv /\ Order)'
  BY Inductive, InductiveOrder
<1>3. IInv /\ Order => ConnectionOrder
  <2> SUFFICES ASSUME IInv, Order, NEW j \in 1..Len(handled)
               PROVE  LET before == {i \in 1..(j - 1) : handled[i].conn = handled[j].conn} IN
                      /\ \A i \in before : handled[i].n < handled[j].n
                      /\ handled[j].n > 1 => \E i \in before : handled[i].n = handled[j].n - 1
    BY DEF ConnectionOrder
  <2>1. /\ Len(handled) \in Nat /\ Len(pushed) \in Nat /\ Len(handled) <= Len(pushed)
        /\ \A i \in 1..Len(handled) : handled[i] = pushed[i]
    BY DEF IInv, TypeOK, NothingLost, InHand
  <2>2. j \in 1..Len(pushed) /\ handled[j] = pushed[j]
    BY <2>1
  <2>3. \A i \in 1..(j - 1) : handled[i] = pushed[i]
    BY <2>1
  <2>4. /\ \A i \in 1..(j - 1) : pushed[i].conn = pushed[j].conn => pushed[i].n < pushed[j].n
        /\ pushed[j].n > 1 => \E i \in 1..(j - 1) :
              pushed[i].conn = pushed[j].conn /\ pushed[i].n = pushed[j].n - 1
    BY <2>2 DEF Order, PushOrder
  <2> QED
    BY <2>2, <2>3, <2>4
<1> QED
  BY <1>1, <1>2, <1>3, PTL DEF Spec

\* The dispatcher implements the abstract queue FifoDispatch: its threads, mutex,
\* loads, stores and frames show nothing but packets put, handled oldest first, and
\* the stop at a packet without a handler.  (Its fairness is left to TLC.)
THEOREM DispatcherFifo == Spec => FD!Safety
<1>1. Init => FD!Init
  BY DEF Init, FD!Init, InHand, Alive
<1> QED
  BY <1>1, StepSimulation, Invariance, PTL DEF Spec, FD!Safety
=============================================================================
