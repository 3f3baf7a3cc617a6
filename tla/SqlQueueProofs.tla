--------------------------- MODULE SqlQueueProofs ---------------------------
(***************************************************************************)
(* Proofs about SqlQueue for any number of producers and packs.            *)
(*                                                                         *)
(* NothingLost needs to know that a producer between its load and its      *)
(* store (Loaded) and the SQL thread between its wait and the end of its   *)
(* pause exclude each other (Mutex): that, and not a lock in GetSqlPack,   *)
(* is what makes the pop safe.  SomeoneWillNotice rests on the order of    *)
(* PushSqlPack, push first and then notify, and on the predicate of the    *)
(* wait being tested with the mutex in hand.                               *)
(***************************************************************************)
EXTENDS SqlQueue, TLAPS

-----------------------------------------------------------------------------
(* The inductive invariant *)

\* Where the SQL thread has the mutex.
Inside == {"test", "drain", "execute", "free", "pause"}

\* A thread that works on the queue has the mutex.
Mutex ==
    /\ \A p \in Producers : ppc[p] \in {"load", "store", "unlock"} => m_sqlQueueMtx = p
    /\ spc \in Inside => m_sqlQueueMtx = Sql

\* What a producer has loaded is still the queue at its store.
Loaded == \A p \in Producers : ppc[p] = "store" => pQueue[p] = m_sqlTaskQueue

IInv == TypeOK /\ Mutex /\ Loaded /\ NothingLost /\ SomeoneWillNotice

-----------------------------------------------------------------------------
(* Sequences *)

\* What a push does to the queue and to the history of the pushes.
LEMMA AppendFacts ==
    ASSUME NEW S, NEW s \in Seq(S), NEW e \in S
    PROVE  /\ Append(s, e) \in Seq(S)
           /\ Len(s) \in Nat
           /\ Len(Append(s, e)) = Len(s) + 1
           /\ \A i \in 1..Len(s) : Append(s, e)[i] = s[i]
           /\ Append(s, e)[Len(s) + 1] = e
  OBVIOUS

\* What a pop does to the queue.
LEMMA TailFacts ==
    ASSUME NEW S, NEW s \in Seq(S), s # <<>>
    PROVE  /\ Tail(s) \in Seq(S)
           /\ Len(s) \in Nat /\ Len(s) > 0
           /\ Len(Tail(s)) = Len(s) - 1
           /\ \A i \in 1..Len(Tail(s)) : Tail(s)[i] = s[i + 1]
           /\ Head(s) = s[1]
           /\ s[1] \in S
  OBVIOUS

-----------------------------------------------------------------------------
(* Producers *)

\* PrepareSQL builds a pack.
LEMMA PrepareSQLStep ==
    ASSUME IInv, NEW p \in Producers, NEW type \in Kinds, PrepareSQL(p, type)
    PROVE  IInv'
<1> USE SqlQueueAssumption
<1> DEFINE e == [from |-> p, n |-> made[p] + 1, type |-> type]
<1>1. e \in Pack /\ made' \in [Producers -> 0..MaxPacks]
  BY DEF PrepareSQL, IInv, TypeOK, Pack
<1>2. sqlpack' = [sqlpack EXCEPT ![p] = e]
  BY DEF PrepareSQL
<1>3. ppc' = [ppc EXCEPT ![p] = "lock"] /\ ppc[p] = "idle"
  BY DEF PrepareSQL
<1>4. /\ m_sqlTaskQueue' = m_sqlTaskQueue /\ m_sqlQueueMtx' = m_sqlQueueMtx
      /\ pQueue' = pQueue /\ spc' = spc /\ pack' = pack /\ pushed' = pushed
      /\ taken' = taken /\ freedBinds' = freedBinds /\ freedPacks' = freedPacks
  BY DEF PrepareSQL, doneVars
<1> HIDE DEF e
<1>5. TypeOK'
  BY <1>1, <1>2, <1>3, <1>4 DEF IInv, TypeOK, ProducerLabels
<1>6. Mutex' /\ Loaded'
  BY <1>3, <1>4 DEF IInv, TypeOK, Mutex, Loaded
<1>7. NothingLost'
  BY <1>4 DEF IInv, NothingLost
<1>8. SomeoneWillNotice'
  BY <1>3, <1>4 DEF IInv, TypeOK, SomeoneWillNotice
<1> QED
  BY <1>5, <1>6, <1>7, <1>8 DEF IInv

\* The lock of PushSqlPack is free only if nobody works on the queue.
LEMMA PushLockStep ==
    ASSUME IInv, NEW p \in Producers, PushLock(p)
    PROVE  IInv'
<1> USE SqlQueueAssumption
<1>1. ppc' = [ppc EXCEPT ![p] = "load"] /\ ppc[p] = "lock"
  BY DEF PushLock
<1>2. m_sqlQueueMtx = None /\ m_sqlQueueMtx' = p
  BY DEF PushLock
<1>3. /\ m_sqlTaskQueue' = m_sqlTaskQueue /\ made' = made /\ sqlpack' = sqlpack
      /\ pQueue' = pQueue /\ spc' = spc /\ pack' = pack /\ pushed' = pushed
      /\ taken' = taken /\ freedBinds' = freedBinds /\ freedPacks' = freedPacks
  BY DEF PushLock, doneVars
<1>4. TypeOK'
  BY <1>1, <1>2, <1>3 DEF IInv, TypeOK, ProducerLabels
<1>5. Mutex' /\ Loaded'
  BY <1>1, <1>2, <1>3 DEF IInv, TypeOK, Mutex, Loaded
<1>6. NothingLost'
  BY <1>3 DEF IInv, NothingLost
<1>7. SomeoneWillNotice'
  BY <1>1, <1>3 DEF IInv, TypeOK, SomeoneWillNotice
<1> QED
  BY <1>4, <1>5, <1>6, <1>7 DEF IInv

\* The first half of the push.
LEMMA PushLoadStep ==
    ASSUME IInv, NEW p \in Producers, PushLoad(p)
    PROVE  IInv'
<1> USE SqlQueueAssumption
<1>1. ppc' = [ppc EXCEPT ![p] = "store"] /\ ppc[p] = "load"
  BY DEF PushLoad
<1>2. pQueue' = [pQueue EXCEPT ![p] = m_sqlTaskQueue]
  BY DEF PushLoad
<1>3. /\ m_sqlTaskQueue' = m_sqlTaskQueue /\ m_sqlQueueMtx' = m_sqlQueueMtx
      /\ made' = made /\ sqlpack' = sqlpack /\ spc' = spc /\ pack' = pack
      /\ pushed' = pushed /\ taken' = taken
      /\ freedBinds' = freedBinds /\ freedPacks' = freedPacks
  BY DEF PushLoad, doneVars
<1>4. TypeOK'
  BY <1>1, <1>2, <1>3 DEF IInv, TypeOK, ProducerLabels
<1>5. Mutex' /\ Loaded'
  BY <1>1, <1>2, <1>3 DEF IInv, TypeOK, Mutex, Loaded
<1>6. NothingLost'
  BY <1>3 DEF IInv, NothingLost
<1>7. SomeoneWillNotice'
  BY <1>1, <1>3 DEF IInv, TypeOK, SomeoneWillNotice
<1> QED
  BY <1>4, <1>5, <1>6, <1>7 DEF IInv

\* The second half: the loaded queue is the queue, so exactly one pack is added,
\* and its producer has yet to notify.
LEMMA PushStoreStep ==
    ASSUME IInv, NEW p \in Producers, PushStore(p)
    PROVE  IInv'
<1> USE SqlQueueAssumption
<1> DEFINE e == sqlpack[p]
<1>1. ppc' = [ppc EXCEPT ![p] = "unlock"] /\ ppc[p] = "store"
  BY DEF PushStore
<1>2. e \in Pack /\ pQueue[p] = m_sqlTaskQueue /\ m_sqlQueueMtx = p
  BY <1>1 DEF IInv, TypeOK, Loaded, Mutex
<1>3. m_sqlTaskQueue' = Append(m_sqlTaskQueue, e) /\ pushed' = Append(pushed, e)
  BY <1>2 DEF PushStore
<1>4. /\ m_sqlQueueMtx' = m_sqlQueueMtx /\ made' = made /\ sqlpack' = sqlpack
      /\ pQueue' = pQueue /\ spc' = spc /\ pack' = pack /\ taken' = taken
      /\ freedBinds' = freedBinds /\ freedPacks' = freedPacks
  BY DEF PushStore, doneVars
<1> HIDE DEF e
<1>5. m_sqlTaskQueue \in Seq(Pack) /\ pushed \in Seq(Pack) /\ taken \in Seq(Pack)
  BY DEF IInv, TypeOK
<1>6. m_sqlTaskQueue' \in Seq(Pack) /\ pushed' \in Seq(Pack)
  BY <1>2, <1>3, <1>5, AppendFacts
<1>7. TypeOK'
  BY <1>1, <1>4, <1>6 DEF IInv, TypeOK, ProducerLabels
<1>8. Mutex' /\ Loaded'
  BY <1>1, <1>2, <1>4 DEF IInv, TypeOK, Mutex, Loaded
<1>9. NothingLost'
  <2>1. /\ Len(m_sqlTaskQueue) \in Nat
        /\ Len(m_sqlTaskQueue') = Len(m_sqlTaskQueue) + 1
        /\ \A i \in 1..Len(m_sqlTaskQueue) : m_sqlTaskQueue'[i] = m_sqlTaskQueue[i]
        /\ m_sqlTaskQueue'[Len(m_sqlTaskQueue) + 1] = e
    BY <1>2, <1>3, <1>5, AppendFacts
  <2>2. /\ Len(pushed) \in Nat /\ Len(pushed') = Len(pushed) + 1
        /\ \A i \in 1..Len(pushed) : pushed'[i] = pushed[i]
        /\ pushed'[Len(pushed) + 1] = e
    BY <1>2, <1>3, <1>5, AppendFacts
  <2>3. Len(taken) \in Nat /\ Len(pushed) = Len(taken) + Len(m_sqlTaskQueue)
    BY <1>5 DEF IInv, NothingLost
  <2>4. \A i \in 1..Len(taken) : taken[i] = pushed'[i]
    BY <2>1, <2>2, <2>3 DEF IInv, NothingLost
  <2>5. ASSUME NEW i \in 1..Len(m_sqlTaskQueue')
        PROVE  m_sqlTaskQueue'[i] = pushed'[Len(taken) + i]
    <3>1. CASE i = Len(m_sqlTaskQueue) + 1
      BY <3>1, <2>1, <2>2, <2>3
    <3>2. CASE i \in 1..Len(m_sqlTaskQueue)
      <4>1. m_sqlTaskQueue[i] = pushed[Len(taken) + i]
        BY <3>2 DEF IInv, NothingLost
      <4>2. Len(taken) + i \in 1..Len(pushed)
        BY <3>2, <2>1, <2>3
      <4> QED
        BY <4>1, <4>2, <3>2, <2>1, <2>2
    <3> QED
      BY <3>1, <3>2, <2>1
  <2> QED
    BY <1>4, <2>1, <2>2, <2>3, <2>4, <2>5 DEF NothingLost
<1>10. SomeoneWillNotice'
  BY <1>1 DEF IInv, TypeOK, SomeoneWillNotice
<1> QED
  BY <1>7, <1>8, <1>9, <1>10 DEF IInv

\* The mutex is given back before the notification.
LEMMA PushUnlockStep ==
    ASSUME IInv, NEW p \in Producers, PushUnlock(p)
    PROVE  IInv'
<1> USE SqlQueueAssumption
<1>1. ppc' = [ppc EXCEPT ![p] = "notify"] /\ ppc[p] = "unlock"
  BY DEF PushUnlock
<1>2. m_sqlQueueMtx = p /\ m_sqlQueueMtx' = None
  BY <1>1 DEF PushUnlock, IInv, Mutex
<1>3. /\ m_sqlTaskQueue' = m_sqlTaskQueue /\ made' = made /\ sqlpack' = sqlpack
      /\ pQueue' = pQueue /\ spc' = spc /\ pack' = pack /\ pushed' = pushed
      /\ taken' = taken /\ freedBinds' = freedBinds /\ freedPacks' = freedPacks
  BY DEF PushUnlock, doneVars
<1>4. TypeOK'
  BY <1>1, <1>2, <1>3 DEF IInv, TypeOK, ProducerLabels
<1>5. Mutex' /\ Loaded'
  BY <1>1, <1>2, <1>3 DEF IInv, TypeOK, Mutex, Loaded
<1>6. NothingLost'
  BY <1>3 DEF IInv, NothingLost
<1>7. SomeoneWillNotice'
  BY <1>1, <1>3 DEF IInv, TypeOK, SomeoneWillNotice
<1> QED
  BY <1>4, <1>5, <1>6, <1>7 DEF IInv

\* After a notification the SQL thread does not wait any more.
LEMMA NotifyStep ==
    ASSUME IInv, NEW p \in Producers, Notify(p)
    PROVE  IInv'
<1> USE SqlQueueAssumption
<1>1. ppc' = [ppc EXCEPT ![p] = "idle"] /\ ppc[p] = "notify"
  BY DEF Notify
<1>2. sqlpack' = [sqlpack EXCEPT ![p] = None]
  BY DEF Notify
<1>3. \/ spc = "wait" /\ spc' = "woken"
      \/ spc # "wait" /\ spc' = spc
  BY DEF Notify, Notified
<1>4. /\ m_sqlTaskQueue' = m_sqlTaskQueue /\ m_sqlQueueMtx' = m_sqlQueueMtx
      /\ made' = made /\ pQueue' = pQueue /\ pack' = pack /\ pushed' = pushed
      /\ taken' = taken /\ freedBinds' = freedBinds /\ freedPacks' = freedPacks
  BY DEF Notify, doneVars
<1>5. TypeOK'
  BY <1>1, <1>2, <1>3, <1>4 DEF IInv, TypeOK, ProducerLabels, SqlLabels
<1>6. Mutex' /\ Loaded'
  BY <1>1, <1>3, <1>4 DEF IInv, TypeOK, Mutex, Loaded, Inside
<1>7. NothingLost'
  BY <1>4 DEF IInv, NothingLost
<1>8. SomeoneWillNotice'
  BY <1>3 DEF SomeoneWillNotice
<1> QED
  BY <1>5, <1>6, <1>7, <1>8 DEF IInv

-----------------------------------------------------------------------------
(* The SQL thread *)

\* Steps of the SQL thread that leave the queue and the producers alone: they move
\* it, take or release the mutex, and may let go of its pack.
LEMMA ThreadStep ==
    ASSUME IInv,
           m_sqlTaskQueue' = m_sqlTaskQueue, UNCHANGED producerVars,
           pushed' = pushed, taken' = taken,
           spc' \in SqlLabels,
           IF spc' \in {"execute", "free"} THEN pack' \in Pack ELSE pack' = None,
           freedBinds' \subseteq Pack, freedPacks' \subseteq Pack,
           \/ m_sqlQueueMtx = None /\ m_sqlQueueMtx' = Sql
           \/ m_sqlQueueMtx = Sql /\ m_sqlQueueMtx' = None /\ spc' \notin Inside
           \/ m_sqlQueueMtx' = m_sqlQueueMtx /\ (spc' \in Inside => spc \in Inside),
           spc' = "wait" => m_sqlTaskQueue = <<>>
    PROVE  IInv'
<1> USE SqlQueueAssumption
<1>1. made' = made /\ ppc' = ppc /\ sqlpack' = sqlpack /\ pQueue' = pQueue
  BY DEF producerVars
<1>2. TypeOK'
  BY <1>1 DEF IInv, TypeOK
<1>3. Mutex'
  BY <1>1 DEF IInv, TypeOK, Mutex, Inside
<1>4. Loaded'
  BY <1>1 DEF IInv, Loaded
<1>5. NothingLost'
  BY DEF IInv, NothingLost
<1>6. SomeoneWillNotice'
  BY DEF SomeoneWillNotice
<1> QED
  BY <1>2, <1>3, <1>4, <1>5, <1>6 DEF IInv

\* The pop: its producer cannot be between a load and a store, for the SQL thread has
\* the mutex.
LEMMA GetSqlPackStep ==
    ASSUME IInv, GetSqlPack
    PROVE  IInv'
<1> USE SqlQueueAssumption
<1> DEFINE q == m_sqlTaskQueue
<1>1. spc = "drain" /\ q # <<>> /\ q \in Seq(Pack) /\ taken \in Seq(Pack) /\ pushed \in Seq(Pack)
  BY DEF GetSqlPack, IInv, TypeOK
<1>2. q' = Tail(q) /\ taken' = Append(taken, Head(q)) /\ pushed' = pushed
  BY DEF GetSqlPack
<1>3. /\ q' \in Seq(Pack) /\ Len(q) \in Nat /\ Len(q) > 0 /\ Len(q') = Len(q) - 1
      /\ \A i \in 1..Len(q') : q'[i] = q[i + 1]
      /\ Head(q) = q[1] /\ Head(q) \in Pack
  BY <1>1, <1>2, TailFacts
<1>4. m_sqlQueueMtx = Sql /\ m_sqlQueueMtx' = Sql
  BY <1>1 DEF GetSqlPack, WhileDraining, IInv, Mutex, Inside
<1>5. \/ pack' = pack /\ spc' = spc
      \/ pack' = Head(q) /\ spc' = "execute"
  BY DEF GetSqlPack
<1>6. /\ made' = made /\ ppc' = ppc /\ sqlpack' = sqlpack /\ pQueue' = pQueue
      /\ freedBinds' = freedBinds /\ freedPacks' = freedPacks
  BY DEF GetSqlPack, producerVars, doneVars
<1>7. /\ taken' \in Seq(Pack) /\ Len(taken) \in Nat /\ Len(taken') = Len(taken) + 1
      /\ \A i \in 1..Len(taken) : taken'[i] = taken[i]
      /\ taken'[Len(taken) + 1] = q[1]
  BY <1>1, <1>2, <1>3, AppendFacts
<1>8. TypeOK'
  BY <1>1, <1>2, <1>3, <1>4, <1>5, <1>6, <1>7 DEF IInv, TypeOK, SqlLabels
<1>9. Mutex' /\ Loaded'
  BY <1>1, <1>4, <1>5, <1>6 DEF IInv, Mutex, Loaded, Inside
<1>10. NothingLost'
  <2>1. /\ Len(pushed) = Len(taken) + Len(q)
        /\ \A i \in 1..Len(taken) : taken[i] = pushed[i]
        /\ \A i \in 1..Len(q) : q[i] = pushed[Len(taken) + i]
    BY DEF IInv, NothingLost
  <2>2. Len(pushed) = Len(taken') + Len(q')
    BY <1>3, <1>7, <2>1
  <2>3. ASSUME NEW i \in 1..Len(taken')
        PROVE  taken'[i] = pushed[i]
    <3>1. CASE i = Len(taken) + 1
      BY <3>1, <1>3, <1>7, <2>1
    <3>2. CASE i \in 1..Len(taken)
      BY <3>2, <1>7, <2>1
    <3> QED
      BY <3>1, <3>2, <1>7
  <2>4. ASSUME NEW i \in 1..Len(q')
        PROVE  q'[i] = pushed[Len(taken') + i]
    <3>1. q'[i] = q[i + 1] /\ i + 1 \in 1..Len(q)
      BY <1>3
    <3>2. q[i + 1] = pushed[Len(taken) + (i + 1)]
      BY <3>1, <2>1
    <3>3. Len(taken) + (i + 1) = Len(taken') + i
      BY <1>3, <1>7
    <3> QED
      BY <3>1, <3>2, <3>3
  <2> QED
    BY <1>2, <2>2, <2>3, <2>4 DEF NothingLost
<1>11. SomeoneWillNotice'
  BY <1>1, <1>5 DEF SomeoneWillNotice
<1> QED
  BY <1>8, <1>9, <1>10, <1>11 DEF IInv

-----------------------------------------------------------------------------
(* The theorems *)

\* The queue is empty and everybody outside at the start.
LEMMA InitIInv == Init => IInv
<1> USE SqlQueueAssumption
<1> SUFFICES ASSUME Init PROVE IInv
  OBVIOUS
<1>1. TypeOK
  BY DEF Init, TypeOK, ProducerLabels, SqlLabels, Pack
<1>2. Mutex /\ Loaded /\ SomeoneWillNotice
  BY DEF Init, Mutex, Loaded, SomeoneWillNotice, Inside
<1>3. NothingLost
  BY DEF Init, NothingLost
<1> QED
  BY <1>1, <1>2, <1>3 DEF IInv

\* Every step of a producer or of the SQL thread keeps the invariant.
LEMMA NextIInv == IInv /\ [Next]_vars => IInv'
<1> SUFFICES ASSUME IInv, [Next]_vars PROVE IInv'
  OBVIOUS
<1>1. ASSUME NEW p \in Producers, Producer(p) PROVE IInv'
  BY <1>1, PushLockStep, PushLoadStep, PushStoreStep, PushUnlockStep, NotifyStep DEF Producer
<1>2. ASSUME NEW p \in Producers, NEW type \in Kinds, PrepareSQL(p, type) PROVE IInv'
  BY <1>2, PrepareSQLStep
<1>3. CASE SqlLock
  BY <1>3, ThreadStep DEF SqlLock, IInv, TypeOK, SqlLabels, doneVars
<1>4. CASE WaitDone
  BY <1>4, ThreadStep DEF WaitDone, IInv, TypeOK, SqlLabels, doneVars, Inside
<1>5. CASE Wait
  BY <1>5, ThreadStep DEF Wait, WaitOver, IInv, TypeOK, Mutex, SqlLabels, doneVars, Inside
<1>6. CASE SpuriousWakeup
  BY <1>6, ThreadStep DEF SpuriousWakeup, IInv, TypeOK, SqlLabels, doneVars, Inside
<1>7. CASE GetSqlPack
  BY <1>7, GetSqlPackStep
<1>8. CASE ExecuteSentence
  BY <1>8, ThreadStep DEF ExecuteSentence, IInv, TypeOK, SqlLabels, doneVars, Inside
<1>9. CASE Free
  <2>1. pack \in Pack /\ freedBinds \subseteq Pack /\ freedPacks \subseteq Pack
    BY <1>9 DEF Free, IInv, TypeOK
  <2>2. freedBinds' \subseteq Pack /\ freedPacks' \subseteq Pack /\ pack' = None
    BY <1>9, <2>1 DEF Free, Deleted
  <2>3. spc = "free" /\ spc' = "drain"
    BY <1>9 DEF Free
  <2> QED
    BY <1>9, <2>2, <2>3, ThreadStep DEF Free, SqlLabels, Inside
<1>10. CASE DrainDone
  BY <1>10, ThreadStep DEF DrainDone, IInv, TypeOK, SqlLabels, doneVars, Inside
<1>11. CASE Pause
  BY <1>11, ThreadStep DEF Pause, IInv, TypeOK, Mutex, SqlLabels, doneVars, Inside
<1>12. CASE UNCHANGED vars
  <2>1. /\ m_sqlTaskQueue' = m_sqlTaskQueue /\ UNCHANGED producerVars
        /\ pushed' = pushed /\ taken' = taken /\ spc' = spc /\ pack' = pack
        /\ freedBinds' = freedBinds /\ freedPacks' = freedPacks
        /\ m_sqlQueueMtx' = m_sqlQueueMtx
    BY <1>12 DEF vars, producerVars, doneVars
  <2> QED
    BY <2>1 DEF IInv, TypeOK, Mutex, Loaded, NothingLost, SomeoneWillNotice, producerVars
<1> QED
  BY <1>1, <1>2, <1>3, <1>4, <1>5, <1>6, <1>7, <1>8, <1>9, <1>10, <1>11, <1>12
  DEF Next, MysqlLoop

\* The inductive invariant holds throughout.
LEMMA SqlQueueIInv == Spec => []IInv
<1>1. Init => IInv
  BY InitIInv
<1>2. IInv /\ [Next]_vars => IInv'
  BY NextIInv
<1> QED
  BY <1>1, <1>2, PTL DEF Spec

\* Type correctness, with the SQL thread's ownership of its pack in MysqlLoop.
THEOREM SqlQueueTypeOK == Spec => []TypeOK
<1>1. IInv => TypeOK
  BY DEF IInv
<1> QED
  BY <1>1, SqlQueueIInv, PTL

\* PushSqlPack and the pop of GetSqlPack, which has no lock of its own, neither
\* lose nor double nor reorder packs.
THEOREM SqlQueueNothingLost == Spec => []NothingLost
<1>1. IInv => NothingLost
  BY DEF IInv
<1> QED
  BY <1>1, SqlQueueIInv, PTL

\* The notification after the mutex is released, in PushSqlPack, is never too
\* early or too late for the wait of MysqlLoop.
THEOREM SqlQueueSomeoneWillNotice == Spec => []SomeoneWillNotice
<1>1. IInv => SomeoneWillNotice
  BY DEF IInv
<1> QED
  BY <1>1, SqlQueueIInv, PTL

\* Every step of the producers and of the SQL thread is a step of the abstract queue,
\* or none: a push puts, and the pop of GetSqlPack is the handling, for a pack that is
\* passed over too.
LEMMA StepSimulation == IInv /\ [Next]_vars => [FD!Next]_(FD!vars)
<1> SUFFICES ASSUME IInv, [Next]_vars PROVE FD!Next \/ UNCHANGED FD!vars
  OBVIOUS
<1>1. ASSUME NEW p \in Producers, PushStore(p) PROVE FD!Next
  <2>1. sqlpack[p] \in Pack /\ pQueue[p] = m_sqlTaskQueue
    BY <1>1 DEF PushStore, IInv, TypeOK, Loaded
  <2>2. FD!Put(sqlpack[p])
    BY <1>1, <2>1 DEF PushStore, FD!Put
  <2> QED
    BY <2>1, <2>2 DEF FD!Next
<1>2. CASE GetSqlPack
  <2>1. m_sqlTaskQueue # <<>> /\ Head(m_sqlTaskQueue) \in Pack
    BY <1>2, TailFacts DEF GetSqlPack, IInv, TypeOK
  <2>2. Head(m_sqlTaskQueue).type \in Kinds
    BY <2>1 DEF Pack
  <2>3. FD!Handle
    BY <1>2, <2>1, <2>2 DEF GetSqlPack, FD!Handle
  <2> QED
    BY <2>3 DEF FD!Next
<1>3. ASSUME NEW p \in Producers,
             \/ \E type \in Kinds : PrepareSQL(p, type)
             \/ PushLock(p) \/ PushLoad(p) \/ PushUnlock(p) \/ Notify(p)
      PROVE  UNCHANGED FD!vars
  BY <1>3 DEF PrepareSQL, PushLock, PushLoad, PushUnlock, Notify, FD!vars
<1>4. CASE \/ SqlLock \/ WaitDone \/ Wait \/ ExecuteSentence \/ Free \/ DrainDone \/ Pause
           \/ SpuriousWakeup \/ UNCHANGED vars
  BY <1>4 DEF SqlLock, WaitDone, Wait, ExecuteSentence, Free, DrainDone, Pause, SpuriousWakeup,
     vars, FD!vars
<1> QED
  BY <1>1, <1>2, <1>3, <1>4 DEF Next, Producer, MysqlLoop

\* The task queue implements the same abstract queue as Dispatcher, FifoDispatch:
\* packs are taken once each, in the order of their pushes.  (Its fairness is left
\* to TLC.)
THEOREM SqlQueueFifo == Spec => FD!Safety
<1>1. Init => FD!Init
  BY DEF Init, FD!Init
<1> QED
  BY <1>1, StepSimulation, SqlQueueIInv, PTL DEF Spec, FD!Safety
=============================================================================
