---------------------------- MODULE MuduoProofs ----------------------------
(***************************************************************************)
(* Proofs about the two parts of muduo that the repository has the code    *)
(* of: the queues (BlockingQueue) and the buffer (Buffer).                 *)
(*                                                                         *)
(* BlockingQueue, for any number of threads and items and any capacity.    *)
(* HolderExact needs to know where in its call a thread has the pthread    *)
(* mutex (Locked) and where holder_ says so (Held): the second begins      *)
(* later and ends earlier, also around the two ends of a wait.  PutIsTake  *)
(* needs what the test of the loop has found to be still true when the     *)
(* queue is changed (Tested), which follows from Locked.                   *)
(*                                                                         *)
(* Buffer, for any size of the vector, of the data and of the integers.    *)
(* Its invariant is the layout (IsBuffer) with room for a header, which    *)
(* retrieveAll takes for granted.  What an operation does is stated on the *)
(* content alone (the lemmas ...Facts), and from there it is an operation  *)
(* of ByteQueue.  That a power of Base is positive is an assumption of     *)
(* Buffer: the provers do not know what ^ is.                              *)
(***************************************************************************)
EXTENDS BlockingQueue, Buffer, WellFoundedInduction, SequenceTheorems, TLAPS

-----------------------------------------------------------------------------
(* BlockingQueue: the inductive invariant *)

\* Where a thread has the pthread mutex, and where it is the holder.
LockedAt == {"assign", "reassign", "test", "wait", "release", "store", "notify", "unassign", "unlock"}
HeldAt == {"test", "wait", "store", "notify", "unassign"}

Locked == \A t \in Threads : pc[t] \in LockedAt => mutex_ = t

Held ==
    /\ \A t \in Threads : pc[t] \in HeldAt => holder_ = t
    /\ holder_ # None => holder_ \in Threads /\ pc[holder_] \in HeldAt

\* Whom a notify may wake is asleep, and only puts and takes wait.
Sleepers ==
    /\ \A t \in notEmpty_ \cup notFull_ : pc[t] = "asleep"
    /\ \A t \in Threads : pc[t] \in {"wait", "release", "asleep", "relock", "store"} => t \notin Observers
    /\ \A t \in Producers : pc[t] \in {"wait", "release"} => kind = "bounded"

\* A put has a number, and what the test has found holds until the store.
Tested ==
    /\ \A t \in Producers : pc[t] # "idle" => puts[t] >= 1
    /\ \A t \in Producers : pc[t] = "store" => ~Full
    /\ \A t \in Consumers : pc[t] = "store" => queue_ # <<>>

IInv == TypeOK /\ Locked /\ Held /\ Sleepers /\ Tested /\ PutIsTake

-----------------------------------------------------------------------------
(* The mutex *)

\* The mutex is free, so nobody is where a thread has it.
LEMMA PthreadLockStep ==
    ASSUME IInv, NEW t \in Threads, PthreadLock(t)
    PROVE  IInv'
<1> USE BlockingQueueAssumption DEF Threads
<1>1. /\ pc[t] \in {"lock", "relock"} /\ mutex_ = None /\ mutex_' = t
      /\ pc' = [pc EXCEPT ![t] = IF pc[t] = "lock" THEN "assign" ELSE "reassign"]
  BY DEF PthreadLock, Goto
<1>2. /\ kind' = kind
      /\ holder_' = holder_
      /\ notEmpty_' = notEmpty_ /\ notFull_' = notFull_
      /\ queue_' = queue_ /\ putOrder' = putOrder /\ takeOrder' = takeOrder
      /\ puts' = puts
  BY DEF PthreadLock, Goto, condVars, dataVars
<1>3. TypeOK'
  BY <1>1, <1>2 DEF IInv, TypeOK, Labels
<1>4. Locked'
  BY <1>1 DEF IInv, Locked
<1>5. Held'
  BY <1>1, <1>2 DEF IInv, Held, HeldAt
<1>6. Sleepers'
  BY <1>1, <1>2 DEF IInv, Sleepers
<1>7. Tested'
  BY <1>1, <1>2 DEF IInv, Tested, Full
<1>8. PutIsTake'
  BY <1>2 DEF IInv, PutIsTake
<1> QED
  BY <1>3, <1>4, <1>5, <1>6, <1>7, <1>8 DEF IInv

\* Whoever assigns the holder has the mutex, so there was no holder.
LEMMA assignHolderStep ==
    ASSUME IInv, NEW t \in Threads, assignHolder(t)
    PROVE  IInv'
<1> USE BlockingQueueAssumption DEF Threads
<1>1. /\ pc[t] \in {"assign", "reassign"} /\ holder_' = t
      /\ pc' = [pc EXCEPT ![t] = "test"]
  BY DEF assignHolder, HolderAfter, Goto
<1>2. /\ kind' = kind
      /\ mutex_' = mutex_
      /\ notEmpty_' = notEmpty_ /\ notFull_' = notFull_
      /\ queue_' = queue_ /\ putOrder' = putOrder /\ takeOrder' = takeOrder
      /\ puts' = puts
  BY DEF assignHolder, Goto, condVars, dataVars
<1>3. TypeOK'
  BY <1>1, <1>2 DEF IInv, TypeOK, Labels
<1>4. Locked'
  BY <1>1, <1>2 DEF IInv, Locked, LockedAt
<1>5. Held'
  BY <1>1 DEF IInv, TypeOK, Locked, LockedAt, Held, HeldAt
<1>6. Sleepers'
  BY <1>1, <1>2 DEF IInv, Sleepers
<1>7. Tested'
  BY <1>1, <1>2 DEF IInv, Tested, Full
<1>8. PutIsTake'
  BY <1>2 DEF IInv, PutIsTake
<1> QED
  BY <1>3, <1>4, <1>5, <1>6, <1>7, <1>8 DEF IInv

\* The first half of unlock().
LEMMA unassignHolderStep ==
    ASSUME IInv, NEW t \in Threads, unassignHolder(t)
    PROVE  IInv'
<1> USE BlockingQueueAssumption DEF Threads
<1>1. /\ pc[t] = "unassign" /\ holder_' = None
      /\ pc' = [pc EXCEPT ![t] = "unlock"]
  BY DEF unassignHolder, Goto
<1>2. /\ kind' = kind
      /\ mutex_' = mutex_
      /\ notEmpty_' = notEmpty_ /\ notFull_' = notFull_
      /\ queue_' = queue_ /\ putOrder' = putOrder /\ takeOrder' = takeOrder
      /\ puts' = puts
  BY DEF unassignHolder, Goto, condVars, dataVars
<1>3. TypeOK'
  BY <1>1, <1>2 DEF IInv, TypeOK, Labels
<1>4. Locked'
  BY <1>1, <1>2 DEF IInv, Locked, LockedAt
<1>5. Held'
  BY <1>1 DEF IInv, TypeOK, Held, HeldAt
<1>6. Sleepers'
  BY <1>1, <1>2 DEF IInv, Sleepers
<1>7. Tested'
  BY <1>1, <1>2 DEF IInv, Tested, Full
<1>8. PutIsTake'
  BY <1>2 DEF IInv, PutIsTake
<1> QED
  BY <1>3, <1>4, <1>5, <1>6, <1>7, <1>8 DEF IInv

\* The second half: the holder is gone already.
LEMMA PthreadUnlockStep ==
    ASSUME IInv, NEW t \in Threads, PthreadUnlock(t)
    PROVE  IInv'
<1> USE BlockingQueueAssumption DEF Threads
<1>1. /\ pc[t] = "unlock" /\ mutex_' = None
      /\ pc' = [pc EXCEPT ![t] = "idle"]
  BY DEF PthreadUnlock, Goto
<1>2. /\ kind' = kind
      /\ holder_' = holder_
      /\ notEmpty_' = notEmpty_ /\ notFull_' = notFull_
      /\ queue_' = queue_ /\ putOrder' = putOrder /\ takeOrder' = takeOrder
      /\ puts' = puts
  BY DEF PthreadUnlock, Goto, condVars, dataVars
<1>3. TypeOK'
  BY <1>1, <1>2 DEF IInv, TypeOK, Labels
<1>4. Locked'
  BY <1>1 DEF IInv, TypeOK, Locked, LockedAt
<1>5. Held'
  BY <1>1, <1>2 DEF IInv, Held, HeldAt
<1>6. Sleepers'
  BY <1>1, <1>2 DEF IInv, Sleepers
<1>7. Tested'
  BY <1>1, <1>2 DEF IInv, Tested, Full
<1>8. PutIsTake'
  BY <1>2 DEF IInv, PutIsTake
<1> QED
  BY <1>3, <1>4, <1>5, <1>6, <1>7, <1>8 DEF IInv

-----------------------------------------------------------------------------
(* The conditions *)

\* The UnassignGuard of a wait.
LEMMA WaitGuardStep ==
    ASSUME IInv, NEW t \in Threads, WaitGuard(t)
    PROVE  IInv'
<1> USE BlockingQueueAssumption DEF Threads
<1>1. /\ pc[t] = "wait" /\ holder_' = None
      /\ pc' = [pc EXCEPT ![t] = "release"]
  BY DEF WaitGuard, Goto
<1>2. /\ kind' = kind
      /\ mutex_' = mutex_
      /\ notEmpty_' = notEmpty_ /\ notFull_' = notFull_
      /\ queue_' = queue_ /\ putOrder' = putOrder /\ takeOrder' = takeOrder
      /\ puts' = puts
  BY DEF WaitGuard, Goto, condVars, dataVars
<1>3. TypeOK'
  BY <1>1, <1>2 DEF IInv, TypeOK, Labels
<1>4. Locked'
  BY <1>1, <1>2 DEF IInv, Locked, LockedAt
<1>5. Held'
  BY <1>1 DEF IInv, TypeOK, Held, HeldAt
<1>6. Sleepers'
  BY <1>1, <1>2 DEF IInv, Sleepers
<1>7. Tested'
  BY <1>1, <1>2 DEF IInv, Tested, Full
<1>8. PutIsTake'
  BY <1>2 DEF IInv, PutIsTake
<1> QED
  BY <1>3, <1>4, <1>5, <1>6, <1>7, <1>8 DEF IInv

\* The mutex is given up by the thread that has it; an observer never waits, and a put
\* waits only on a bounded queue.
LEMMA PthreadWaitStep ==
    ASSUME IInv, NEW t \in Threads, PthreadWait(t)
    PROVE  IInv'
<1> USE BlockingQueueAssumption DEF Threads
<1>1. /\ pc[t] = "release" /\ mutex_' = None
      /\ pc' = [pc EXCEPT ![t] = "asleep"]
      /\ IF t \in Producers THEN notFull_' = notFull_ \cup {t} /\ notEmpty_' = notEmpty_
                           ELSE notEmpty_' = notEmpty_ \cup {t} /\ notFull_' = notFull_
  BY DEF PthreadWait, WaitsOnNotFull, Goto
<1>2. /\ kind' = kind
      /\ holder_' = holder_
      /\ queue_' = queue_ /\ putOrder' = putOrder /\ takeOrder' = takeOrder
      /\ puts' = puts
  BY DEF PthreadWait, Goto, dataVars
<1>3. TypeOK'
  BY <1>1, <1>2 DEF IInv, TypeOK, Labels, Sleepers
<1>4. Locked'
  BY <1>1 DEF IInv, TypeOK, Locked, LockedAt
<1>5. Held'
  BY <1>1, <1>2 DEF IInv, Held, HeldAt
<1>6. Sleepers'
  BY <1>1, <1>2 DEF IInv, TypeOK, Sleepers
<1>7. Tested'
  BY <1>1, <1>2 DEF IInv, Tested, Full
<1>8. PutIsTake'
  BY <1>2 DEF IInv, PutIsTake
<1> QED
  BY <1>3, <1>4, <1>5, <1>6, <1>7, <1>8 DEF IInv

\* Waking up changes neither the mutex nor the queue.
LEMMA SpuriousWakeupStep ==
    ASSUME IInv, NEW t \in Threads, SpuriousWakeup(t)
    PROVE  IInv'
<1> USE BlockingQueueAssumption DEF Threads
<1>1. /\ pc[t] = "asleep" /\ pc' = [pc EXCEPT ![t] = "relock"]
      /\ notEmpty_' = notEmpty_ \ {t} /\ notFull_' = notFull_ \ {t}
  BY DEF SpuriousWakeup, Goto
<1>2. /\ kind' = kind
      /\ mutex_' = mutex_
      /\ holder_' = holder_
      /\ queue_' = queue_ /\ putOrder' = putOrder /\ takeOrder' = takeOrder
      /\ puts' = puts
  BY DEF SpuriousWakeup, Goto, lockVars, dataVars
<1>3. TypeOK'
  BY <1>1, <1>2 DEF IInv, TypeOK, Labels
<1>4. Locked'
  BY <1>1, <1>2 DEF IInv, Locked, LockedAt
<1>5. Held'
  BY <1>1, <1>2 DEF IInv, Held, HeldAt
<1>6. Sleepers'
  BY <1>1, <1>2 DEF IInv, Sleepers
<1>7. Tested'
  BY <1>1, <1>2 DEF IInv, Tested, Full
<1>8. PutIsTake'
  BY <1>2 DEF IInv, PutIsTake
<1> QED
  BY <1>3, <1>4, <1>5, <1>6, <1>7, <1>8 DEF IInv

-----------------------------------------------------------------------------
(* The queue *)

\* A call has no mutex yet; a put gets its number.
LEMMA CallStep ==
    ASSUME IInv, NEW t \in Threads, Call(t)
    PROVE  IInv'
<1> USE BlockingQueueAssumption DEF Threads
<1>1. /\ pc[t] = "idle" /\ pc' = [pc EXCEPT ![t] = "lock"]
      /\ IF t \in Producers THEN puts[t] < MaxItems /\ puts' = [puts EXCEPT ![t] = @ + 1]
                           ELSE puts' = puts
  BY DEF Call, Goto
<1>2. /\ kind' = kind
      /\ mutex_' = mutex_
      /\ holder_' = holder_
      /\ notEmpty_' = notEmpty_ /\ notFull_' = notFull_
      /\ queue_' = queue_ /\ putOrder' = putOrder /\ takeOrder' = takeOrder
  BY DEF Call, Goto, lockVars, condVars, dataVars
<1>3. TypeOK'
  <2>1. puts' \in [Producers -> 0..MaxItems]
    <3>1. CASE t \in Producers
      <4>1. puts[t] \in 0..MaxItems /\ puts[t] < MaxItems
        BY <1>1, <3>1 DEF IInv, TypeOK
      <4>2. puts[t] + 1 \in 0..MaxItems
        BY <4>1
      <4> QED
        BY <1>1, <4>2 DEF IInv, TypeOK
    <3>2. CASE t \notin Producers
      BY <1>1, <3>2 DEF IInv, TypeOK
    <3> QED
      BY <3>1, <3>2
  <2> QED
    BY <1>1, <1>2, <2>1 DEF IInv, TypeOK, Labels
<1>4. Locked'
  BY <1>1, <1>2 DEF IInv, Locked, LockedAt
<1>5. Held'
  BY <1>1, <1>2 DEF IInv, Held, HeldAt
<1>6. Sleepers'
  BY <1>1, <1>2 DEF IInv, Sleepers
<1>7. Tested'
  BY <1>1, <1>2 DEF IInv, TypeOK, Tested, Full
<1>8. PutIsTake'
  BY <1>2 DEF IInv, PutIsTake
<1> QED
  BY <1>3, <1>4, <1>5, <1>6, <1>7, <1>8 DEF IInv

\* The head of the loop finds room or an item, or goes to wait.
LEMMA TestStep ==
    ASSUME IInv, NEW t \in Threads, Test(t)
    PROVE  IInv'
<1> USE BlockingQueueAssumption DEF Threads
<1>1. /\ pc[t] = "test" /\ t \notin Observers
      /\ \/ pc' = [pc EXCEPT ![t] = "wait"] /\ (t \in Producers => kind = "bounded")
         \/ /\ pc' = [pc EXCEPT ![t] = "store"]
            /\ (t \in Producers => ~Full) /\ (t \in Consumers => queue_ # <<>>)
  BY DEF Test, MustWait, Full, Goto
<1>2. /\ kind' = kind
      /\ mutex_' = mutex_
      /\ holder_' = holder_
      /\ notEmpty_' = notEmpty_ /\ notFull_' = notFull_
      /\ queue_' = queue_ /\ putOrder' = putOrder /\ takeOrder' = takeOrder
      /\ puts' = puts
  BY DEF Test, Goto, lockVars, condVars, dataVars
<1>3. TypeOK'
  BY <1>1, <1>2 DEF IInv, TypeOK, Labels
<1>4. Locked'
  BY <1>1, <1>2 DEF IInv, TypeOK, Locked, LockedAt
<1>5. Held'
  BY <1>1, <1>2 DEF IInv, TypeOK, Held, HeldAt
<1>6. Sleepers'
  BY <1>1, <1>2 DEF IInv, TypeOK, Sleepers
<1>7. Tested'
  BY <1>1, <1>2 DEF IInv, TypeOK, Tested, Full
<1>8. PutIsTake'
  BY <1>2 DEF IInv, PutIsTake
<1> QED
  BY <1>3, <1>4, <1>5, <1>6, <1>7, <1>8 DEF IInv

\* An observer reads with the mutex in its hand.
LEMMA AskStep ==
    ASSUME IInv, NEW t \in Threads, Ask(t)
    PROVE  IInv'
<1> USE BlockingQueueAssumption DEF Threads
<1>1. /\ pc[t] = "test" /\ pc' = [pc EXCEPT ![t] = "unassign"]
  BY DEF Ask, Goto
<1>2. /\ kind' = kind
      /\ mutex_' = mutex_
      /\ holder_' = holder_
      /\ notEmpty_' = notEmpty_ /\ notFull_' = notFull_
      /\ queue_' = queue_ /\ putOrder' = putOrder /\ takeOrder' = takeOrder
      /\ puts' = puts
  BY DEF Ask, Goto, lockVars, condVars, dataVars
<1>3. TypeOK'
  BY <1>1, <1>2 DEF IInv, TypeOK, Labels
<1>4. Locked'
  BY <1>1, <1>2 DEF IInv, Locked, LockedAt
<1>5. Held'
  BY <1>1, <1>2 DEF IInv, Held, HeldAt
<1>6. Sleepers'
  BY <1>1, <1>2 DEF IInv, Sleepers
<1>7. Tested'
  BY <1>1, <1>2 DEF IInv, Tested, Full
<1>8. PutIsTake'
  BY <1>2 DEF IInv, PutIsTake
<1> QED
  BY <1>3, <1>4, <1>5, <1>6, <1>7, <1>8 DEF IInv

\* A put stores where there is room, so it overwrites nothing: the store adds one item
\* at the end of the queue and of the order of the puts.
LEMMA PushBackStep ==
    ASSUME IInv, NEW t \in Threads, PushBack(t)
    PROVE  IInv'
<1> USE BlockingQueueAssumption DEF Threads
<1> DEFINE e == <<t, puts[t]>>
<1>1. t \in Producers /\ pc[t] = "store" /\ pc' = [pc EXCEPT ![t] = "notify"]
  BY DEF PushBack, Goto
<1>2. /\ kind' = kind /\ mutex_' = mutex_ /\ holder_' = holder_
      /\ notEmpty_' = notEmpty_ /\ notFull_' = notFull_
      /\ takeOrder' = takeOrder /\ puts' = puts
  BY DEF PushBack, Goto, lockVars, condVars
<1>3. ~Full
  BY <1>1 DEF IInv, Tested
<1>4. queue_' = Append(queue_, e) /\ putOrder' = Append(putOrder, e)
  BY <1>3 DEF PushBack
<1>5. e \in Items
  <2>1. puts[t] \in 0..MaxItems /\ puts[t] >= 1
    BY <1>1 DEF IInv, TypeOK, Tested
  <2>2. puts[t] \in 1..MaxItems
    BY <2>1
  <2> QED
    BY <1>1, <2>2 DEF Items
<1> HIDE DEF e
<1>6. queue_ \in Seq(Items) /\ putOrder \in Seq(Items) /\ takeOrder \in Seq(Items)
  BY DEF IInv, TypeOK
<1>7. /\ queue_' \in Seq(Items) /\ putOrder' \in Seq(Items) /\ Len(queue_') = Len(queue_) + 1
      /\ takeOrder \o queue_' = Append(takeOrder \o queue_, e)
  BY <1>4, <1>5, <1>6
<1>8. TypeOK'
  BY <1>1, <1>2, <1>7 DEF IInv, TypeOK, Labels
<1>9. Locked' /\ Held'
  BY <1>1, <1>2 DEF IInv, Locked, LockedAt, Held, HeldAt
<1>10. Sleepers'
  BY <1>1, <1>2 DEF IInv, Sleepers
<1>11. \A u \in Threads : pc'[u] # "store"
  BY <1>1 DEF IInv, TypeOK, Locked, LockedAt
<1>12. Tested'
  BY <1>1, <1>2, <1>11 DEF IInv, Tested
<1>13. PutIsTake'
  <2>1. putOrder' = takeOrder' \o queue_'
    BY <1>2, <1>4, <1>7 DEF IInv, PutIsTake
  <2>2. kind = "bounded" => Len(queue_) <= maxSize /\ Len(queue_) # maxSize
    BY <1>3 DEF IInv, PutIsTake, Full
  <2> QED
    BY <1>2, <1>7, <2>1, <2>2 DEF PutIsTake
<1> QED
  BY <1>8, <1>9, <1>10, <1>12, <1>13 DEF IInv

\* A take finds an item, as the test said: it moves the front of the queue to the order
\* of the takes.
LEMMA PopFrontStep ==
    ASSUME IInv, NEW t \in Threads, PopFront(t)
    PROVE  IInv'
<1> USE BlockingQueueAssumption DEF Threads
<1>1. /\ t \in Consumers /\ pc[t] = "store"
      /\ pc' = [pc EXCEPT ![t] = IF kind = "bounded" THEN "notify" ELSE "unassign"]
  BY DEF PopFront, Goto
<1>2. /\ kind' = kind /\ mutex_' = mutex_ /\ holder_' = holder_
      /\ notEmpty_' = notEmpty_ /\ notFull_' = notFull_
      /\ putOrder' = putOrder /\ puts' = puts
  BY DEF PopFront, Goto, lockVars, condVars
<1>3. queue_' = Tail(queue_) /\ takeOrder' = Append(takeOrder, Head(queue_))
  BY DEF PopFront
<1>4. queue_ # <<>> /\ queue_ \in Seq(Items) /\ takeOrder \in Seq(Items)
  BY <1>1 DEF IInv, TypeOK, Tested
<1>5. /\ queue_' \in Seq(Items) /\ takeOrder' \in Seq(Items) /\ Len(queue_') = Len(queue_) - 1
      /\ takeOrder' \o queue_' = takeOrder \o queue_
  <2> DEFINE q == queue_
             o == takeOrder
  <2>1. q # <<>> /\ q \in Seq(Items) /\ o \in Seq(Items)
    BY <1>4
  <2> HIDE DEF q, o
  <2>2. Head(q) \in Items /\ Tail(q) \in Seq(Items) /\ Len(Tail(q)) = Len(q) - 1
    BY <2>1
  <2>3. Append(o, Head(q)) \o Tail(q) = o \o q
    BY <2>1
  <2>4. Append(o, Head(q)) \in Seq(Items)
    BY <2>1, <2>2
  <2> QED
    BY <1>3, <2>2, <2>3, <2>4 DEF q, o
<1>6. TypeOK'
  BY <1>1, <1>2, <1>5 DEF IInv, TypeOK, Labels
<1>7. Locked' /\ Held'
  BY <1>1, <1>2 DEF IInv, Locked, LockedAt, Held, HeldAt
<1>8. Sleepers'
  BY <1>1, <1>2 DEF IInv, Sleepers
<1>9. \A u \in Threads : pc'[u] # "store"
  BY <1>1 DEF IInv, TypeOK, Locked, LockedAt
<1>10. Tested'
  BY <1>1, <1>2, <1>9 DEF IInv, Tested
<1>11. PutIsTake'
  BY <1>2, <1>5 DEF IInv, PutIsTake
<1> QED
  BY <1>6, <1>7, <1>8, <1>10, <1>11 DEF IInv

\* drain takes the whole queue; nobody is between its test and its store meanwhile.
LEMMA DrainStep ==
    ASSUME IInv, NEW t \in Threads, Drain(t)
    PROVE  IInv'
<1> USE BlockingQueueAssumption DEF Threads
<1>1. pc[t] = "test" /\ kind = "unbounded" /\ pc' = [pc EXCEPT ![t] = "unassign"]
  BY DEF Drain, Goto
<1>2. /\ kind' = kind /\ mutex_' = mutex_ /\ holder_' = holder_
      /\ notEmpty_' = notEmpty_ /\ notFull_' = notFull_
      /\ putOrder' = putOrder /\ puts' = puts
  BY DEF Drain, Goto, lockVars, condVars
<1>3. queue_' = <<>> /\ takeOrder' = takeOrder \o queue_
  BY DEF Drain
<1>4. /\ queue_' \in Seq(Items) /\ takeOrder' \in Seq(Items)
      /\ takeOrder' \o queue_' = takeOrder \o queue_
  BY <1>3 DEF IInv, TypeOK
<1>5. TypeOK'
  BY <1>1, <1>2, <1>4 DEF IInv, TypeOK, Labels
<1>6. Locked' /\ Held'
  BY <1>1, <1>2 DEF IInv, Locked, LockedAt, Held, HeldAt
<1>7. Sleepers'
  BY <1>1, <1>2 DEF IInv, Sleepers
<1>8. \A u \in Threads : pc'[u] # "store"
  BY <1>1 DEF IInv, Locked, LockedAt
<1>9. Tested'
  BY <1>1, <1>2, <1>8 DEF IInv, Tested
<1>10. PutIsTake'
  BY <1>1, <1>2, <1>4 DEF IInv, PutIsTake
<1> QED
  BY <1>5, <1>6, <1>7, <1>9, <1>10 DEF IInv

\* Whom a signal may wake is asleep in that condition.
LEMMA SignalledFacts ==
    ASSUME NEW sleepers, NEW woken \in Signalled(sleepers)
    PROVE  woken \subseteq sleepers
  BY DEF Signalled

\* A notify wakes threads that are asleep: they have no mutex, and t is not among them.
LEMMA NotifyStep ==
    ASSUME IInv, NEW t \in Threads, NEW woken \in SUBSET (notEmpty_ \cup notFull_),
           pc[t] = "notify",
           pc' = [u \in Threads |-> IF u \in woken THEN "relock"
                                    ELSE IF u = t THEN "unassign" ELSE pc[u]],
           notEmpty_' = notEmpty_ \ woken, notFull_' = notFull_ \ woken,
           UNCHANGED <<kind, lockVars, dataVars, puts>>
    PROVE  IInv'
<1> USE BlockingQueueAssumption DEF Threads
<1>1. /\ kind' = kind /\ mutex_' = mutex_ /\ holder_' = holder_ /\ puts' = puts
      /\ queue_' = queue_ /\ putOrder' = putOrder /\ takeOrder' = takeOrder
  BY DEF lockVars, dataVars
<1>2. \A u \in woken : u \in Threads /\ pc[u] = "asleep"
  BY DEF IInv, TypeOK, Sleepers
<1>3. \A u \in Threads : \/ pc[u] = "asleep" /\ pc'[u] = "relock"
                         \/ u = t /\ pc'[u] = "unassign"
                         \/ u # t /\ pc'[u] = pc[u]
  BY <1>2
<1>4. pc'[t] = "unassign"
  BY <1>2
<1>5. TypeOK'
  BY <1>1 DEF IInv, TypeOK, Labels
<1>6. Locked'
  BY <1>1 DEF IInv, Locked, LockedAt
<1>7. Held'
  BY <1>1, <1>4 DEF IInv, Held, HeldAt
<1>8. Sleepers'
  <2>1. \A u \in notEmpty_' \cup notFull_' : pc'[u] = "asleep"
    BY DEF IInv, TypeOK, Sleepers
  <2> QED
    BY <2>1 DEF IInv, Sleepers
<1>9. Tested'
  BY <1>1, <1>3 DEF IInv, Tested, Full
<1>10. PutIsTake'
  BY <1>1 DEF IInv, PutIsTake
<1> QED
  BY <1>5, <1>6, <1>7, <1>8, <1>9, <1>10 DEF IInv

\* notEmpty_.notify()
LEMMA NotifyNotEmptyStep ==
    ASSUME IInv, NEW t \in Threads, NotifyNotEmpty(t)
    PROVE  IInv'
<1>1. PICK woken \in Signalled(notEmpty_) :
          /\ notEmpty_' = notEmpty_ \ woken
          /\ pc' = [u \in Threads |-> IF u \in woken THEN "relock"
                                      ELSE IF u = t THEN "unassign" ELSE pc[u]]
  BY DEF NotifyNotEmpty
<1>2. woken \subseteq notEmpty_
  BY SignalledFacts
<1>3. notFull_ \ woken = notFull_
  BY <1>2, BlockingQueueAssumption DEF IInv, TypeOK
<1>4. pc[t] = "notify" /\ notFull_' = notFull_ \ woken
      /\ UNCHANGED <<kind, lockVars, dataVars, puts>>
  BY <1>3 DEF NotifyNotEmpty
<1>5. woken \in SUBSET (notEmpty_ \cup notFull_)
  BY <1>2
<1> QED
  BY <1>1, <1>4, <1>5, NotifyStep

\* notFull_.notify()
LEMMA NotifyNotFullStep ==
    ASSUME IInv, NEW t \in Threads, NotifyNotFull(t)
    PROVE  IInv'
<1>1. PICK woken \in Signalled(notFull_) :
          /\ notFull_' = notFull_ \ woken
          /\ pc' = [u \in Threads |-> IF u \in woken THEN "relock"
                                      ELSE IF u = t THEN "unassign" ELSE pc[u]]
  BY DEF NotifyNotFull, WokenByTake
<1>2. woken \subseteq notFull_
  BY SignalledFacts
<1>3. notEmpty_ \ woken = notEmpty_
  BY <1>2, BlockingQueueAssumption DEF IInv, TypeOK
<1>4. pc[t] = "notify" /\ notEmpty_' = notEmpty_ \ woken
      /\ UNCHANGED <<kind, lockVars, dataVars, puts>>
  BY <1>3 DEF NotifyNotFull
<1>5. woken \in SUBSET (notEmpty_ \cup notFull_)
  BY <1>2
<1> QED
  BY <1>1, <1>4, <1>5, NotifyStep

-----------------------------------------------------------------------------
(* The theorems *)

\* The invariant holds at the start, and every step keeps it.
THEOREM BlockingQueueInvariant == Spec => []IInv
<1>1. Init => IInv
  <2> SUFFICES ASSUME Init PROVE IInv
    OBVIOUS
  <2> USE BlockingQueueAssumption DEF Init, QueueInit, LockInit, CondInit
  <2>1. TypeOK
    BY DEF TypeOK, Labels
  <2>2. Locked /\ Held /\ Sleepers /\ Tested
    BY DEF Locked, LockedAt, Held, HeldAt, Sleepers, Tested, Threads
  <2>3. PutIsTake
    BY DEF PutIsTake
  <2> QED
    BY <2>1, <2>2, <2>3 DEF IInv
<1>2. IInv /\ [Next]_vars => IInv'
  <2> SUFFICES ASSUME IInv, [Next]_vars PROVE IInv'
    OBVIOUS
  <2>1. ASSUME NEW t \in Threads, Call(t) \/ SpuriousWakeup(t) PROVE IInv'
    BY <2>1, CallStep, SpuriousWakeupStep
  <2>2. ASSUME NEW t \in Threads, Step(t) PROVE IInv'
    <3>1. CASE PthreadLock(t) \/ assignHolder(t) \/ unassignHolder(t) \/ PthreadUnlock(t)
      BY <3>1, PthreadLockStep, assignHolderStep, unassignHolderStep, PthreadUnlockStep
    <3>2. CASE WaitGuard(t) \/ PthreadWait(t)
      BY <3>2, WaitGuardStep, PthreadWaitStep
    <3>3. CASE Test(t) \/ Ask(t) \/ PushBack(t) \/ PopFront(t) \/ Drain(t)
      BY <3>3, TestStep, AskStep, PushBackStep, PopFrontStep, DrainStep
    <3>4. CASE NotifyNotEmpty(t) \/ NotifyNotFull(t)
      BY <3>4, NotifyNotEmptyStep, NotifyNotFullStep
    <3> QED
      BY <2>2, <3>1, <3>2, <3>3, <3>4 DEF Step
  <2>3. CASE UNCHANGED vars
    BY <2>3 DEF vars, lockVars, condVars, dataVars, IInv, TypeOK, Locked, Held, Sleepers, Tested,
       Full, PutIsTake
  <2> QED
    BY <2>1, <2>2, <2>3 DEF Next
<1> QED
  BY <1>1, <1>2, PTL DEF Spec

\* isLockedByThisThread() is true of exactly the thread between lock() and unlock(), and
\* nobody is the holder of a free mutex, for any number of threads.
THEOREM BlockingQueueHolderExact == Spec => []HolderExact
<1>1. IInv => HolderExact
  <2> SUFFICES ASSUME IInv PROVE HolderExact
    OBVIOUS
  <2>1. \A t \in Threads : pc[t] \in HeldAt => holder_ = t
    BY DEF IInv, Held
  <2>2. holder_ # None => mutex_ = holder_
    BY DEF IInv, Held, HeldAt, Locked, LockedAt
  <2> QED
    BY <2>1, <2>2 DEF HolderExact, HeldAt, isLockedByThisThread
<1> QED
  BY <1>1, BlockingQueueInvariant, PTL

\* Puts and takes are one queue: nothing is lost, doubled, overtaken or overwritten, for
\* any number of threads and items and any capacity.
THEOREM BlockingQueuePutIsTake == Spec => []PutIsTake
<1>1. IInv => PutIsTake
  BY DEF IInv
<1> QED
  BY <1>1, BlockingQueueInvariant, PTL

-----------------------------------------------------------------------------
(* Least elements and sequences *)

\* A set of natural numbers that is not empty has a least element.
LEMMA LeastElement ==
    ASSUME NEW T, T \subseteq Nat, T # {}
    PROVE  \E x \in T : \A y \in T : x <= y
<1> DEFINE R == OpToRel(<,Nat)
<1>1. IsWellFoundedOn(R, Nat)
  BY NatLessThanWellFounded, Zenon
<1>2. \A x, y \in Nat : x < y => <<x, y>> \in R
  BY Zenon DEF OpToRel
<1> HIDE DEF R
<1>3. \E x \in T : \A y \in T : ~ (<<y, x>> \in R)
  BY <1>1, WFMin, Zenon
<1>4. PICK x \in T : \A y \in T : ~ (<<y, x>> \in R)
  BY <1>3
<1>5. \A y \in T : ~ (y < x)
  BY <1>2, <1>4, Zenon
<1> QED
  BY <1>5

\* Min finds it.
LEMMA MinFacts ==
    ASSUME NEW T, T \subseteq Nat, T # {}
    PROVE  Min(T) \in T /\ \A y \in T : Min(T) <= y
<1>1. \E x \in T : \A y \in T : x <= y
  BY LeastElement
<1>2. Min(T) = CHOOSE x \in T : \A y \in T : x <= y
  BY DEF Min
<1> QED
  BY <1>1, <1>2, Zenon

\* Two sequences, one behind the other.
LEMMA ConcatFacts ==
    ASSUME NEW S, NEW s \in Seq(S), NEW t \in Seq(S)
    PROVE  /\ s \o t \in Seq(S) /\ Len(s \o t) = Len(s) + Len(t)
           /\ \A i \in 1..Len(s) : (s \o t)[i] = s[i]
           /\ \A i \in (Len(s) + 1)..(Len(s) + Len(t)) : (s \o t)[i] = t[i - Len(s)]
  OBVIOUS

-----------------------------------------------------------------------------
(* Buffer: the layout and the helpers *)

\* A record of the four fields, and what it is after an assignment to one or two of them.
IsRecord(b) == b = [size |-> b.size, bytes |-> b.bytes, reader |-> b.reader, writer |-> b.writer]

\* An assignment to one field.
LEMMA FieldFacts ==
    ASSUME NEW b, IsRecord(b), NEW x
    PROVE  /\ [b EXCEPT !.size = x]
                 = [size |-> x, bytes |-> b.bytes, reader |-> b.reader, writer |-> b.writer]
           /\ [b EXCEPT !.bytes = x]
                 = [size |-> b.size, bytes |-> x, reader |-> b.reader, writer |-> b.writer]
           /\ [b EXCEPT !.reader = x]
                 = [size |-> b.size, bytes |-> b.bytes, reader |-> x, writer |-> b.writer]
           /\ [b EXCEPT !.writer = x]
                 = [size |-> b.size, bytes |-> b.bytes, reader |-> b.reader, writer |-> x]
  BY DEF IsRecord

\* An assignment to two fields.
LEMMA TwoFieldsFacts ==
    ASSUME NEW b, IsRecord(b), NEW x, NEW y
    PROVE  /\ [b EXCEPT !.size = x, !.bytes = y]
                 = [size |-> x, bytes |-> y, reader |-> b.reader, writer |-> b.writer]
           /\ [b EXCEPT !.reader = x, !.writer = y]
                 = [size |-> b.size, bytes |-> b.bytes, reader |-> x, writer |-> y]
<1> DEFINE c == [b EXCEPT !.size = x]
           d == [b EXCEPT !.reader = x]
<1>1. /\ [b EXCEPT !.size = x, !.bytes = y] = [c EXCEPT !.bytes = y]
      /\ [b EXCEPT !.reader = x, !.writer = y] = [d EXCEPT !.writer = y]
  OBVIOUS
<1>2. /\ c = [size |-> x, bytes |-> b.bytes, reader |-> b.reader, writer |-> b.writer]
      /\ d = [size |-> b.size, bytes |-> b.bytes, reader |-> x, writer |-> b.writer]
  BY FieldFacts
<1> HIDE DEF c, d
<1>4. IsRecord(c) /\ IsRecord(d)
  BY <1>2, Zenon DEF IsRecord
<1>5. [c EXCEPT !.bytes = y] = [size |-> c.size, bytes |-> y, reader |-> c.reader, writer |-> c.writer]
  BY <1>4, FieldFacts
<1>6. [d EXCEPT !.writer = y] = [size |-> d.size, bytes |-> d.bytes, reader |-> d.reader, writer |-> y]
  BY <1>4, FieldFacts
<1> QED
  BY <1>1, <1>5, <1>6

\* The layout of a buffer.
IsBuffer(b) ==
    /\ IsRecord(b)
    /\ b.size \in Nat /\ b.reader \in Nat /\ b.writer \in Nat
    /\ b.bytes \in [0..(b.size - 1) -> Byte]
    /\ b.reader <= b.writer /\ b.writer <= b.size /\ kCheapPrepend <= b.size

\* A buffer put together from its parts.
LEMMA IsBufferFields ==
    ASSUME NEW n \in Nat, NEW m \in [0..(n - 1) -> Byte], NEW r \in Nat, NEW w \in Nat,
           r <= w, w <= n, kCheapPrepend <= n
    PROVE  IsBuffer([size |-> n, bytes |-> m, reader |-> r, writer |-> w])
  BY DEF IsBuffer, IsRecord

\* The content is as long as the indexes say and has the bytes between them.
LEMMA ContentFacts ==
    ASSUME NEW b, IsBuffer(b)
    PROVE  /\ Content(b) \in Seq(Byte) /\ Len(Content(b)) = b.writer - b.reader
           /\ \A k \in 1..(b.writer - b.reader) : Content(b)[k] = b.bytes[b.reader + k - 1]
<1>1. b.writer - b.reader \in Nat
  BY DEF IsBuffer
<1>2. \A k \in 1..(b.writer - b.reader) : b.reader + k - 1 \in 0..(b.size - 1)
  BY DEF IsBuffer
<1>3. \A k \in 1..(b.writer - b.reader) : b.bytes[b.reader + k - 1] \in Byte
  BY <1>2 DEF IsBuffer
<1>4. Content(b) = [k \in 1..(b.writer - b.reader) |-> b.bytes[b.reader + k - 1]]
  BY DEF Content, Slice, readableBytes
<1> QED
  BY <1>1, <1>3, <1>4

\* A StringPiece inside of the readable bytes is a part of the content.
LEMMA SliceFacts ==
    ASSUME NEW b, IsBuffer(b), NEW i \in Nat, NEW n \in Nat, i + n <= b.writer - b.reader
    PROVE  Slice(b, b.reader + i, n) = SubSeq(Content(b), i + 1, i + n)
<1> DEFINE c == Content(b)
<1>1. /\ c \in Seq(Byte) /\ Len(c) = b.writer - b.reader
      /\ \A k \in 1..(b.writer - b.reader) : c[k] = b.bytes[b.reader + k - 1]
  BY ContentFacts
<1>2. Slice(b, b.reader + i, n) = [k \in 1..n |-> b.bytes[b.reader + i + k - 1]]
  BY DEF Slice
<1> HIDE DEF c
<1>3. \A k \in 1..n : i + k \in 1..(b.writer - b.reader) /\ b.reader + (i + k) - 1 = b.reader + i + k - 1
  BY DEF IsBuffer
<1>4. \A k \in 1..n : b.bytes[b.reader + i + k - 1] = c[i + k]
  BY <1>1, <1>3
<1>5. SubSeq(c, i + 1, i + n) = [k \in 1..n |-> c[i + k]]
  OBVIOUS
<1> QED
  BY <1>2, <1>4, <1>5 DEF c

\* m is what std::copy makes of the n bytes of `old` when it puts data at i: the bytes in
\* the range are the new ones, the others stay.
Overwrites(m, old, n, i, data) ==
    /\ m \in [0..(n - 1) -> Byte]
    /\ \A k \in 1..Len(data) : m[i + k - 1] = data[k]
    /\ \A k \in 0..(n - 1) : k < i \/ i + Len(data) <= k => m[k] = old[k]

\* std::copy into the vector.
LEMMA StoredFacts ==
    ASSUME NEW b, IsBuffer(b), NEW i \in Nat, NEW data \in Seq(Byte), i + Len(data) <= b.size
    PROVE  /\ Stored(b, i, data) = [size |-> b.size, bytes |-> Stored(b, i, data).bytes,
                                    reader |-> b.reader, writer |-> b.writer]
           /\ Overwrites(Stored(b, i, data).bytes, b.bytes, b.size, i, data)
<1> DEFINE m == [k \in 0..(b.size - 1) |->
        IF k \in i..(i + Len(data) - 1) THEN data[k - i + 1] ELSE b.bytes[k]]
           s == Stored(b, i, data)
<1>1. s = [b EXCEPT !.bytes = m]
  BY DEF Stored
<1>2. IsRecord(b)
  BY DEF IsBuffer
<1>3. [b EXCEPT !.bytes = m] = [size |-> b.size, bytes |-> m, reader |-> b.reader, writer |-> b.writer]
  <2> HIDE DEF m
  <2> QED
    BY <1>2, FieldFacts
<1>4. Overwrites(m, b.bytes, b.size, i, data)
  <2> DEFINE n == b.size
             d == Len(data)
             old == b.bytes
  <2>1. n \in Nat /\ d \in Nat /\ i + d <= n /\ old \in [0..(n - 1) -> Byte]
    BY DEF IsBuffer
  <2> HIDE DEF n, d, old
  <2>2. /\ \A k \in 0..(n - 1) : k \in i..(i + d - 1) => k - i + 1 \in 1..d
        /\ \A k \in 0..(n - 1) : k < i \/ i + d <= k => k \notin i..(i + d - 1)
        /\ \A k \in 1..d : /\ i + k - 1 \in 0..(n - 1) /\ i + k - 1 \in i..(i + d - 1)
                          /\ (i + k - 1) - i + 1 = k
    BY <2>1
  <2>3. m = [k \in 0..(n - 1) |-> IF k \in i..(i + d - 1) THEN data[k - i + 1] ELSE old[k]]
    BY DEF n, d, old
  <2>4. \A k \in 1..d : data[k] \in Byte
    BY DEF d
  <2> HIDE DEF m
  <2>5. m \in [0..(n - 1) -> Byte]
    BY <2>1, <2>2, <2>3, <2>4
  <2>6. \A k \in 1..d : m[i + k - 1] = data[k]
    BY <2>2, <2>3
  <2>7. \A k \in 0..(n - 1) : k < i \/ i + d <= k => m[k] = old[k]
    BY <2>2, <2>3
  <2> QED
    BY <2>5, <2>6, <2>7, Zenon DEF Overwrites, n, d, old
<1> HIDE DEF m, s
<1>5. s = [size |-> b.size, bytes |-> m, reader |-> b.reader, writer |-> b.writer] /\ s.bytes = m
  BY <1>1, <1>3
<1> QED
  BY <1>4, <1>5, Zenon DEF s

\* A sequence that has the bytes between the indexes is the content.
LEMMA ContentIs ==
    ASSUME NEW b, IsBuffer(b), NEW s \in Seq(Byte), Len(s) = b.writer - b.reader,
           \A k \in 1..Len(s) : b.bytes[b.reader + k - 1] = s[k]
    PROVE  Content(b) = s
<1>1. /\ Content(b) \in Seq(Byte) /\ Len(Content(b)) = b.writer - b.reader
      /\ \A k \in 1..(b.writer - b.reader) : Content(b)[k] = b.bytes[b.reader + k - 1]
  BY ContentFacts
<1> QED
  BY <1>1

\* A fresh buffer is empty.
LEMMA FreshFacts ==
    /\ IsBuffer(Fresh) /\ Content(Fresh) = <<>>
    /\ Fresh.size = kCheapPrepend + kInitialSize
    /\ Fresh.reader = kCheapPrepend /\ Fresh.writer = kCheapPrepend
<1> USE BufferAssumption
<1> DEFINE n == kCheapPrepend + kInitialSize
           m == [k \in 0..(n - 1) |-> 0]
<1>1. n \in Nat /\ m \in [0..(n - 1) -> Byte]
  BY DEF Byte
<1>2. Fresh = [size |-> n, bytes |-> m, reader |-> kCheapPrepend, writer |-> kCheapPrepend]
  BY DEF Fresh
<1>3. n \in Nat /\ kCheapPrepend <= n
  OBVIOUS
<1> HIDE DEF n, m
<1>4. IsBuffer(Fresh)
  BY <1>1, <1>2, <1>3, IsBufferFields
<1>5. Fresh.size = n /\ Fresh.reader = kCheapPrepend /\ Fresh.writer = kCheapPrepend
  BY <1>2
<1>6. Content(Fresh) = <<>>
  BY <1>4, <1>5, ContentFacts
<1> QED
  BY <1>4, <1>5, <1>6 DEF n

\* A longer vector has the same content.
LEMMA ResizedFacts ==
    ASSUME NEW b, IsBuffer(b), NEW n \in Nat, b.size <= n
    PROVE  /\ IsBuffer(Resized(b, n)) /\ Content(Resized(b, n)) = Content(b)
           /\ Resized(b, n).size = n /\ Resized(b, n).reader = b.reader /\ Resized(b, n).writer = b.writer
<1> DEFINE m == [k \in 0..(n - 1) |-> IF k < b.size THEN b.bytes[k] ELSE 0]
           e == Resized(b, n)
<1>1. IsRecord(b)
  BY DEF IsBuffer
<1>2. e = [size |-> n, bytes |-> m, reader |-> b.reader, writer |-> b.writer]
  <2>1. e = [b EXCEPT !.size = n, !.bytes = m]
    BY DEF Resized
  <2> HIDE DEF m, e
  <2> QED
    BY <1>1, <2>1, TwoFieldsFacts
<1>3. \A k \in 0..(n - 1) : m[k] \in Byte
  BY BufferAssumption DEF IsBuffer, Byte
<1>4. m \in [0..(n - 1) -> Byte]
  BY <1>3
<1>5. \A k \in 0..(b.size - 1) : m[k] = b.bytes[k]
  BY DEF IsBuffer
<1> HIDE DEF m, e
<1>6. e.size = n /\ e.bytes = m /\ e.reader = b.reader /\ e.writer = b.writer
  BY <1>2
<1>7. IsBuffer(e)
  BY <1>2, <1>4, IsBufferFields, BufferAssumption DEF IsBuffer
<1>8. Content(e) = Content(b)
  <2>1. /\ Content(b) \in Seq(Byte) /\ Len(Content(b)) = b.writer - b.reader
        /\ \A k \in 1..(b.writer - b.reader) : Content(b)[k] = b.bytes[b.reader + k - 1]
    BY ContentFacts
  <2>2. \A k \in 1..(b.writer - b.reader) : b.reader + k - 1 \in 0..(b.size - 1)
    BY DEF IsBuffer
  <2>3. \A k \in 1..Len(Content(b)) : e.bytes[e.reader + k - 1] = Content(b)[k]
    BY <1>5, <1>6, <2>1, <2>2
  <2> QED
    BY <1>6, <1>7, <2>1, <2>3, ContentIs
<1> QED
  BY <1>6, <1>7, <1>8 DEF e

\* The content survives the move to the front, over whatever it overlaps with.
LEMMA MovedFacts ==
    ASSUME NEW b, IsBuffer(b), kCheapPrepend + (b.writer - b.reader) <= b.size
    PROVE  /\ IsBuffer(Moved(b)) /\ Content(Moved(b)) = Content(b)
           /\ Moved(b).size = b.size /\ Moved(b).reader = kCheapPrepend
           /\ Moved(b).writer = kCheapPrepend + (b.writer - b.reader)
<1> DEFINE s == Stored(b, kCheapPrepend, Content(b))
           e == Moved(b)
           w == kCheapPrepend + (b.writer - b.reader)
<1>1. /\ Content(b) \in Seq(Byte) /\ Len(Content(b)) = b.writer - b.reader
  BY ContentFacts
<1>2. kCheapPrepend \in Nat /\ w \in Nat
  BY BufferAssumption DEF IsBuffer
<1>3. /\ s = [size |-> b.size, bytes |-> s.bytes, reader |-> b.reader, writer |-> b.writer]
      /\ Overwrites(s.bytes, b.bytes, b.size, kCheapPrepend, Content(b))
  BY <1>1, <1>2, StoredFacts
<1>4. e = [s EXCEPT !.reader = kCheapPrepend, !.writer = w]
  BY DEF Moved, readableBytes
<1> HIDE DEF s, e, w
<1>5. s.size = b.size /\ s.reader = b.reader /\ s.writer = b.writer
  BY <1>3
<1>6. IsRecord(s)
  BY <1>3, Zenon DEF IsRecord
<1>7. e = [size |-> b.size, bytes |-> s.bytes, reader |-> kCheapPrepend, writer |-> w]
  BY <1>4, <1>5, <1>6, TwoFieldsFacts
<1>8. e.size = b.size /\ e.bytes = s.bytes /\ e.reader = kCheapPrepend /\ e.writer = w
  BY <1>7
<1>9. /\ s.bytes \in [0..(b.size - 1) -> Byte]
      /\ \A k \in 1..Len(Content(b)) : s.bytes[kCheapPrepend + k - 1] = Content(b)[k]
  BY <1>3, Zenon DEF Overwrites
<1>10. IsBuffer(e)
  <2>1. b.size \in Nat /\ kCheapPrepend <= w /\ w <= b.size /\ kCheapPrepend <= b.size
    BY <1>2 DEF IsBuffer, w
  <2> QED
    BY <1>2, <1>7, <1>9, <2>1, IsBufferFields
<1>11. Content(e) = Content(b)
  <2>1. \A k \in 1..Len(Content(b)) : e.bytes[e.reader + k - 1] = Content(b)[k]
    BY <1>8, <1>9
  <2>2. Len(Content(b)) = e.writer - e.reader
    BY <1>1, <1>2, <1>8 DEF w
  <2> QED
    BY <1>1, <1>10, <2>1, <2>2, ContentIs
<1> QED
  BY <1>8, <1>10, <1>11 DEF e, w

\* ensureWritableBytes makes room and keeps the content; it takes a longer vector only if
\* content, room in front and len do not fit.
LEMMA EnsureFacts ==
    ASSUME NEW b, IsBuffer(b), NEW len \in Nat, NEW e, e = ensureWritableBytes(b, len)
    PROVE  /\ IsBuffer(e) /\ Content(e) = Content(b) /\ e.writer - e.reader = b.writer - b.reader
           /\ e.size - e.writer >= len /\ e.size >= b.size
           /\ e.reader = b.reader \/ e.reader = kCheapPrepend
           /\ e.size > b.size => kCheapPrepend + (b.writer - b.reader) + len > b.size
<1>0. /\ b.size \in Nat /\ b.reader \in Nat /\ b.writer \in Nat /\ kCheapPrepend \in Nat
      /\ b.reader <= b.writer /\ b.writer <= b.size
  BY BufferAssumption DEF IsBuffer
<1>1. CASE b.size - b.writer >= len
  <2>1. e = b
    BY <1>0, <1>1 DEF ensureWritableBytes, writableBytes
  <2> QED
    BY <1>0, <1>1, <2>1
<1>2. CASE b.size - b.writer < len /\ Tight(b, len)
  <2>1. e = Resized(b, b.writer + len)
    BY <1>2 DEF ensureWritableBytes, writableBytes, makeSpace
  <2>2. kCheapPrepend + (b.writer - b.reader) + len > b.size
    BY <1>0, <1>2 DEF Tight, writableBytes, prependableBytes
  <2>3. b.writer + len \in Nat /\ b.size <= b.writer + len
    BY <1>0, <1>2
  <2>4. /\ IsBuffer(e) /\ Content(e) = Content(b)
        /\ e.size = b.writer + len /\ e.reader = b.reader /\ e.writer = b.writer
    BY <2>1, <2>3, ResizedFacts
  <2> QED
    BY <1>0, <2>2, <2>3, <2>4
<1>3. CASE b.size - b.writer < len /\ ~Tight(b, len)
  <2>1. e = Moved(b)
    BY <1>3 DEF ensureWritableBytes, writableBytes, makeSpace
  <2>2. kCheapPrepend + (b.writer - b.reader) + len <= b.size
    BY <1>0, <1>3 DEF Tight, writableBytes, prependableBytes
  <2>3. kCheapPrepend + (b.writer - b.reader) <= b.size
    BY <1>0, <2>2
  <2>4. /\ IsBuffer(e) /\ Content(e) = Content(b) /\ e.size = b.size
        /\ e.reader = kCheapPrepend /\ e.writer = kCheapPrepend + (b.writer - b.reader)
    BY <2>1, <2>3, MovedFacts
  <2> QED
    BY <1>0, <2>2, <2>4
<1> QED
  BY <1>0, <1>1, <1>2, <1>3

\* Bytes that are stored behind the content and counted as written are appended to it.
LEMMA WrittenFacts ==
    ASSUME NEW e, IsBuffer(e), NEW data \in Seq(Byte), e.writer + Len(data) <= e.size,
           NEW a, IsRecord(a),
           a.size = e.size, a.reader = e.reader, a.writer = e.writer + Len(data),
           Overwrites(a.bytes, e.bytes, e.size, e.writer, data)
    PROVE  IsBuffer(a) /\ Content(a) = Content(e) \o data
<1> DEFINE c == Content(e)
           s == c \o data
           d == Len(data)
           m == a.bytes
           r == e.reader
           w == e.writer
           z == e.size
<1>1. /\ z \in Nat /\ r \in Nat /\ w \in Nat /\ d \in Nat
      /\ r <= w /\ w + d <= z /\ kCheapPrepend <= z
  BY DEF IsBuffer
<1>2. /\ c \in Seq(Byte) /\ Len(c) = w - r
      /\ \A k \in 1..(w - r) : c[k] = e.bytes[r + k - 1]
  BY ContentFacts, Zenon
<1>3. /\ m \in [0..(z - 1) -> Byte]
      /\ \A k \in 1..d : m[w + k - 1] = data[k]
      /\ \A k \in 0..(z - 1) : k < w \/ w + d <= k => m[k] = e.bytes[k]
  BY Zenon DEF Overwrites
<1>4. a = [size |-> z, bytes |-> m, reader |-> r, writer |-> w + d]
  BY Zenon DEF IsRecord
<1> HIDE DEF c
<1>5. /\ s \in Seq(Byte) /\ Len(s) = Len(c) + d
      /\ \A k \in 1..Len(c) : s[k] = c[k]
      /\ \A k \in (Len(c) + 1)..(Len(c) + d) : s[k] = data[k - Len(c)]
  BY <1>2, ConcatFacts, Zenon
<1> HIDE DEF s, d, m, r, w, z
<1>6. w + d \in Nat /\ r <= w + d
  BY <1>1
<1>7. IsBuffer(a)
  BY <1>1, <1>3, <1>4, <1>6, IsBufferFields
<1>8. ASSUME NEW k \in 1..(w - r) PROVE m[r + k - 1] = s[k]
  <2>1. r + k - 1 \in 0..(z - 1) /\ r + k - 1 < w
    BY <1>1
  <2>2. m[r + k - 1] = e.bytes[r + k - 1]
    BY <1>3, <2>1
  <2> QED
    BY <1>2, <1>5, <2>2
<1>9. ASSUME NEW k \in (w - r + 1)..(w - r + d) PROVE m[r + k - 1] = s[k]
  <2>1. k - (w - r) \in 1..d /\ w + (k - (w - r)) - 1 = r + k - 1
    BY <1>1
  <2>2. m[r + k - 1] = data[k - (w - r)]
    BY <1>3, <2>1
  <2> QED
    BY <1>2, <1>5, <2>2
<1>10. \A k \in 1..Len(s) : m[r + k - 1] = s[k]
  <2>1. Len(s) = w - r + d
    BY <1>2, <1>5
  <2>2. \A k \in 1..(w - r + d) : k \in 1..(w - r) \/ k \in (w - r + 1)..(w - r + d)
    BY <1>1
  <2> QED
    BY <1>8, <1>9, <2>1, <2>2
<1>11. a.writer = w + d /\ a.reader = r /\ a.bytes = m
  BY DEF d, m, r, w
<1>12. Len(s) = a.writer - a.reader
  BY <1>1, <1>2, <1>5, <1>11
<1>13. \A k \in 1..Len(s) : a.bytes[a.reader + k - 1] = s[k]
  BY <1>10, <1>11, Zenon
<1> QED
  BY <1>5, <1>7, <1>12, <1>13, ContentIs DEF s, c

\* append appends, and makes the vector longer only if it must.
LEMMA AppendedFacts ==
    ASSUME NEW b, IsBuffer(b), NEW data \in Seq(Byte), NEW a, a = Appended(b, data)
    PROVE  /\ IsBuffer(a) /\ Content(a) = Content(b) \o data
           /\ a.writer - a.reader = b.writer - b.reader + Len(data)
           /\ a.reader = b.reader \/ a.reader = kCheapPrepend
           /\ a.size > b.size => kCheapPrepend + (b.writer - b.reader) + Len(data) > b.size
<1> DEFINE e == ensureWritableBytes(b, Len(data))
           s == Stored(e, e.writer, data)
<1>2. /\ IsBuffer(e) /\ Content(e) = Content(b) /\ e.writer - e.reader = b.writer - b.reader
      /\ e.size - e.writer >= Len(data) /\ e.size >= b.size
      /\ e.reader = b.reader \/ e.reader = kCheapPrepend
      /\ e.size > b.size => kCheapPrepend + (b.writer - b.reader) + Len(data) > b.size
  BY EnsureFacts
<1>3. a = [s EXCEPT !.writer = s.writer + Len(data)]
  BY DEF Appended, hasWritten
<1> HIDE DEF e
<1>4. e.size \in Nat /\ e.writer \in Nat /\ e.reader \in Nat /\ e.writer + Len(data) <= e.size
  BY <1>2 DEF IsBuffer
<1>5. /\ s = [size |-> e.size, bytes |-> s.bytes, reader |-> e.reader, writer |-> e.writer]
      /\ Overwrites(s.bytes, e.bytes, e.size, e.writer, data)
  BY <1>2, <1>4, StoredFacts
<1> HIDE DEF s
<1>6. s.size = e.size /\ s.reader = e.reader /\ s.writer = e.writer
  BY <1>5
<1>7. IsRecord(s)
  BY <1>5, Zenon DEF IsRecord
<1>8. a = [size |-> e.size, bytes |-> s.bytes, reader |-> e.reader, writer |-> e.writer + Len(data)]
  <2>1. a = [s EXCEPT !.writer = e.writer + Len(data)]
    BY <1>3, <1>6, Zenon
  <2> QED
    BY <1>6, <1>7, <2>1, FieldFacts, Zenon
<1>9. /\ a.size = e.size /\ a.reader = e.reader /\ a.writer = e.writer + Len(data)
      /\ a.bytes = s.bytes
  BY <1>8
<1>10. IsRecord(a)
  BY <1>8, Zenon DEF IsRecord
<1>11. IsBuffer(a) /\ Content(a) = Content(e) \o data
  BY <1>2, <1>4, <1>5, <1>9, <1>10, WrittenFacts
<1> QED
  BY <1>2, <1>4, <1>9, <1>11

\* What BufferOutputStream leaves of a block that it was given: the rest is handed back.
Filled(e, data) ==
    Unwritten(Stored(hasWritten(e, writableBytes(e)), e.writer, data), writableBytes(e) - Len(data))

\* What is written to the block that BufferOutputStream hands out is appended, and the rest
\* of the block is not.
LEMMA FilledFacts ==
    ASSUME NEW e, IsBuffer(e), NEW data \in Seq(Byte), Len(data) <= e.size - e.writer
    PROVE  /\ IsBuffer(Filled(e, data)) /\ Content(Filled(e, data)) = Content(e) \o data
           /\ Filled(e, data).size = e.size /\ Filled(e, data).reader = e.reader
           /\ Filled(e, data).writer = e.writer + Len(data)
<1> DEFINE f == hasWritten(e, writableBytes(e))
           s == Stored(f, e.writer, data)
           a == Filled(e, data)
<1>3. /\ e.size \in Nat /\ e.writer \in Nat /\ e.reader \in Nat /\ e.reader <= e.writer /\ e.writer <= e.size
      /\ kCheapPrepend <= e.size /\ e.bytes \in [0..(e.size - 1) -> Byte] /\ IsRecord(e)
      /\ e.writer + Len(data) <= e.size
  BY DEF IsBuffer
<1>4. f = [size |-> e.size, bytes |-> e.bytes, reader |-> e.reader, writer |-> e.size]
  <2>1. f = [e EXCEPT !.writer = e.writer + (e.size - e.writer)]
    BY DEF hasWritten, writableBytes
  <2>2. e.writer + (e.size - e.writer) = e.size
    BY <1>3
  <2>3. f = [e EXCEPT !.writer = e.size]
    BY <2>1, <2>2, Zenon
  <2> HIDE DEF f
  <2> QED
    BY <1>3, <2>3, FieldFacts
<1>5. a = [s EXCEPT !.writer = s.writer - ((e.size - e.writer) - Len(data))]
  BY DEF Filled, Unwritten, writableBytes
<1> HIDE DEF f, a
<1>6. f.size = e.size /\ f.bytes = e.bytes /\ f.reader = e.reader /\ f.writer = e.size
  BY <1>4
<1>7. IsBuffer(f)
  <2>1. e.reader <= e.size /\ e.size <= e.size
    BY <1>3
  <2> QED
    BY <1>3, <1>4, <2>1, IsBufferFields
<1>8. /\ s = [size |-> f.size, bytes |-> s.bytes, reader |-> f.reader, writer |-> f.writer]
      /\ Overwrites(s.bytes, f.bytes, f.size, e.writer, data)
  BY <1>3, <1>6, <1>7, StoredFacts
<1> HIDE DEF s
<1>9. s.size = e.size /\ s.reader = e.reader /\ s.writer = e.size
  BY <1>6, <1>8
<1>10. IsRecord(s)
  BY <1>8, Zenon DEF IsRecord
<1>11. e.size - ((e.size - e.writer) - Len(data)) = e.writer + Len(data)
  BY <1>3
<1>12. a = [size |-> e.size, bytes |-> s.bytes, reader |-> e.reader, writer |-> e.writer + Len(data)]
  <2>1. a = [s EXCEPT !.writer = e.writer + Len(data)]
    BY <1>5, <1>9, <1>11, Zenon
  <2> QED
    BY <1>9, <1>10, <2>1, FieldFacts, Zenon
<1>13. Overwrites(s.bytes, e.bytes, e.size, e.writer, data)
  BY <1>6, <1>8, Zenon
<1>14. /\ a.size = e.size /\ a.reader = e.reader /\ a.writer = e.writer + Len(data)
       /\ a.bytes = s.bytes
  BY <1>12
<1>15. IsRecord(a)
  BY <1>12, Zenon DEF IsRecord
<1>16. IsBuffer(a) /\ Content(a) = Content(e) \o data
  <2>1. Overwrites(a.bytes, e.bytes, e.size, e.writer, data)
    BY <1>13, <1>14, Zenon
  <2> HIDE DEF s
  <2> QED
    BY <1>3, <1>14, <1>15, <2>1, WrittenFacts
<1> QED
  BY <1>14, <1>16 DEF a

\* The same for the block that Next asks for.
LEMMA OutputFacts ==
    ASSUME NEW b, IsBuffer(b), NEW e, e = ensureWritableBytes(b, kBlock),
           NEW data \in Seq(Byte), Len(data) <= writableBytes(e), NEW a, a = Filled(e, data)
    PROVE  /\ IsBuffer(a) /\ Content(a) = Content(b) \o data
           /\ a.writer - a.reader = b.writer - b.reader + Len(data)
           /\ a.size = e.size
           /\ a.reader = b.reader \/ a.reader = kCheapPrepend
           /\ a.size > b.size => kCheapPrepend + (b.writer - b.reader) + kBlock > b.size
<1>1. kBlock \in Nat /\ Len(data) \in Nat /\ Len(data) <= e.size - e.writer
  BY BufferAssumption DEF writableBytes
<1>2. /\ IsBuffer(e) /\ Content(e) = Content(b) /\ e.writer - e.reader = b.writer - b.reader
      /\ e.reader = b.reader \/ e.reader = kCheapPrepend
      /\ e.size > b.size => kCheapPrepend + (b.writer - b.reader) + kBlock > b.size
  BY <1>1, EnsureFacts
<1>3. /\ IsBuffer(a) /\ Content(a) = Content(e) \o data
      /\ a.size = e.size /\ a.reader = e.reader /\ a.writer = e.writer + Len(data)
  BY <1>1, <1>2, FilledFacts
<1>4. e.writer \in Nat /\ e.reader \in Nat
  BY <1>2 DEF IsBuffer
<1> QED
  BY <1>2, <1>3, <1>4

\* prepend puts bytes in front of the content.
LEMMA PrependedFacts ==
    ASSUME NEW b, IsBuffer(b), NEW data \in Seq(Byte), Len(data) <= b.reader, NEW a, a = Prepended(b, data)
    PROVE  /\ IsBuffer(a) /\ Content(a) = data \o Content(b) /\ a.size = b.size
<1> DEFINE i == b.reader - Len(data)
           s == Stored(b, i, data)
<1>1. /\ b.size \in Nat /\ b.reader \in Nat /\ b.writer \in Nat /\ Len(data) \in Nat /\ i \in Nat
      /\ b.reader <= b.writer /\ b.writer <= b.size /\ kCheapPrepend <= b.size
      /\ i + Len(data) <= b.size /\ i <= b.writer /\ i + Len(data) = b.reader /\ b.reader - Len(data) = i
  BY DEF IsBuffer
<1> HIDE DEF i
<1>2. /\ s = [size |-> b.size, bytes |-> s.bytes, reader |-> b.reader, writer |-> b.writer]
      /\ Overwrites(s.bytes, b.bytes, b.size, i, data)
  BY <1>1, StoredFacts
<1>3. a = [s EXCEPT !.reader = s.reader - Len(data)]
  BY DEF Prepended, i
<1> HIDE DEF s
<1>4. s.size = b.size /\ s.reader = b.reader /\ s.writer = b.writer
  BY <1>2
<1>5. IsRecord(s)
  BY <1>2, Zenon DEF IsRecord
<1>6. a = [size |-> b.size, bytes |-> s.bytes, reader |-> i, writer |-> b.writer]
  <2>1. a = [s EXCEPT !.reader = i]
    BY <1>1, <1>3, <1>4, Zenon
  <2> QED
    BY <1>4, <1>5, <2>1, FieldFacts, Zenon
<1> DEFINE c == Content(b)
           t == data \o c
           d == Len(data)
           m == s.bytes
           r == b.reader
           w == b.writer
           z == b.size
<1>7. a.size = z /\ a.bytes = m /\ a.reader = i /\ a.writer = w
  BY <1>6
<1>8. /\ z \in Nat /\ r \in Nat /\ w \in Nat /\ d \in Nat /\ i \in Nat
      /\ r <= w /\ w <= z /\ i <= w /\ i + d = r /\ kCheapPrepend <= z
  BY <1>1
<1>9. /\ m \in [0..(z - 1) -> Byte]
      /\ \A k \in 1..d : m[i + k - 1] = data[k]
      /\ \A k \in 0..(z - 1) : k < i \/ i + d <= k => m[k] = b.bytes[k]
  BY <1>2, Zenon DEF Overwrites
<1>10. IsBuffer(a)
  BY <1>6, <1>8, <1>9, IsBufferFields
<1>11. /\ c \in Seq(Byte) /\ Len(c) = w - r
       /\ \A k \in 1..(w - r) : c[k] = b.bytes[r + k - 1]
  BY ContentFacts, Zenon
<1> HIDE DEF c
<1>12. /\ t \in Seq(Byte) /\ Len(t) = d + Len(c)
       /\ \A k \in 1..d : t[k] = data[k]
       /\ \A k \in (d + 1)..(d + Len(c)) : t[k] = c[k - d]
  BY <1>11, ConcatFacts, Zenon
<1> HIDE DEF t, d, m, r, w, z
<1>13. ASSUME NEW k \in (d + 1)..(d + (w - r)) PROVE m[i + k - 1] = t[k]
  <2>1. /\ i + k - 1 \in 0..(z - 1) /\ i + d <= i + k - 1
        /\ k - d \in 1..(w - r) /\ i + k - 1 = r + (k - d) - 1
    BY <1>8
  <2>2. m[i + k - 1] = b.bytes[r + (k - d) - 1]
    BY <1>9, <2>1
  <2> QED
    BY <1>11, <1>12, <2>1, <2>2
<1>14. \A k \in 1..Len(t) : m[i + k - 1] = t[k]
  <2>1. Len(t) = d + (w - r)
    BY <1>11, <1>12
  <2>2. \A k \in 1..(d + (w - r)) : k \in 1..d \/ k \in (d + 1)..(d + (w - r))
    BY <1>8
  <2> QED
    BY <1>9, <1>12, <1>13, <2>1, <2>2
<1>15. Len(t) = a.writer - a.reader
  BY <1>7, <1>8, <1>11, <1>12
<1>16. \A k \in 1..Len(t) : a.bytes[a.reader + k - 1] = t[k]
  BY <1>7, <1>14, Zenon
<1>17. IsBuffer(a) /\ Content(a) = t
  BY <1>10, <1>12, <1>15, <1>16, ContentIs
<1> QED
  BY <1>7, <1>17 DEF t, c, z

\* A part of the content, by its bytes.
LEMMA PartIs ==
    ASSUME NEW b, IsBuffer(b), NEW i \in Nat, NEW n \in Nat, i + n <= b.writer - b.reader,
           NEW a, IsBuffer(a), a.bytes = b.bytes, a.reader = b.reader + i, a.writer = b.reader + i + n
    PROVE  Content(a) = SubSeq(Content(b), i + 1, i + n)
<1>1. b.reader \in Nat
  BY DEF IsBuffer
<1>2. a.writer - a.reader = n
  BY <1>1
<1>3. Content(a) = Slice(b, b.reader + i, n)
  BY <1>2 DEF Content, readableBytes, Slice
<1> QED
  BY <1>3, SliceFacts

\* The bytes that peek shows are the first ones of the content.
LEMMA FrontFacts ==
    ASSUME NEW b, IsBuffer(b), NEW n \in Nat, n <= b.writer - b.reader
    PROVE  Slice(b, b.reader, n) = SubSeq(Content(b), 1, n)
<1>1. b.reader + 0 = b.reader /\ 0 + n = n /\ 0 + 1 = 1 /\ 0 \in Nat /\ 0 + n <= b.writer - b.reader
  BY DEF IsBuffer
<1>2. Slice(b, b.reader + 0, n) = SubSeq(Content(b), 0 + 1, 0 + n)
  BY SliceFacts
<1> QED
  BY <1>1, <1>2

\* retrieveAll leaves nothing.
LEMMA AllRetrievedFacts ==
    ASSUME NEW b, IsBuffer(b), NEW a, a = AllRetrieved(b)
    PROVE  IsBuffer(a) /\ Content(a) = <<>> /\ a.size = b.size /\ a.reader = kCheapPrepend
<1>1. IsRecord(b)
  BY DEF IsBuffer
<1>2. a = [b EXCEPT !.reader = kCheapPrepend, !.writer = kCheapPrepend]
  BY DEF AllRetrieved
<1>3. a = [size |-> b.size, bytes |-> b.bytes, reader |-> kCheapPrepend, writer |-> kCheapPrepend]
  BY <1>1, <1>2, TwoFieldsFacts
<1>4. a.size = b.size /\ a.bytes = b.bytes /\ a.reader = kCheapPrepend /\ a.writer = kCheapPrepend
  BY <1>3
<1>5. IsRecord(a)
  BY <1>3, Zenon DEF IsRecord
<1>6. IsBuffer(a)
  BY <1>4, <1>5, BufferAssumption DEF IsBuffer
<1>7. Content(a) = <<>>
  BY <1>4, <1>6, ContentFacts, BufferAssumption
<1> QED
  BY <1>4, <1>6, <1>7

\* retrieve takes the first bytes away; with nothing left the indexes go back.
LEMMA RetrievedFacts ==
    ASSUME NEW b, IsBuffer(b), NEW len \in Nat, len <= b.writer - b.reader, NEW a, a = Retrieved(b, len)
    PROVE  /\ IsBuffer(a) /\ Content(a) = SubSeq(Content(b), len + 1, Len(Content(b)))
           /\ a.size = b.size
           /\ a.reader >= b.reader \/ a.reader = kCheapPrepend
<1>1. /\ IsRecord(b) /\ b.reader \in Nat /\ b.writer \in Nat /\ b.reader <= b.writer
      /\ Content(b) \in Seq(Byte) /\ Len(Content(b)) = b.writer - b.reader
  BY ContentFacts DEF IsBuffer
<1>2. CASE len < b.writer - b.reader
  <2>1. a = [b EXCEPT !.reader = b.reader + len]
    BY <1>2 DEF Retrieved, readableBytes
  <2>2. a = [size |-> b.size, bytes |-> b.bytes, reader |-> b.reader + len, writer |-> b.writer]
    BY <1>1, <2>1, FieldFacts
  <2>3. a.size = b.size /\ a.bytes = b.bytes /\ a.reader = b.reader + len /\ a.writer = b.writer
    BY <2>2
  <2>4. IsRecord(a)
    BY <2>2, Zenon DEF IsRecord
  <2>5. IsBuffer(a)
    BY <2>3, <2>4 DEF IsBuffer
  <2> DEFINE n == b.writer - b.reader - len
  <2>6. /\ n \in Nat /\ len + n = Len(Content(b))
        /\ len + n <= b.writer - b.reader /\ b.writer = b.reader + len + n
    BY <1>1
  <2> HIDE DEF n
  <2>7. Content(a) = SubSeq(Content(b), len + 1, len + n)
    BY <2>3, <2>5, <2>6, PartIs
  <2> QED
    BY <1>1, <2>3, <2>5, <2>6, <2>7
<1>3. CASE len = b.writer - b.reader
  <2>1. a = AllRetrieved(b)
    BY <1>3 DEF Retrieved, readableBytes
  <2>2. IsBuffer(a) /\ Content(a) = <<>> /\ a.size = b.size /\ a.reader = kCheapPrepend
    BY <2>1, AllRetrievedFacts
  <2>3. SubSeq(Content(b), len + 1, Len(Content(b))) = <<>>
    BY <1>1, <1>3
  <2> QED
    BY <2>2, <2>3
<1> QED
  BY <1>1, <1>2, <1>3

\* unwrite takes the last bytes away.
LEMMA UnwrittenFacts ==
    ASSUME NEW b, IsBuffer(b), NEW len \in Nat, len <= b.writer - b.reader, NEW a, a = Unwritten(b, len)
    PROVE  /\ IsBuffer(a) /\ Content(a) = SubSeq(Content(b), 1, Len(Content(b)) - len)
           /\ a.size = b.size /\ a.reader = b.reader
<1>1. /\ IsRecord(b) /\ b.reader \in Nat /\ b.writer \in Nat /\ b.reader <= b.writer
      /\ Content(b) \in Seq(Byte) /\ Len(Content(b)) = b.writer - b.reader
  BY ContentFacts DEF IsBuffer
<1>2. a = [b EXCEPT !.writer = b.writer - len]
  BY DEF Unwritten
<1>3. a = [size |-> b.size, bytes |-> b.bytes, reader |-> b.reader, writer |-> b.writer - len]
  BY <1>1, <1>2, FieldFacts
<1>4. a.size = b.size /\ a.bytes = b.bytes /\ a.reader = b.reader /\ a.writer = b.writer - len
  BY <1>3
<1>5. IsRecord(a)
  BY <1>3, Zenon DEF IsRecord
<1>6. IsBuffer(a)
  BY <1>4, <1>5 DEF IsBuffer
<1> DEFINE n == b.writer - b.reader - len
<1>7. n \in Nat /\ n = Len(Content(b)) - len /\ n <= b.writer - b.reader /\ (b.writer - len) - b.reader = n
  BY <1>1
<1> HIDE DEF n
<1>8. Content(a) = Slice(b, b.reader, n)
  BY <1>4, <1>7 DEF Content, readableBytes, Slice
<1>9. Content(a) = SubSeq(Content(b), 1, n)
  BY <1>7, <1>8, FrontFacts
<1> QED
  BY <1>4, <1>6, <1>7, <1>9

\* A search between the indexes finds what a search in the content finds.
LEMMA SearchFacts ==
    ASSUME IsBuffer(buf), NEW from \in Nat, NEW pattern \in Seq(Byte)
    PROVE  Search(buf, from, pattern) = BQ!FirstAt(from, pattern)
<1> DEFINE n == Len(pattern)
           there == {i \in from..(readableBytes(buf) - n) : Slice(buf, buf.reader + i, n) = pattern}
           here == {i \in from..(Len(Content(buf)) - n) : SubSeq(Content(buf), i + 1, i + n) = pattern}
<1>1. Len(Content(buf)) = readableBytes(buf) /\ readableBytes(buf) = buf.writer - buf.reader
  BY ContentFacts DEF readableBytes
<1>2. readableBytes(buf) \in Nat /\ n \in Nat
  BY <1>1
<1>3. \A i \in from..(readableBytes(buf) - n) :
         Slice(buf, buf.reader + i, n) = SubSeq(Content(buf), i + 1, i + n)
  <2>1. \A i \in from..(readableBytes(buf) - n) : i \in Nat /\ i + n <= buf.writer - buf.reader
    BY <1>1, <1>2
  <2> QED
    BY <1>2, <2>1, SliceFacts, Zenon
<1>4. there = here
  BY <1>1, <1>3
<1>5. Search(buf, from, pattern) = IF there = {} THEN -1 ELSE CHOOSE i \in there : \A j \in there : i <= j
  BY DEF Search
<1>6. BQ!FirstAt(from, pattern) = IF here = {} THEN -1 ELSE CHOOSE i \in here : \A j \in here : i <= j
  BY DEF BQ!FirstAt
<1> HIDE DEF there, here
<1> QED
  BY <1>4, <1>5, <1>6

-----------------------------------------------------------------------------
(* Buffer: StringPiece and the lexicographic order *)

\* memcmp looks at the first byte in which the two differ.
LEMMA MemcmpFacts ==
    ASSUME NEW p \in Seq(Byte), NEW x \in Seq(Byte), NEW n \in Nat, n <= Len(p), n <= Len(x)
    PROVE  \/ memcmp(p, x, n) = 0 /\ \A i \in 1..n : p[i] = x[i]
           \/ /\ memcmp(p, x, n) = -1
              /\ \E d \in 1..n : p[d] < x[d] /\ \A i \in 1..(d - 1) : p[i] = x[i]
           \/ /\ memcmp(p, x, n) = 1
              /\ \E d \in 1..n : x[d] < p[d] /\ \A i \in 1..(d - 1) : p[i] = x[i]
<1> DEFINE D == {i \in 1..n : p[i] # x[i]}
<1>1. memcmp(p, x, n) = IF D = {} THEN 0 ELSE IF p[Min(D)] < x[Min(D)] THEN -1 ELSE 1
  BY DEF memcmp
<1>2. CASE D = {}
  BY <1>1, <1>2
<1>3. CASE D # {}
  <2>1. D \subseteq Nat
    OBVIOUS
  <2> DEFINE d == Min(D)
  <2>2. d \in D /\ \A y \in D : d <= y
    BY <1>3, <2>1, MinFacts
  <2> HIDE DEF d
  <2>3. d \in 1..n /\ p[d] # x[d] /\ \A i \in 1..(d - 1) : p[i] = x[i]
    BY <2>2
  <2>4. p[d] \in Int /\ x[d] \in Int
    <3>1. d \in 1..Len(p) /\ d \in 1..Len(x)
      BY <2>3
    <3>2. p[d] \in Byte /\ x[d] \in Byte
      BY <3>1
    <3> QED
      BY <3>2 DEF Byte
  <2>5. memcmp(p, x, n) = IF p[d] < x[d] THEN -1 ELSE 1
    BY <1>1, <1>3 DEF d
  <2> HIDE DEF D
  <2> QED
    BY <2>3, <2>4, <2>5
<1> QED
  BY <1>2, <1>3

\* The length that both have.
LEMMA CommonFacts ==
    ASSUME NEW p \in Seq(Byte), NEW x \in Seq(Byte)
    PROVE  Common(p, x) = IF Len(p) <= Len(x) THEN Len(p) ELSE Len(x)
<1> DEFINE T == {Len(p), Len(x)}
<1>1. T \subseteq Nat /\ T # {} /\ Len(p) \in T /\ Len(x) \in T
  OBVIOUS
<1>2. Min(T) \in T /\ \A y \in T : Min(T) <= y
  BY <1>1, MinFacts
<1>3. Common(p, x) = Min(T)
  BY DEF Common
<1>4. Len(p) \in Nat /\ Len(x) \in Nat /\ Min(T) \in {Len(p), Len(x)} /\ Min(T) <= Len(p) /\ Min(T) <= Len(x)
  BY <1>2
<1> QED
  BY <1>3, <1>4

\* The k bytes that s and t have in common decide their order.
Decides(s, t, k) ==
    /\ k < Len(t) /\ \A i \in 1..k : s[i] = t[i]
    /\ k = Len(s) \/ s[k + 1] < t[k + 1]

\* The lexicographic order of ByteQueue, byte by byte.
LEMMA BeforeIs ==
    ASSUME NEW s \in Seq(Byte), NEW t \in Seq(Byte)
    PROVE  BQ!Before(s, t) <=> \E k \in 0..Len(s) : Decides(s, t, k)
<1>1. ASSUME NEW k \in 0..Len(s), k < Len(t)
      PROVE  SubSeq(s, 1, k) = SubSeq(t, 1, k) <=> \A i \in 1..k : s[i] = t[i]
  OBVIOUS
<1>2. BQ!Before(s, t) = \E k \in 0..Len(s) :
        /\ k < Len(t) /\ SubSeq(s, 1, k) = SubSeq(t, 1, k)
        /\ k = Len(s) \/ s[k + 1] < t[k + 1]
  BY DEF BQ!Before
<1> QED
  BY <1>1, <1>2, Zenon DEF Decides

\* Of two sequences at most one is before the other.
LEMMA BeforeOneWay ==
    ASSUME NEW s \in Seq(Byte), NEW t \in Seq(Byte), BQ!Before(s, t)
    PROVE  ~BQ!Before(t, s)
<1>1. SUFFICES ASSUME BQ!Before(t, s) PROVE FALSE
  OBVIOUS
<1>2. PICK k \in 0..Len(s) : Decides(s, t, k)
  BY BeforeIs
<1>3. PICK j \in 0..Len(t) : Decides(t, s, j)
  BY <1>1, BeforeIs
<1>4. /\ k < Len(t) /\ j < Len(s) /\ Len(s) \in Nat /\ Len(t) \in Nat
      /\ \A i \in 1..k : s[i] = t[i]
      /\ \A i \in 1..j : s[i] = t[i]
      /\ k = Len(s) \/ s[k + 1] < t[k + 1]
      /\ j = Len(t) \/ t[j + 1] < s[j + 1]
  BY <1>2, <1>3 DEF Decides
<1>5. \A i \in 1..Len(s) : s[i] \in Int
  BY BufferAssumption DEF Byte
<1>6. \A i \in 1..Len(t) : t[i] \in Int
  BY BufferAssumption DEF Byte
<1>7. CASE k < j
  <2>1. k + 1 \in 1..j /\ k + 1 \in 1..Len(s) /\ k # Len(s)
    BY <1>4, <1>7
  <2> QED
    BY <1>4, <1>6, <2>1
<1>8. CASE j < k
  <2>1. j + 1 \in 1..k /\ j + 1 \in 1..Len(t) /\ j # Len(t)
    BY <1>4, <1>8
  <2> QED
    BY <1>4, <1>6, <2>1
<1>9. CASE j = k
  <2>1. k + 1 \in 1..Len(s) /\ k + 1 \in 1..Len(t) /\ k # Len(s) /\ j # Len(t)
    BY <1>4, <1>9
  <2> QED
    BY <1>4, <1>5, <1>6, <2>1
<1> QED
  BY <1>7, <1>8, <1>9

\* The outcome of a comparison, in the terms of ByteQueue.
LEMMA OrderFacts ==
    ASSUME NEW p \in Seq(Byte), NEW x \in Seq(Byte), NEW m, m = memcmp(p, x, Common(p, x))
    PROVE  /\ m \in {-1, 0, 1}
           /\ BQ!Before(p, x) <=> m = -1 \/ (m = 0 /\ Len(p) < Len(x))
           /\ BQ!Before(x, p) <=> m = 1 \/ (m = 0 /\ Len(x) < Len(p))
<1> DEFINE n == Common(p, x)
<1>1. /\ Len(p) \in Nat /\ Len(x) \in Nat /\ n \in Nat /\ n <= Len(p) /\ n <= Len(x)
      /\ n = Len(p) \/ n = Len(x)
  BY CommonFacts
<1> HIDE DEF n
<1>2. m = memcmp(p, x, n)
  BY DEF n
<1>3. \/ m = 0 /\ \A i \in 1..n : p[i] = x[i]
      \/ m = -1 /\ \E d \in 1..n : p[d] < x[d] /\ \A i \in 1..(d - 1) : p[i] = x[i]
      \/ m = 1 /\ \E d \in 1..n : x[d] < p[d] /\ \A i \in 1..(d - 1) : p[i] = x[i]
  BY <1>1, <1>2, MemcmpFacts
<1>4. CASE m = -1
  <2>1. PICK d \in 1..n : p[d] < x[d] /\ \A i \in 1..(d - 1) : p[i] = x[i]
    BY <1>3, <1>4
  <2>2. d - 1 \in 0..Len(p) /\ Decides(p, x, d - 1)
    BY <1>1, <2>1 DEF Decides
  <2>3. BQ!Before(p, x)
    BY <2>2, BeforeIs
  <2>4. ~BQ!Before(x, p)
    BY <2>3, BeforeOneWay
  <2> QED
    BY <1>4, <2>3, <2>4
<1>5. CASE m = 1
  <2>1. PICK d \in 1..n : x[d] < p[d] /\ \A i \in 1..(d - 1) : p[i] = x[i]
    BY <1>3, <1>5
  <2>2. d - 1 \in 0..Len(x) /\ Decides(x, p, d - 1)
    BY <1>1, <2>1 DEF Decides
  <2>3. BQ!Before(x, p)
    BY <2>2, BeforeIs
  <2>4. ~BQ!Before(p, x)
    BY <2>3, BeforeOneWay
  <2> QED
    BY <1>5, <2>3, <2>4
<1>6. CASE m = 0
  <2>1. \A i \in 1..n : p[i] = x[i]
    BY <1>3, <1>6
  <2>2. ASSUME Len(p) < Len(x) PROVE BQ!Before(p, x) /\ ~BQ!Before(x, p)
    <3>1. Len(p) \in 0..Len(p) /\ Decides(p, x, Len(p))
      BY <1>1, <2>1, <2>2 DEF Decides
    <3>2. BQ!Before(p, x)
      BY <3>1, BeforeIs
    <3> QED
      BY <3>2, BeforeOneWay
  <2>3. ASSUME Len(x) < Len(p) PROVE BQ!Before(x, p) /\ ~BQ!Before(p, x)
    <3>1. Len(x) \in 0..Len(x) /\ Decides(x, p, Len(x))
      BY <1>1, <2>1, <2>3 DEF Decides
    <3>2. BQ!Before(x, p)
      BY <3>1, BeforeIs
    <3> QED
      BY <3>2, BeforeOneWay
  <2>4. ASSUME Len(p) = Len(x) PROVE ~BQ!Before(x, p) /\ ~BQ!Before(p, x)
    <3>1. p = x
      BY <1>1, <2>1, <2>4
    <3> QED
      BY <3>1, BeforeOneWay
  <2> QED
    BY <1>6, <2>2, <2>3, <2>4
<1> QED
  BY <1>3, <1>4, <1>5, <1>6

\* operator== and starts_with are what their names say.
LEMMA EqualFacts ==
    ASSUME NEW p \in Seq(Byte), NEW x \in Seq(Byte)
    PROVE  /\ Equal(p, x) <=> p = x
           /\ starts_with(p, x) <=> \E n \in 0..Len(p) : SubSeq(p, 1, n) = x
<1>1. Len(p) \in Nat /\ Len(x) \in Nat
  OBVIOUS
<1>2. ASSUME Len(p) = Len(x) PROVE memcmp(p, x, Len(p)) = 0 <=> p = x
  <2>1. ASSUME memcmp(p, x, Len(p)) = 0 PROVE p = x
    <3> DEFINE n == Len(p)
               v == memcmp(p, x, n)
    <3>1. n \in Nat /\ n <= Len(p) /\ n <= Len(x)
      BY <1>1, <1>2
    <3>2. v = 0 /\ v # -1 /\ v # 1
      BY <2>1
    <3> HIDE DEF n
    <3>3. \/ v = 0 /\ \A i \in 1..n : p[i] = x[i]
          \/ v = -1
          \/ v = 1
      BY <3>1, MemcmpFacts, Zenon
    <3> HIDE DEF v
    <3>4. \A i \in 1..n : p[i] = x[i]
      BY <3>2, <3>3
    <3> QED
      BY <1>2, <3>4 DEF n
  <2>2. ASSUME p = x PROVE memcmp(p, x, Len(p)) = 0
    <3>1. {i \in 1..Len(p) : p[i] # x[i]} = {}
      BY <2>2
    <3> QED
      BY <3>1, Zenon DEF memcmp
  <2> QED
    BY <2>1, <2>2
<1>3. Equal(p, x) <=> p = x
  BY <1>2 DEF Equal
<1>4. ASSUME Len(x) <= Len(p) PROVE memcmp(p, x, Len(x)) = 0 <=> SubSeq(p, 1, Len(x)) = x
  <2>1. memcmp(p, x, Len(x)) = 0 <=> \A i \in 1..Len(x) : p[i] = x[i]
    <3>1. \A i \in 1..Len(x) : p[i] \in Int /\ x[i] \in Int
      BY <1>4, BufferAssumption DEF Byte
    <3>2. \/ memcmp(p, x, Len(x)) = 0 /\ \A i \in 1..Len(x) : p[i] = x[i]
          \/ memcmp(p, x, Len(x)) \in {-1, 1} /\ \E d \in 1..Len(x) : p[d] < x[d] \/ x[d] < p[d]
      <4>1. Len(x) <= Len(x)
        OBVIOUS
      <4> QED
        BY <1>1, <1>4, <4>1, MemcmpFacts, Zenon
    <3> QED
      BY <3>1, <3>2
  <2> QED
    BY <2>1
<1>5. starts_with(p, x) <=> \E n \in 0..Len(p) : SubSeq(p, 1, n) = x
  <2>1. ASSUME starts_with(p, x) PROVE \E n \in 0..Len(p) : SubSeq(p, 1, n) = x
    <3>1. Len(x) \in 0..Len(p) /\ SubSeq(p, 1, Len(x)) = x
      BY <1>4, <2>1 DEF starts_with
    <3> QED
      BY <3>1
  <2>2. ASSUME NEW n \in 0..Len(p), SubSeq(p, 1, n) = x PROVE starts_with(p, x)
    BY <1>4, <2>2 DEF starts_with
  <2> QED
    BY <2>1, <2>2
<1> QED
  BY <1>3, <1>5

\* Whichever way the content is compared, the outcome is that of the lexicographic order.
LEMMA CompareStep ==
    ASSUME NEW x \in Seq(Byte), Content(buf) \in Seq(Byte), Compared(x)
    PROVE  BQ!Compare(x)
<1> DEFINE p == Content(buf)
           m == memcmp(p, x, Common(p, x))
           less == BQ!Before(p, x)
           greater == BQ!Before(x, p)
           starts == \E n \in 0..Len(p) : SubSeq(p, 1, n) = x
<1>1. /\ answer' = <<compare(p, x), Bit(Less(p, x)), Bit(LessEqual(p, x)), Bit(GreaterEqual(p, x)),
                     Bit(Greater(p, x)), Bit(Equal(p, x)), Bit(starts_with(p, x))>>
      /\ buf' = buf
  BY DEF Compared
<1>2. p \in Seq(Byte) /\ Len(p) \in Nat /\ Len(x) \in Nat
  OBVIOUS
<1> HIDE DEF p
<1>3. /\ m \in {-1, 0, 1}
      /\ less <=> m = -1 \/ (m = 0 /\ Len(p) < Len(x))
      /\ greater <=> m = 1 \/ (m = 0 /\ Len(x) < Len(p))
  BY <1>2, OrderFacts
<1>4. /\ compare(p, x) = IF m # 0 THEN m ELSE IF Len(p) < Len(x) THEN -1 ELSE IF Len(p) > Len(x) THEN 1 ELSE 0
      /\ Less(p, x) <=> m < 0 \/ (m = 0 /\ Len(p) < Len(x))
      /\ LessEqual(p, x) <=> m < 0 \/ (m = 0 /\ Len(p) <= Len(x))
      /\ GreaterEqual(p, x) <=> m > 0 \/ (m = 0 /\ Len(p) >= Len(x))
      /\ Greater(p, x) <=> m > 0 \/ (m = 0 /\ Len(p) > Len(x))
  BY DEF compare, Less, LessEqual, GreaterEqual, Greater
<1> HIDE DEF m, less, greater, starts
<1>5. compare(p, x) = IF less THEN -1 ELSE IF greater THEN 1 ELSE 0
  BY <1>3, <1>4
<1>6. Less(p, x) <=> less
  BY <1>3, <1>4
<1>7. LessEqual(p, x) <=> ~greater
  BY <1>3, <1>4
<1>8. GreaterEqual(p, x) <=> ~less
  BY <1>3, <1>4
<1>9. Greater(p, x) <=> greater
  BY <1>3, <1>4
<1>10. (Equal(p, x) <=> p = x) /\ (starts_with(p, x) <=> starts)
  BY <1>2, EqualFacts DEF starts
<1>11. answer' = <<IF less THEN -1 ELSE IF greater THEN 1 ELSE 0, Bit(less), Bit(~greater), Bit(~less),
                   Bit(greater), Bit(p = x), Bit(starts)>>
  <2>1. /\ Bit(Less(p, x)) = Bit(less) /\ Bit(LessEqual(p, x)) = Bit(~greater)
        /\ Bit(GreaterEqual(p, x)) = Bit(~less) /\ Bit(Greater(p, x)) = Bit(greater)
        /\ Bit(Equal(p, x)) = Bit(p = x) /\ Bit(starts_with(p, x)) = Bit(starts)
    BY <1>6, <1>7, <1>8, <1>9, <1>10 DEF Bit
  <2> QED
    BY <1>1, <1>5, <2>1
<1>12. Content(buf)' = Content(buf)
  BY <1>1
<1> QED
  BY <1>11, <1>12, Zenon DEF BQ!Compare, BQ!Bit, Bit, less, greater, starts, p

-----------------------------------------------------------------------------
(* Buffer: what is put in *)

\* What can be put in at a time.
LEMMA DataFacts ==
    /\ \A data \in Data : data \in Seq(Byte) /\ Len(data) \in 0..MaxLen
    /\ <<>> \in Data
    /\ \A n \in 0..MaxLen : \A data \in [1..n -> Byte] : data \in Data
<1> USE BufferAssumption
<1>1. ASSUME NEW n \in 0..MaxLen, NEW data \in [1..n -> Byte]
      PROVE  data \in Data
  BY DEF Data
<1>2. ASSUME NEW data \in Data PROVE data \in Seq(Byte) /\ Len(data) \in 0..MaxLen
  <2>1. PICK n \in 0..MaxLen : data \in [1..n -> Byte]
    BY DEF Data
  <2> QED
    BY <2>1
<1>3. <<>> \in [1..0 -> Byte] /\ 0 \in 0..MaxLen
  OBVIOUS
<1> QED
  BY <1>1, <1>2, <1>3

\* The bytes of an integer in network order are bytes, and as many as it is wide.
LEMMA NetworkFacts ==
    ASSUME NEW w \in Widths, NEW x \in Ints(w)
    PROVE  Network(x, w) \in Data /\ Network(x, w) \in Seq(Byte)
<1> USE BufferAssumption
<1>1. w \in 1..MaxLen /\ Base^w \in Nat \ {0}
  BY PowersAssumption
<1>2. x \in Int
  <2> DEFINE h == Base^w \div 2
  <2>2. Ints(w) = (-h)..(h - 1)
    BY DEF Ints
  <2> HIDE DEF h
  <2> QED
    BY <2>2
<1>3. \A i \in 1..w : ((x % Base^w) \div Base^(w - i)) % Base \in Byte
  <2>1. SUFFICES ASSUME NEW i \in 1..w PROVE ((x % Base^w) \div Base^(w - i)) % Base \in Byte
    OBVIOUS
  <2> DEFINE P == Base^w
             Q == Base^(w - i)
  <2>2. w - i \in 0..MaxLen /\ P \in Nat \ {0}
    BY <1>1
  <2>3. Q \in Nat \ {0}
    BY PowersAssumption
  <2> HIDE DEF P, Q
  <2> DEFINE y == x % P
             z == y \div Q
  <2>4. y \in Int
    BY <1>2, <2>2
  <2> HIDE DEF y
  <2>5. z \in Int
    BY <2>3, <2>4
  <2> HIDE DEF z
  <2>6. z % Base \in 0..(Base - 1)
    BY <2>5
  <2> QED
    BY <2>6 DEF z, y, P, Q, Byte
<1>4. Network(x, w) \in [1..w -> Byte]
  BY <1>3 DEF Network
<1> QED
  BY <1>4, DataFacts

-----------------------------------------------------------------------------
(* Buffer: the inductive invariant is kept by every operation, which is one of ByteQueue *)

\* The inductive invariant.
BufferIInv == IsBuffer(buf) /\ buf.size <= MaxSize

\* The two action properties, for one step.
RoomKept == buf'.reader >= kCheapPrepend \/ buf'.reader >= buf.reader

\* What the invariant says of the buffer, in one place.
LEMMA StateFacts ==
    ASSUME BufferIInv
    PROVE  /\ IsBuffer(buf) /\ buf.size \in Nat /\ buf.reader \in Nat /\ buf.writer \in Nat
           /\ buf.reader <= buf.writer /\ buf.writer <= buf.size /\ buf.size <= MaxSize
           /\ readableBytes(buf) = buf.writer - buf.reader /\ readableBytes(buf) \in Nat
           /\ Content(buf) \in Seq(Byte) /\ Len(Content(buf)) = readableBytes(buf)
           /\ kCheapPrepend \in Nat /\ MaxSize \in Nat
<1>1. IsBuffer(buf)
  BY DEF BufferIInv
<1>2. Content(buf) \in Seq(Byte) /\ Len(Content(buf)) = buf.writer - buf.reader
  BY <1>1, ContentFacts
<1> QED
  BY <1>2, BufferAssumption DEF BufferIInv, IsBuffer, readableBytes

\* append is a Put.
LEMMA AppendStep ==
    ASSUME BufferIInv, NEW data \in Data, append(data)
    PROVE  /\ BufferIInv' /\ RoomKept /\ BQ!Put(data)
           /\ buf'.size > buf.size => kCheapPrepend + readableBytes(buf') > buf.size
<1>1. buf' = Appended(buf, data) /\ buf'.size <= MaxSize /\ answer' = <<>>
  BY DEF append
<1>2. data \in Seq(Byte) /\ Len(data) \in Nat
  BY DataFacts
<1>3. /\ IsBuffer(buf') /\ Content(buf') = Content(buf) \o data
      /\ buf'.writer - buf'.reader = buf.writer - buf.reader + Len(data)
      /\ buf'.reader = buf.reader \/ buf'.reader = kCheapPrepend
      /\ buf'.size > buf.size => kCheapPrepend + (buf.writer - buf.reader) + Len(data) > buf.size
  BY <1>1, <1>2, StateFacts, AppendedFacts
<1>4. BufferIInv'
  BY <1>1, <1>3 DEF BufferIInv
<1>5. RoomKept
  BY <1>3, StateFacts DEF RoomKept
<1>6. BQ!Put(data)
  BY <1>1, <1>3 DEF BQ!Put
<1>7. buf'.size > buf.size => kCheapPrepend + readableBytes(buf') > buf.size
  BY <1>3, StateFacts DEF readableBytes
<1> QED
  BY <1>4, <1>5, <1>6, <1>7

\* prepend is a PutFront.
LEMMA PrependStep ==
    ASSUME BufferIInv, NEW data \in Data, prepend(data)
    PROVE  BufferIInv' /\ buf'.size = buf.size /\ BQ!PutFront(data)
<1>1. buf' = Prepended(buf, data) /\ Len(data) <= buf.reader /\ answer' = <<>>
  BY DEF prepend, prependableBytes
<1>2. data \in Seq(Byte)
  BY DataFacts
<1>3. IsBuffer(buf') /\ Content(buf') = data \o Content(buf) /\ buf'.size = buf.size
  BY <1>1, <1>2, StateFacts, PrependedFacts
<1>4. BufferIInv'
  BY <1>3 DEF BufferIInv
<1> QED
  BY <1>1, <1>3, <1>4 DEF BQ!PutFront

\* BufferOutputStream's Next, the writing and BackUp together are a Put.
LEMMA OutputStep ==
    ASSUME BufferIInv, NEW data \in Data, Output(data)
    PROVE  /\ BufferIInv' /\ RoomKept /\ BQ!Put(data)
           /\ buf'.size > buf.size => kCheapPrepend + readableBytes(buf) + kBlock > buf.size
<1> DEFINE e == ensureWritableBytes(buf, kBlock)
<1>1. /\ Len(data) <= writableBytes(e) /\ e.size <= MaxSize /\ buf' = Filled(e, data)
      /\ answer' = <<readableBytes(buf') - readableBytes(buf)>>
  BY DEF Output, Filled
<1>2. data \in Seq(Byte) /\ Len(data) \in Nat
  BY DataFacts
<1>3. /\ IsBuffer(buf') /\ Content(buf') = Content(buf) \o data
      /\ buf'.writer - buf'.reader = buf.writer - buf.reader + Len(data)
      /\ buf'.size = e.size
      /\ buf'.reader = buf.reader \/ buf'.reader = kCheapPrepend
      /\ buf'.size > buf.size => kCheapPrepend + (buf.writer - buf.reader) + kBlock > buf.size
  <2>1. e = ensureWritableBytes(buf, kBlock) /\ IsBuffer(buf)
    BY StateFacts
  <2> HIDE DEF e
  <2> QED
    BY <1>1, <1>2, <2>1, OutputFacts
<1> HIDE DEF e
<1>4. BufferIInv'
  BY <1>1, <1>3 DEF BufferIInv
<1>5. RoomKept
  BY <1>3, StateFacts DEF RoomKept
<1>6. readableBytes(buf') - readableBytes(buf) = Len(data)
  BY <1>2, <1>3, StateFacts DEF readableBytes
<1>7. BQ!Put(data)
  BY <1>1, <1>3, <1>6 DEF BQ!Put
<1> QED
  BY <1>3, <1>4, <1>5, <1>7, StateFacts

\* What retrieve leaves.
LEMMA RetrieveStep ==
    ASSUME BufferIInv, NEW len \in Nat, len <= readableBytes(buf), buf' = Retrieved(buf, len)
    PROVE  /\ BufferIInv' /\ RoomKept /\ buf'.size = buf.size
           /\ Content(buf') = SubSeq(Content(buf), len + 1, Len(Content(buf)))
<1>1. /\ IsBuffer(buf') /\ Content(buf') = SubSeq(Content(buf), len + 1, Len(Content(buf)))
      /\ buf'.size = buf.size
      /\ buf'.reader >= buf.reader \/ buf'.reader = kCheapPrepend
  <2>1. IsBuffer(buf) /\ len <= buf.writer - buf.reader
    BY StateFacts
  <2> QED
    BY <2>1, RetrievedFacts, Zenon
<1>2. BufferIInv'
  BY <1>1 DEF BufferIInv
<1>3. RoomKept
  BY <1>1, StateFacts DEF RoomKept
<1> QED
  BY <1>1, <1>2, <1>3

\* unwrite is an Unput.
LEMMA UnwriteStep ==
    ASSUME BufferIInv, NEW len \in Nat, unwrite(len)
    PROVE  BufferIInv' /\ RoomKept /\ buf'.size = buf.size /\ BQ!Unput(len)
<1>1. len <= readableBytes(buf) /\ buf' = Unwritten(buf, len) /\ answer' = <<>>
  BY DEF unwrite
<1>2. /\ IsBuffer(buf') /\ Content(buf') = SubSeq(Content(buf), 1, Len(Content(buf)) - len)
      /\ buf'.size = buf.size /\ buf'.reader = buf.reader
  BY <1>1, StateFacts, UnwrittenFacts
<1>3. BufferIInv'
  BY <1>2 DEF BufferIInv
<1>4. RoomKept
  BY <1>2, StateFacts DEF RoomKept
<1> QED
  BY <1>1, <1>2, <1>3, <1>4, StateFacts DEF BQ!Unput

\* shrink puts nothing in: the fresh buffer takes over the content.
LEMMA ShrinkStep ==
    ASSUME BufferIInv, NEW reserve \in 0..MaxLen, shrink(reserve)
    PROVE  BufferIInv' /\ RoomKept /\ BQ!Put(<<>>)
<1> DEFINE e == ensureWritableBytes(Fresh, readableBytes(buf) + reserve)
           a == Appended(e, Content(buf))
<1>1. a.size <= MaxSize /\ buf' = a /\ answer' = <<>>
  BY DEF shrink
<1>2. readableBytes(buf) + reserve \in Nat
  BY StateFacts
<1>3. IsBuffer(e) /\ Content(e) = <<>> /\ e.reader = kCheapPrepend
  BY <1>2, FreshFacts, EnsureFacts
<1> HIDE DEF e
<1>4. IsBuffer(a) /\ Content(a) = Content(e) \o Content(buf) /\ a.reader = kCheapPrepend
  BY <1>3, StateFacts, AppendedFacts
<1> HIDE DEF a
<1>5. BufferIInv'
  BY <1>1, <1>4 DEF BufferIInv
<1>6. RoomKept
  BY <1>1, <1>4, StateFacts DEF RoomKept
<1>7. Content(buf') = Content(buf) \o <<>>
  BY <1>1, <1>3, <1>4
<1>8. BQ!Put(<<>>)
  BY <1>1, <1>7 DEF BQ!Put
<1> QED
  BY <1>5, <1>6, <1>8

\* What a step does, seen from the outside.
Grown ==
    buf'.size > buf.size =>
        \/ \E reserve \in 0..MaxLen : shrink(reserve)
        \/ kCheapPrepend + readableBytes(buf') > buf.size
        \/ /\ \E data \in Data : Output(data)
           /\ kCheapPrepend + readableBytes(buf) + kBlock > buf.size

Prepends ==
    \/ \E data \in Data : prepend(data)
    \/ \E w \in Widths : \E x \in Ints(w) : PrependInt(x, w)

\* The operations that take bytes.
LEMMA DataStep ==
    ASSUME BufferIInv, NEW data \in Data, append(data) \/ prepend(data) \/ Output(data) \/ Compared(data)
    PROVE  BufferIInv' /\ (Prepends \/ RoomKept) /\ Grown /\ BQ!Next
<1>1. CASE append(data)
  <2>1. BufferIInv' /\ RoomKept /\ BQ!Put(data) /\ Grown
    BY <1>1, AppendStep DEF Grown
  <2> QED
    BY <2>1 DEF BQ!Next
<1>2. CASE prepend(data)
  <2>1. BufferIInv' /\ buf'.size = buf.size /\ BQ!PutFront(data)
    BY <1>2, PrependStep
  <2>2. Prepends /\ Grown
    BY <1>2, <2>1, StateFacts DEF Prepends, Grown
  <2> QED
    BY <2>1, <2>2 DEF BQ!Next
<1>3. CASE Output(data)
  <2>1. BufferIInv' /\ RoomKept /\ BQ!Put(data)
    BY <1>3, OutputStep
  <2>2. Grown
    BY <1>3, OutputStep DEF Grown
  <2> QED
    BY <2>1, <2>2 DEF BQ!Next
<1>4. CASE Compared(data)
  <2>1. buf' = buf
    BY <1>4 DEF Compared
  <2>2. BQ!Compare(data)
    BY <1>4, DataFacts, StateFacts, CompareStep
  <2>3. BufferIInv' /\ RoomKept /\ Grown
    BY <2>1, StateFacts DEF BufferIInv, RoomKept, Grown
  <2> QED
    BY <2>2, <2>3 DEF BQ!Next
<1> QED
  BY <1>1, <1>2, <1>3, <1>4

\* The operations on integers.
LEMMA IntStep ==
    ASSUME BufferIInv, NEW w \in Widths,
           (\E x \in Ints(w) : AppendInt(x, w) \/ PrependInt(x, w)) \/ PeekInt(w) \/ ReadInt(w)
    PROVE  BufferIInv' /\ (Prepends \/ RoomKept) /\ Grown /\ BQ!Next
<1>1. CASE \E x \in Ints(w) : AppendInt(x, w) \/ PrependInt(x, w)
  <2>1. PICK x \in Ints(w) : AppendInt(x, w) \/ PrependInt(x, w)
    BY <1>1
  <2>2. Network(x, w) \in Data
    BY NetworkFacts
  <2>3. append(Network(x, w)) \/ prepend(Network(x, w))
    BY <2>1 DEF AppendInt, PrependInt
  <2> QED
    BY <2>2, <2>3, DataStep
<1>2. w \in Nat
  BY BufferAssumption
<1>3. CASE PeekInt(w)
  <2>1. /\ readableBytes(buf) >= w /\ answer' = <<Host(Slice(buf, buf.reader, w))>> /\ buf' = buf
    BY <1>3 DEF PeekInt
  <2>2. Slice(buf, buf.reader, w) = SubSeq(Content(buf), 1, w)
    BY <1>2, <2>1, StateFacts, FrontFacts
  <2>3. w \in 0..Len(Content(buf)) /\ BQ!Get(w)
    BY <1>2, <2>1, <2>2, StateFacts DEF BQ!Get
  <2>4. BufferIInv' /\ RoomKept /\ Grown
    BY <2>1, StateFacts DEF BufferIInv, RoomKept, Grown
  <2> QED
    BY <2>3, <2>4 DEF BQ!Next
<1>4. CASE ReadInt(w)
  <2>1. /\ w <= readableBytes(buf)
        /\ answer' = <<Host(Slice(buf, buf.reader, w))>> /\ buf' = Retrieved(buf, w)
    BY <1>4 DEF ReadInt
  <2>2. Slice(buf, buf.reader, w) = SubSeq(Content(buf), 1, w)
    BY <1>2, <2>1, StateFacts, FrontFacts
  <2>3. /\ BufferIInv' /\ RoomKept /\ buf'.size = buf.size
        /\ Content(buf') = SubSeq(Content(buf), w + 1, Len(Content(buf)))
    BY <1>2, <2>1, RetrieveStep
  <2>4. w \in 0..Len(Content(buf)) /\ BQ!Get(w)
    BY <1>2, <2>1, <2>2, <2>3, StateFacts DEF BQ!Get, BQ!Left
  <2>5. Grown
    BY <2>3, StateFacts DEF Grown
  <2> QED
    BY <2>3, <2>4, <2>5 DEF BQ!Next
<1> QED
  BY <1>1, <1>3, <1>4

\* The two searches are Finds.
LEMMA FindStep ==
    ASSUME BufferIInv, NEW from \in 0..readableBytes(buf), findCRLF(from) \/ findEOL(from)
    PROVE  buf' = buf /\ BQ!Next
<1>1. <<CR, LF>> \in Seq(Byte) /\ <<LF>> \in Seq(Byte)
  BY BufferAssumption DEF Byte
<1>2. from \in Nat /\ from \in 0..Len(Content(buf))
  BY StateFacts
<1>3. PICK pattern \in {<<CR, LF>>, <<LF>>} : answer' = <<Search(buf, from, pattern)>> /\ buf' = buf
  BY DEF findCRLF, findEOL
<1>4. pattern \in Seq(Byte)
  BY <1>1
<1>5. Search(buf, from, pattern) = BQ!FirstAt(from, pattern)
  BY <1>4, StateFacts, SearchFacts
<1>6. BQ!Find(from, pattern)
  BY <1>3, <1>5 DEF BQ!Find
<1> QED
  BY <1>2, <1>3, <1>6 DEF BQ!Next

\* A StringPiece cut at both ends is a Look.
LEMMA TrimmedStep ==
    ASSUME BufferIInv, NEW len \in 0..readableBytes(buf), NEW n \in 0..(readableBytes(buf) - len),
           Trimmed(len, n)
    PROVE  buf' = buf /\ BQ!Next
<1> DEFINE c == Content(buf)
           d == SubSeq(c, len + 1, Len(c))
<1>1. answer' = SubSeq(d, 1, Len(d) - n) /\ buf' = buf
  BY DEF Trimmed, remove_suffix, remove_prefix
<1>2. /\ c \in Seq(Byte) /\ Len(c) = readableBytes(buf) /\ Len(c) \in Nat
      /\ len \in 0..Len(c) /\ n \in 0..(Len(c) - len)
  BY StateFacts
<1> HIDE DEF c
<1>3. SubSeq(d, 1, Len(d) - n) = SubSeq(c, len + 1, Len(c) - n)
  <2> DEFINE k == Len(d) - n
             s == SubSeq(d, 1, k)
             t == SubSeq(c, len + 1, Len(c) - n)
  <2>1. d \in Seq(Byte) /\ Len(d) = Len(c) - len
    BY <1>2
  <2>2. \A i \in 1..(Len(c) - len) : d[i] = c[i + len]
    BY <1>2
  <2> HIDE DEF d
  <2>3. k \in Nat /\ k = Len(c) - len - n /\ k <= Len(d)
    BY <1>2, <2>1
  <2> HIDE DEF k
  <2>4. s \in Seq(Byte) /\ Len(s) = k /\ \A i \in 1..k : s[i] = d[i]
    BY <2>1, <2>3
  <2>5. t \in Seq(Byte) /\ Len(t) = k /\ \A i \in 1..k : t[i] = c[i + len]
    BY <1>2, <2>3
  <2> HIDE DEF s, t
  <2>6. \A i \in 1..k : i \in 1..(Len(c) - len)
    BY <1>2, <2>3
  <2>7. \A i \in 1..k : s[i] = t[i]
    BY <2>2, <2>4, <2>5, <2>6, Zenon
  <2>8. s = t
    BY <2>4, <2>5, <2>7
  <2> QED
    BY <2>8 DEF s, t, k
<1>4. BQ!Look(len, n)
  <2>1. len + n <= Len(c)
    BY <1>2
  <2>2. answer' = SubSeq(c, len + 1, Len(c) - n)
    BY <1>1, <1>3
  <2>3. Content(buf)' = Content(buf)
    BY <1>1
  <2> QED
    BY <2>1, <2>2, <2>3, Zenon DEF BQ!Look, c
<1>5. n \in 0..Len(Content(buf)) /\ len \in 0..(Len(Content(buf)) - n)
  BY <1>2 DEF c
<1> QED
  BY <1>1, <1>4, <1>5 DEF BQ!Next

\* The operations that take a length or an offset.
LEMMA LengthStep ==
    ASSUME BufferIInv, NEW len \in 0..readableBytes(buf),
           \/ retrieve(len) \/ retrieveAsString(len) \/ unwrite(len)
           \/ findCRLF(len) \/ findEOL(len)
           \/ \E n \in 0..(readableBytes(buf) - len) : Trimmed(len, n)
    PROVE  BufferIInv' /\ RoomKept /\ Grown /\ BQ!Next
<1>1. len \in Nat /\ len <= readableBytes(buf) /\ len \in 0..Len(Content(buf)) /\ len <= Len(Content(buf))
  BY StateFacts
<1>2. CASE retrieve(len)
  <2>1. answer' = <<>> /\ buf' = Retrieved(buf, len)
    BY <1>2 DEF retrieve
  <2>2. /\ BufferIInv' /\ RoomKept /\ buf'.size = buf.size
        /\ Content(buf') = SubSeq(Content(buf), len + 1, Len(Content(buf)))
    BY <2>1, RetrieveStep
  <2>3. BQ!Drop(len)
    BY <1>1, <2>1, <2>2 DEF BQ!Drop, BQ!Left
  <2>4. Grown
    BY <2>2, StateFacts DEF Grown
  <2> QED
    BY <1>1, <2>2, <2>3, <2>4 DEF BQ!Next
<1>3. CASE retrieveAsString(len)
  <2>1. answer' = Slice(buf, buf.reader, len) /\ buf' = Retrieved(buf, len)
    BY <1>3 DEF retrieveAsString
  <2>2. /\ BufferIInv' /\ RoomKept /\ buf'.size = buf.size
        /\ Content(buf') = SubSeq(Content(buf), len + 1, Len(Content(buf)))
    BY <1>1, <2>1, RetrieveStep
  <2>3. Slice(buf, buf.reader, len) = SubSeq(Content(buf), 1, len)
    BY StateFacts, FrontFacts
  <2>4. BQ!Get(len)
    BY <1>1, <2>1, <2>2, <2>3 DEF BQ!Get, BQ!Left
  <2>5. Grown
    BY <2>2, StateFacts DEF Grown
  <2> QED
    BY <1>1, <2>2, <2>4, <2>5 DEF BQ!Next
<1>4. CASE unwrite(len)
  <2>1. BufferIInv' /\ RoomKept /\ buf'.size = buf.size /\ BQ!Unput(len)
    BY <1>4, UnwriteStep
  <2>2. Grown
    BY <2>1, StateFacts DEF Grown
  <2> QED
    BY <1>1, <2>1, <2>2 DEF BQ!Next
<1>5. CASE findCRLF(len) \/ findEOL(len) \/ \E n \in 0..(readableBytes(buf) - len) : Trimmed(len, n)
  <2>1. buf' = buf /\ BQ!Next
    BY <1>5, FindStep, TrimmedStep
  <2>2. BufferIInv' /\ RoomKept /\ Grown
    BY <2>1, StateFacts DEF BufferIInv, RoomKept, Grown
  <2> QED
    BY <2>1, <2>2
<1> QED
  BY <1>2, <1>3, <1>4, <1>5

\* Every operation keeps the layout and the room in front, lets the vector grow only if it
\* must, and is an operation of ByteQueue.
LEMMA BufferStep ==
    ASSUME BufferIInv, BufferNext
    PROVE  BufferIInv' /\ (Prepends \/ RoomKept) /\ Grown /\ BQ!Next
<1>1. CASE \E data \in Data : append(data) \/ prepend(data) \/ Output(data) \/ Compared(data)
  BY <1>1, DataStep
<1>2. CASE \E w \in Widths : \/ \E x \in Ints(w) : AppendInt(x, w) \/ PrependInt(x, w)
                             \/ PeekInt(w) \/ ReadInt(w)
  BY <1>2, IntStep
<1>3. CASE \E len \in 0..readableBytes(buf) :
              \/ retrieve(len) \/ retrieveAsString(len) \/ unwrite(len)
              \/ findCRLF(len) \/ findEOL(len)
              \/ \E n \in 0..(readableBytes(buf) - len) : Trimmed(len, n)
  BY <1>3, LengthStep
<1>4. CASE \E reserve \in 0..MaxLen : shrink(reserve)
  <2>1. PICK reserve \in 0..MaxLen : shrink(reserve)
    BY <1>4
  <2>2. BufferIInv' /\ RoomKept /\ BQ!Put(<<>>)
    BY <2>1, ShrinkStep
  <2>3. Grown
    BY <2>1 DEF Grown
  <2> QED
    BY <2>2, <2>3, DataFacts DEF BQ!Next
<1> QED
  BY <1>1, <1>2, <1>3, <1>4 DEF BufferNext

-----------------------------------------------------------------------------
(* Buffer: theorems *)

\* The layout of the class, with the record that stands for it: the vector has as many bytes
\* as its size says, the indexes are in order, and there is room for kCheapPrepend bytes,
\* which retrieveAll relies on.
THEOREM BufferInvariant == BufferSpec => []BufferIInv
<1>1. BufferInit => BufferIInv
  BY FreshFacts, BufferAssumption DEF BufferInit, BufferIInv
<1>2. BufferIInv /\ [BufferNext]_bufferVars => BufferIInv'
  <2>1. ASSUME BufferIInv, UNCHANGED bufferVars PROVE BufferIInv'
    BY <2>1 DEF BufferIInv, bufferVars
  <2> QED
    BY <2>1, BufferStep
<1> QED
  BY <1>1, <1>2, PTL DEF BufferSpec

\* The layout that the comment at the head of Buffer.h draws holds after any calls.
THEOREM BufferLayout == BufferSpec => []BufferTypeOK
<1>1. BufferIInv => BufferTypeOK
  BY StateFacts DEF BufferTypeOK, IsBuffer
<1> QED
  BY <1>1, BufferInvariant, PTL

\* For every size of the vector and of the data, only a prepend uses up the room that is
\* kept in front of the content: what Codec::SendMsg relies on when it prepends the length.
THEOREM BufferHeaderRoom == BufferSpec => HeaderRoom
<1>1. BufferIInv /\ [BufferNext]_bufferVars =>
        [ \/ \E data \in Data : prepend(data)
          \/ \E w \in Widths : \E x \in Ints(w) : PrependInt(x, w)
          \/ buf'.reader >= kCheapPrepend \/ buf'.reader >= buf.reader ]_bufferVars
  BY BufferStep DEF Prepends, RoomKept
<1> QED
  BY <1>1, BufferInvariant, PTL DEF BufferSpec, HeaderRoom

\* However long the buffer lives, its vector grows only when content, new bytes and the
\* room in front do not fit in it.
THEOREM BufferGrowsOnlyWhenFull == BufferSpec => GrowsOnlyWhenFull
<1>1. BufferIInv /\ [BufferNext]_bufferVars =>
        [ buf'.size > buf.size =>
            \/ \E reserve \in 0..MaxLen : shrink(reserve)
            \/ kCheapPrepend + readableBytes(buf') > buf.size
            \/ /\ \E data \in Data : Output(data)
               /\ kCheapPrepend + readableBytes(buf) + kBlock > buf.size ]_bufferVars
  BY BufferStep DEF Grown
<1> QED
  BY <1>1, BufferInvariant, PTL DEF BufferSpec, GrowsOnlyWhenFull

\* The buffer implements ByteQueue, for all bytes, lengths and integers: moving the content,
\* growing, shrinking and the stale bytes around the content are never seen, neither in what
\* is read nor in what is searched or compared.
THEOREM BufferByteQueue == BufferSpec => ByteQueueSpec
<1>1. BufferInit => BQ!Init
  BY FreshFacts DEF BufferInit, BQ!Init
<1>2. BufferIInv /\ [BufferNext]_bufferVars => [BQ!Next]_(BQ!vars)
  <2>1. ASSUME UNCHANGED bufferVars PROVE UNCHANGED BQ!vars
    BY <2>1 DEF bufferVars, BQ!vars
  <2> QED
    BY <2>1, BufferStep
<1> QED
  BY <1>1, <1>2, BufferInvariant, PTL DEF BufferSpec, ByteQueueSpec, BQ!Spec
=============================================================================
