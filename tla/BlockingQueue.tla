--------------------------- MODULE BlockingQueue ---------------------------
(***************************************************************************)
(* muduo's monitor (Mutex.h, Condition.h) at work in its                   *)
(* BoundedBlockingQueue and in its BlockingQueue, which has no capacity    *)
(* and can be drained.  MutexLock is also the mutex of the Dispatcher.     *)
(*                                                                         *)
(* A MutexLock is a pthread mutex and, beside it, the thread that holds    *)
(* it, for the assertions.  Taking and releasing it are two steps each,    *)
(* and so are the two ends of Condition::wait.  A waiting thread may wake  *)
(* up without being notified, and a thread that arrives may take the mutex *)
(* before one that has been woken.                                         *)
(***************************************************************************)
EXTENDS Integers, Sequences, FiniteSets

CONSTANTS Producers, Consumers, Observers,  (* threads that put, take, ask    *)
          None,
          maxSize,                          (* the queue's capacity           *)
          MaxItems                          (* bound: items per producer      *)

ASSUME BlockingQueueAssumption ==
    /\ maxSize \in Nat \ {0} /\ MaxItems \in Nat
    /\ Producers \cap Consumers = {} /\ Producers \cap Observers = {} /\ Consumers \cap Observers = {}
    /\ None \notin Producers \cup Consumers \cup Observers

Threads == Producers \cup Consumers \cup Observers
Items == Producers \X (1..MaxItems)

VARIABLES
    kind,       (* which of the two it is: "bounded" or "unbounded"         *)
    mutex_,     (* who has the pthread mutex                                *)
    holder_,    (* who the MutexLock says has it                            *)
    notEmpty_, notFull_,    (* the threads asleep in each Condition         *)
    queue_,     (* the circular buffer                                      *)
    pc,         (* where each thread is in its call                         *)
    puts,       (* puts[p]: calls of put that p has begun                   *)
    putOrder, takeOrder     (* history: items in the order they went in and out *)

lockVars == <<mutex_, holder_>>
condVars == <<notEmpty_, notFull_>>
dataVars == <<queue_, putOrder, takeOrder>>
vars == <<kind, lockVars, condVars, dataVars, pc, puts>>

Goto(t, label) == pc' = [pc EXCEPT ![t] = label] /\ UNCHANGED kind

-----------------------------------------------------------------------------
(* MutexLock *)

LockInit == mutex_ = None /\ holder_ = None

isLockedByThisThread(t) == holder_ = t

\* pthread_mutex_lock, in lock() and at the end of pthread_cond_wait.
PthreadLock(t) ==
    /\ pc[t] \in {"lock", "relock"}
    /\ mutex_ = None
    /\ mutex_' = t
    /\ Goto(t, IF pc[t] = "lock" THEN "assign" ELSE "reassign")
    /\ UNCHANGED <<holder_, condVars, dataVars, puts>>

\* assignHolder, in lock() and in the destructor of wait's UnassignGuard.  Mutant:
\* only lock() does it.
HolderAfterLockOnly(t) == IF pc[t] = "assign" THEN t ELSE holder_
HolderAfter(t) == t

assignHolder(t) ==
    /\ pc[t] \in {"assign", "reassign"}
    /\ holder_' = HolderAfter(t)
    /\ Goto(t, "test")
    /\ UNCHANGED <<mutex_, condVars, dataVars, puts>>

\* unlock(): unassignHolder, then pthread_mutex_unlock.
unassignHolder(t) ==
    /\ pc[t] = "unassign"
    /\ holder_' = None
    /\ Goto(t, "unlock")
    /\ UNCHANGED <<mutex_, condVars, dataVars, puts>>

PthreadUnlock(t) ==
    /\ pc[t] = "unlock"
    /\ mutex_' = None
    /\ Goto(t, "idle")
    /\ UNCHANGED <<holder_, condVars, dataVars, puts>>

-----------------------------------------------------------------------------
(* Condition *)

CondInit == notEmpty_ = {} /\ notFull_ = {}

\* wait(): the UnassignGuard, then the thread gives the mutex up and sleeps.
WaitGuard(t) ==
    /\ pc[t] = "wait"
    /\ holder_' = None
    /\ Goto(t, "release")
    /\ UNCHANGED <<mutex_, condVars, dataVars, puts>>

\* put waits on notFull_, take on notEmpty_.
WaitsOnNotFull == Producers

PthreadWait(t) ==
    /\ pc[t] = "release"
    /\ mutex_' = None
    /\ IF t \in WaitsOnNotFull THEN notFull_' = notFull_ \cup {t} /\ UNCHANGED notEmpty_
                               ELSE notEmpty_' = notEmpty_ \cup {t} /\ UNCHANGED notFull_
    /\ Goto(t, "asleep")
    /\ UNCHANGED <<holder_, dataVars, puts>>

\* A wakeup that nobody asked for.
SpuriousWakeup(t) ==
    /\ pc[t] = "asleep"
    /\ notEmpty_' = notEmpty_ \ {t} /\ notFull_' = notFull_ \ {t}
    /\ Goto(t, "relock")
    /\ UNCHANGED <<lockVars, dataVars, puts>>

\* pthread_cond_signal: the sets of threads it may wake.
Signalled(sleepers) == IF sleepers = {} THEN {{}} ELSE {{u} : u \in sleepers}

-----------------------------------------------------------------------------
(* BoundedBlockingQueue and BlockingQueue *)

\* put, take, drain, or one of empty, full, size and capacity is called.
Call(t) ==
    /\ pc[t] = "idle"
    /\ IF t \in Producers THEN puts[t] < MaxItems /\ puts' = [puts EXCEPT ![t] = @ + 1]
                          ELSE UNCHANGED puts
    /\ Goto(t, "lock")
    /\ UNCHANGED <<lockVars, condVars, dataVars>>

\* Is there no room?  Only a bounded queue can be full.
Full == kind = "bounded" /\ Len(queue_) = maxSize

\* Must t wait?  while (queue_.full()) in put, while (queue_.empty()) in take.
\* Mutant: put is off by one.
MustWaitLate(t) ==
    \/ t \in Producers /\ kind = "bounded" /\ Len(queue_) > maxSize
    \/ t \in Consumers /\ queue_ = <<>>
MustWait(t) ==
    \/ t \in Producers /\ Full
    \/ t \in Consumers /\ queue_ = <<>>

\* The head of the loop.
Test(t) ==
    /\ pc[t] = "test" /\ t \notin Observers
    /\ Goto(t, IF MustWait(t) THEN "wait" ELSE "store")
    /\ UNCHANGED <<lockVars, condVars, dataVars, puts>>

\* empty, full, size and capacity
Ask(t) ==
    /\ pc[t] = "test" /\ t \in Observers
    /\ Goto(t, "unassign")
    /\ UNCHANGED <<lockVars, condVars, dataVars, puts>>

\* queue_.push_back(x), for a circular buffer that overwrites its front when full.
PushBack(t) ==
    /\ pc[t] = "store" /\ t \in Producers
    /\ queue_' = Append(IF Full THEN Tail(queue_) ELSE queue_, <<t, puts[t]>>)
    /\ putOrder' = Append(putOrder, <<t, puts[t]>>)
    /\ Goto(t, "notify")
    /\ UNCHANGED <<lockVars, condVars, takeOrder, puts>>

\* front() and pop_front(); take of the unbounded queue has nobody to notify.
PopFront(t) ==
    /\ pc[t] = "store" /\ t \in Consumers
    /\ queue_' = Tail(queue_)
    /\ takeOrder' = Append(takeOrder, Head(queue_))
    /\ Goto(t, IF kind = "bounded" THEN "notify" ELSE "unassign")
    /\ UNCHANGED <<lockVars, condVars, putOrder, puts>>

\* queue = std::move(queue_) in drain, which only the unbounded queue has.
Drain(t) ==
    /\ pc[t] = "test" /\ t \in Observers /\ kind = "unbounded"
    /\ takeOrder' = takeOrder \o queue_
    /\ queue_' = <<>>
    /\ Goto(t, "unassign")
    /\ UNCHANGED <<lockVars, condVars, putOrder, puts>>

\* notEmpty_.notify() at the end of put
NotifyNotEmpty(t) ==
    /\ pc[t] = "notify" /\ t \in Producers
    /\ \E woken \in Signalled(notEmpty_) :
          /\ notEmpty_' = notEmpty_ \ woken
          /\ pc' = [u \in Threads |-> IF u \in woken THEN "relock"
                                      ELSE IF u = t THEN "unassign" ELSE pc[u]]
    /\ UNCHANGED <<kind, lockVars, notFull_, dataVars, puts>>

\* Whom take may wake.  Mutant: it notifies only when the queue was full.
WokenByTakeFull == IF Len(queue_) = maxSize - 1 THEN Signalled(notFull_) ELSE {{}}
WokenByTake == Signalled(notFull_)

\* notFull_.notify() at the end of take
NotifyNotFull(t) ==
    /\ pc[t] = "notify" /\ t \in Consumers
    /\ \E woken \in WokenByTake :
          /\ notFull_' = notFull_ \ woken
          /\ pc' = [u \in Threads |-> IF u \in woken THEN "relock"
                                      ELSE IF u = t THEN "unassign" ELSE pc[u]]
    /\ UNCHANGED <<kind, lockVars, notEmpty_, dataVars, puts>>

-----------------------------------------------------------------------------
QueueInit == queue_ = <<>> /\ kind \in {"bounded", "unbounded"}

Init ==
    /\ QueueInit /\ LockInit /\ CondInit
    /\ putOrder = <<>> /\ takeOrder = <<>>
    /\ pc = [t \in Threads |-> "idle"]
    /\ puts = [p \in Producers |-> 0]

\* The steps of a call that has begun.
Step(t) ==
    \/ PthreadLock(t) \/ assignHolder(t) \/ unassignHolder(t) \/ PthreadUnlock(t)
    \/ WaitGuard(t) \/ PthreadWait(t)
    \/ Test(t) \/ Ask(t) \/ PushBack(t) \/ PopFront(t) \/ Drain(t)
    \/ NotifyNotEmpty(t) \/ NotifyNotFull(t)

Next == \E t \in Threads : Call(t) \/ Step(t) \/ SpuriousWakeup(t)

\* A thread that can run does run, one that waits for the mutex gets it in the
\* end, and consumers call take again and again.  Nobody need wake up by itself.
Fairness ==
    /\ \A t \in Threads : WF_vars(Step(t)) /\ SF_vars(PthreadLock(t))
    /\ \A t \in Consumers : WF_vars(Call(t))

Spec == Init /\ [][Next]_vars /\ Fairness

-----------------------------------------------------------------------------
(* Properties *)

Labels == {"idle", "lock", "assign", "test", "wait", "release", "asleep", "relock", "reassign",
           "store", "notify", "unassign", "unlock"}

\* The type invariant.
TypeOK ==
    /\ mutex_ \in Threads \cup {None} /\ holder_ \in Threads \cup {None}
    /\ notEmpty_ \subseteq Consumers /\ notFull_ \subseteq Producers
    /\ kind = "unbounded" => notFull_ = {}
    /\ queue_ \in Seq(Items) /\ putOrder \in Seq(Items) /\ takeOrder \in Seq(Items)
    /\ pc \in [Threads -> Labels] /\ puts \in [Producers -> 0..MaxItems]

\* isLockedByThisThread() is right wherever it may be asked: it is true of the
\* thread between lock() and unlock(), also after it has slept in a wait, and of
\* no other; and holder_ is 0 whenever the mutex is free, as ~MutexLock asserts.
HolderExact ==
    /\ \A t \in Threads : pc[t] \in {"test", "wait", "store", "notify", "unassign"} => isLockedByThisThread(t)
    /\ holder_ # None => mutex_ = holder_

\* Nothing is lost, doubled or overtaken, although the circular buffer overwrites
\* its front when it is full: what went in is what came out, then the queue.
PutIsTake == putOrder = takeOrder \o queue_ /\ (kind = "bounded" => Len(queue_) <= maxSize)

\* Every item that put was called for is taken or drained in the end: no notify is lost,
\* whichever thread wakes up and whoever gets the mutex first.
EveryItemTaken ==
    \A i \in Items : puts[i[1]] >= i[2] ~> \E k \in DOMAIN takeOrder : takeOrder[k] = i
=============================================================================
