------------------------------ MODULE SqlQueue ------------------------------
(***************************************************************************)
(* The task queue of MyQuery (MysqlQuery.cpp): Pet::PrepareSQL pushes an   *)
(* SqlPack and notifies a condition variable, the SQL thread runs          *)
(* MysqlLoop.  That thread keeps the mutex from its wait to the end of its *)
(* 500 ms pause: while it pops, while it talks to the database and while   *)
(* it runs the callbacks.                                                  *)
(*                                                                         *)
(* A push is a load and a store of the queue.  The pop in GetSqlPack has   *)
(* no lock of its own.                                                     *)
(***************************************************************************)
EXTENDS Integers, Sequences

CONSTANTS Producers,    (* threads that call PrepareSQL                    *)
          Sql, None,    (* the SQL thread; "the mutex is free"             *)
          Kinds,        (* kinds of packs that are pushed                  *)
          MaxPacks      (* bound: packs per producer                       *)

ASSUME SqlQueueAssumption ==
    /\ Sql \notin Producers /\ None \notin Producers /\ Sql # None
    /\ Kinds \subseteq {"stmt", "procedure", "null"} /\ MaxPacks \in Nat

\* What distinguishes SqlPacks here, their kind: a prepared statement or a plain one with a
\* QueryBind, a procedure with its array of boost::any, and a pack whose union
\* pointer is null.
Pack == [from : Producers, n : 1..MaxPacks, type : Kinds]

VARIABLES
    m_sqlTaskQueue, (* packs waiting                                        *)
    m_sqlQueueMtx,  (* who holds the mutex                                  *)
    made,           (* made[p]: packs producer p has prepared               *)
    ppc,            (* where each producer is in PrepareSQL                 *)
    sqlpack,        (* its pack                                             *)
    pQueue,         (* the queue as its push has loaded it                  *)
    spc,            (* where the SQL thread is in MysqlLoop                 *)
    pack,           (* its pack                                             *)
    pushed,         (* history: packs in the order of their pushes          *)
    taken,          (* history: packs in the order of their pops            *)
    freedBinds,     (* history: packs whose union pointer has been deleted  *)
    freedPacks      (* history: packs that have been deleted                *)

producerVars == <<made, ppc, sqlpack, pQueue>>
doneVars == <<freedBinds, freedPacks>>
vars == <<m_sqlTaskQueue, m_sqlQueueMtx, producerVars, spc, pack, pushed, taken, doneVars>>

-----------------------------------------------------------------------------
(* Pet::PrepareSQL and MyQuery::PushSqlPack *)

PrepareSQL(p, type) ==
    /\ ppc[p] = "idle" /\ made[p] < MaxPacks
    /\ made' = [made EXCEPT ![p] = @ + 1]
    /\ sqlpack' = [sqlpack EXCEPT ![p] = [from |-> p, n |-> made[p] + 1, type |-> type]]
    /\ ppc' = [ppc EXCEPT ![p] = "lock"]
    /\ UNCHANGED <<m_sqlTaskQueue, m_sqlQueueMtx, pQueue, spc, pack, pushed, taken, doneVars>>

PushLock(p) ==
    /\ ppc[p] = "lock" /\ m_sqlQueueMtx = None
    /\ m_sqlQueueMtx' = p
    /\ ppc' = [ppc EXCEPT ![p] = "load"]
    /\ UNCHANGED <<m_sqlTaskQueue, made, sqlpack, pQueue, spc, pack, pushed, taken, doneVars>>

PushLoad(p) ==
    /\ ppc[p] = "load"
    /\ pQueue' = [pQueue EXCEPT ![p] = m_sqlTaskQueue]
    /\ ppc' = [ppc EXCEPT ![p] = "store"]
    /\ UNCHANGED <<m_sqlTaskQueue, m_sqlQueueMtx, made, sqlpack, spc, pack, pushed, taken, doneVars>>

PushStore(p) ==
    /\ ppc[p] = "store"
    /\ m_sqlTaskQueue' = Append(pQueue[p], sqlpack[p])
    /\ pushed' = Append(pushed, sqlpack[p])
    /\ ppc' = [ppc EXCEPT ![p] = "unlock"]
    /\ UNCHANGED <<m_sqlQueueMtx, made, sqlpack, pQueue, spc, pack, taken, doneVars>>

PushUnlock(p) ==
    /\ ppc[p] = "unlock"
    /\ m_sqlQueueMtx' = None
    /\ ppc' = [ppc EXCEPT ![p] = "notify"]
    /\ UNCHANGED <<m_sqlTaskQueue, made, sqlpack, pQueue, spc, pack, pushed, taken, doneVars>>

\* Mutant: nobody is woken.
NotifiedNobody == spc
\* Where a notification finds the SQL thread and where it sends it.
Notified == IF spc = "wait" THEN "woken" ELSE spc

\* m_cv.notify_one(): wakes the SQL thread if it waits, and is forgotten if not.
Notify(p) ==
    /\ ppc[p] = "notify"
    /\ spc' = Notified
    /\ ppc' = [ppc EXCEPT ![p] = "idle"]
    /\ sqlpack' = [sqlpack EXCEPT ![p] = None]
    /\ UNCHANGED <<m_sqlTaskQueue, m_sqlQueueMtx, made, pQueue, pack, pushed, taken, doneVars>>

Producer(p) == PushLock(p) \/ PushLoad(p) \/ PushStore(p) \/ PushUnlock(p) \/ Notify(p)

-----------------------------------------------------------------------------
(* MyQuery::MysqlLoop *)

\* unique_lock lk(m_sqlQueueMtx), and the same when wait() has been woken.
SqlLock ==
    /\ spc \in {"lock", "woken"} /\ m_sqlQueueMtx = None
    /\ m_sqlQueueMtx' = Sql
    /\ spc' = "test"
    /\ UNCHANGED <<m_sqlTaskQueue, producerVars, pack, pushed, taken, doneVars>>

\* Mutant: wait() without a predicate sleeps first.
WaitOverNever == FALSE
\* The predicate of wait().
WaitOver == m_sqlTaskQueue # <<>>

WaitDone ==
    /\ spc = "test" /\ WaitOver
    /\ spc' = "drain"
    /\ UNCHANGED <<m_sqlTaskQueue, m_sqlQueueMtx, producerVars, pack, pushed, taken, doneVars>>

\* Mutant: the thread polls the queue with the mutex in its hand.
WaitSpins ==
    /\ spc = "test" /\ ~WaitOver
    /\ UNCHANGED vars

\* The wait releases the mutex and falls asleep in one step.
Wait ==
    /\ spc = "test" /\ ~WaitOver
    /\ m_sqlQueueMtx' = None
    /\ spc' = "wait"
    /\ UNCHANGED <<m_sqlTaskQueue, producerVars, pack, pushed, taken, doneVars>>

\* A condition variable may also wake up for no reason.
SpuriousWakeup ==
    /\ spc = "wait"
    /\ spc' = "woken"
    /\ UNCHANGED <<m_sqlTaskQueue, m_sqlQueueMtx, producerVars, pack, pushed, taken, doneVars>>

\* Mutant: the mutex is released before the queue is worked off.
WhileDrainingUnlocked == None
\* lk lives to the end of the loop's body.
WhileDraining == m_sqlQueueMtx

\* GetSqlPack; a pack without a bind is passed over, and so is its delete.
GetSqlPack ==
    /\ spc = "drain" /\ m_sqlTaskQueue # <<>>
    /\ m_sqlTaskQueue' = Tail(m_sqlTaskQueue)
    /\ taken' = Append(taken, Head(m_sqlTaskQueue))
    /\ IF Head(m_sqlTaskQueue).type = "null"
       THEN UNCHANGED <<pack, spc>>
       ELSE pack' = Head(m_sqlTaskQueue) /\ spc' = "execute"
    /\ m_sqlQueueMtx' = WhileDraining
    /\ UNCHANGED <<producerVars, pushed, doneVars>>

\* The database answers and the callback runs, or it refuses and none does: the
\* queue and the pack do not know the difference.
ExecuteSentence ==
    /\ spc = "execute"
    /\ spc' = "free"
    /\ UNCHANGED <<m_sqlTaskQueue, m_sqlQueueMtx, producerVars, pack, pushed, taken, doneVars>>

\* delete pack
Deleted == None

\* The else belongs to the inner if: only procedures get their array deleted.
Free ==
    /\ spc = "free"
    /\ freedBinds' = IF pack.type = "procedure" THEN freedBinds \cup {pack} ELSE freedBinds
    /\ freedPacks' = freedPacks \cup {pack}
    /\ pack' = Deleted
    /\ spc' = "drain"
    /\ UNCHANGED <<m_sqlTaskQueue, m_sqlQueueMtx, producerVars, pushed, taken>>

DrainDone ==
    /\ spc = "drain" /\ m_sqlTaskQueue = <<>>
    /\ spc' = "pause"
    /\ UNCHANGED <<m_sqlTaskQueue, m_sqlQueueMtx, producerVars, pack, pushed, taken, doneVars>>

\* The 500 ms are over and lk goes out of scope.
Pause ==
    /\ spc = "pause"
    /\ m_sqlQueueMtx' = None
    /\ spc' = "lock"
    /\ UNCHANGED <<m_sqlTaskQueue, producerVars, pack, pushed, taken, doneVars>>

\* The SQL thread's own steps.
MysqlLoop ==
    \/ SqlLock \/ WaitDone \/ Wait \/ GetSqlPack \/ ExecuteSentence \/ Free
    \/ DrainDone \/ Pause

-----------------------------------------------------------------------------
Init ==
    /\ m_sqlTaskQueue = <<>> /\ m_sqlQueueMtx = None
    /\ made = [p \in Producers |-> 0]
    /\ ppc = [p \in Producers |-> "idle"]
    /\ sqlpack = [p \in Producers |-> None]
    /\ pQueue = [p \in Producers |-> <<>>]
    /\ spc = "lock" /\ pack = None
    /\ pushed = <<>> /\ taken = <<>>
    /\ freedBinds = {} /\ freedPacks = {}

Next ==
    \/ \E p \in Producers : Producer(p) \/ \E type \in Kinds : PrepareSQL(p, type)
    \/ MysqlLoop \/ SpuriousWakeup

\* Threads that can run do run, the database answers, and a mutex that is
\* released again and again is obtained.  Nobody is owed a spurious wakeup.
Spec ==
    /\ Init /\ [][Next]_vars
    /\ WF_vars(MysqlLoop) /\ SF_vars(SqlLock)
    /\ \A p \in Producers : WF_vars(Producer(p)) /\ SF_vars(PushLock(p))

-----------------------------------------------------------------------------
(* Properties *)

ProducerLabels == {"idle", "lock", "load", "store", "unlock", "notify"}
SqlLabels == {"lock", "test", "wait", "woken", "drain", "execute", "free", "pause"}

\* The type invariant; the SQL thread owns a pack exactly while it works on it.
TypeOK ==
    /\ m_sqlTaskQueue \in Seq(Pack) /\ m_sqlQueueMtx \in Producers \cup {Sql, None}
    /\ made \in [Producers -> 0..MaxPacks]
    /\ ppc \in [Producers -> ProducerLabels]
    /\ sqlpack \in [Producers -> Pack \cup {None}]
    /\ \A p \in Producers : ppc[p] # "idle" => sqlpack[p] \in Pack
    /\ pQueue \in [Producers -> Seq(Pack)]
    /\ spc \in SqlLabels
    /\ IF spc \in {"execute", "free"} THEN pack \in Pack ELSE pack = None
    /\ pushed \in Seq(Pack) /\ taken \in Seq(Pack)
    /\ freedBinds \subseteq Pack /\ freedPacks \subseteq Pack

\* The pop in GetSqlPack needs no lock of its own: no pack is lost, doubled or
\* overtaken.
NothingLost ==
    /\ Len(pushed) = Len(taken) + Len(m_sqlTaskQueue)
    /\ \A i \in 1..Len(taken) : taken[i] = pushed[i]
    /\ \A i \in 1..Len(m_sqlTaskQueue) : m_sqlTaskQueue[i] = pushed[Len(taken) + i]

\* No wakeup is lost: a pack that is in the queue never has to wait for a later
\* pack, or for a spurious wakeup, to be noticed.
SomeoneWillNotice ==
    m_sqlTaskQueue # <<>> /\ spc = "wait" => \E p \in Producers : ppc[p] \in {"unlock", "notify"}

\* PrepareSQL returns to its caller, although the mutex it needs is held through
\* queries, callbacks and pauses.
PrepareReturns == \A p \in Producers : ppc[p] # "idle" ~> ppc[p] = "idle"

\* The SQL thread implements the same first-in first-out promise as Dispatcher,
\* with a pop for the handling.
FD == INSTANCE FifoDispatch
        WITH Packets <- Pack, Bound <- Kinds,
             waiting <- m_sqlTaskQueue, handled <- taken, running <- "yes"
FifoDispatchSpec == FD!Spec

=============================================================================
