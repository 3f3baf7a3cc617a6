----------------------------- MODULE Dispatcher -----------------------------
(***************************************************************************)
(* Dispatcher (Dispatcher.cpp): the packet queue between the IO threads of *)
(* muduo, which call PushPack from Codec::onMessage, and the logic thread, *)
(* which runs PetsServer::ServerLoop and, once per frame, DispatchMsg.     *)
(*                                                                         *)
(* std::queue is not atomic: a push and a pop are each a load of the       *)
(* container followed by a store, and only the mutex keeps them apart.     *)
(* GetPack looks at empty() without the mutex.                             *)
(*                                                                         *)
(* Time is abstracted to what the code asks of it: clock is "frame" until  *)
(* 50 ms of the frame are over, then "late", and "over" once DispatchMsg   *)
(* has run for more than its 1000 ms.                                      *)
(***************************************************************************)
EXTENDS Integers, Sequences

CONSTANTS IOThreads,    (* muduo's pool: setThreadNum(20)                  *)
          Conns,        (* connections                                     *)
          Home,         (* Home[c]: the IO thread that owns connection c   *)
          Types,        (* values of SMessage::_protocol                   *)
          Bound,        (* those InitServer registered with BindCB         *)
          Logic, None,  (* the logic thread; "the mutex is free"           *)
          MaxPacks      (* bound: packets per connection                   *)

ASSUME DispatcherAssumption ==
    /\ Home \in [Conns -> IOThreads]
    /\ Bound \subseteq Types
    /\ Logic \notin IOThreads /\ None \notin IOThreads /\ Logic # None
    /\ MaxPacks \in Nat

\* SPacket: the connection (dnid), which of its frames it is, and the first byte
\* of the body, which selects the handler.
Packet == [conn : Conns, n : 1..MaxPacks, type : Types]

VARIABLES
    m_MsgQueue,     (* packets waiting                                      *)
    m_msgQueueMtx,  (* who holds the mutex                                  *)
    made,           (* made[c]: packets the codec built for connection c    *)
    iopc,           (* where each IO thread is in PushPack                  *)
    ioPack,         (* the packet it is pushing                             *)
    ioQueue,        (* the queue as its push has loaded it                  *)
    lpc,            (* where the logic thread is in ServerLoop              *)
    pack,           (* its packet, from GetPack to delete                   *)
    lQueue,         (* the queue as its pop has loaded it                   *)
    clock,          (* the time the logic thread would read                 *)
    pushed,         (* history: packets in the order of their pushes        *)
    handled         (* history: packets in the order they were handled      *)

ioVars == <<made, iopc, ioPack, ioQueue>>
logicVars == <<lpc, pack, lQueue, clock, handled>>
vars == <<m_MsgQueue, m_msgQueueMtx, ioVars, logicVars, pushed>>

\* std::terminate ends every thread of the process.
Alive == lpc # "dead"

-----------------------------------------------------------------------------
(* An IO thread: the end of Codec::onMessage and Dispatcher::PushPack *)

\* Mutant: the frames of a connection may come through any IO thread.
OwnsAny(t, c) == t \in IOThreads
\* getNextLoop gives a new connection a loop of the pool, and muduo runs all its
\* callbacks in that one.
Owns(t, c) == Home[c] = t

\* onMessage has a whole frame of connection c: make the packet, call PushPack.
NewPack(t, c, type) ==
    /\ Alive
    /\ iopc[t] = "idle" /\ Owns(t, c)
    /\ made[c] < MaxPacks
    /\ made' = [made EXCEPT ![c] = @ + 1]
    /\ ioPack' = [ioPack EXCEPT ![t] = [conn |-> c, n |-> made[c] + 1, type |-> type]]
    /\ iopc' = [iopc EXCEPT ![t] = "lock"]
    /\ UNCHANGED <<m_MsgQueue, m_msgQueueMtx, ioQueue, logicVars, pushed>>

\* Mutant: the push does not wait for the mutex.
MayPushAlways(t) == TRUE
\* m_msgQueueMtx.lock() blocks while another thread has the mutex.
MayPush(t) == m_msgQueueMtx = None

PushLock(t) ==
    /\ Alive
    /\ iopc[t] = "lock" /\ MayPush(t)
    /\ m_msgQueueMtx' = t
    /\ iopc' = [iopc EXCEPT ![t] = "load"]
    /\ UNCHANGED <<m_MsgQueue, made, ioPack, ioQueue, logicVars, pushed>>

PushLoad(t) ==
    /\ Alive
    /\ iopc[t] = "load"
    /\ ioQueue' = [ioQueue EXCEPT ![t] = m_MsgQueue]
    /\ iopc' = [iopc EXCEPT ![t] = "store"]
    /\ UNCHANGED <<m_MsgQueue, m_msgQueueMtx, made, ioPack, logicVars, pushed>>

PushStore(t) ==
    /\ Alive
    /\ iopc[t] = "store"
    /\ m_MsgQueue' = Append(ioQueue[t], ioPack[t])
    /\ pushed' = Append(pushed, ioPack[t])
    /\ iopc' = [iopc EXCEPT ![t] = "unlock"]
    /\ UNCHANGED <<m_msgQueueMtx, made, ioPack, ioQueue, logicVars>>

\* Mutant: the mutex is not released.
PushUnlockForgets(t) ==
    /\ Alive
    /\ iopc[t] = "unlock"
    /\ iopc' = [iopc EXCEPT ![t] = "idle"]
    /\ UNCHANGED <<m_MsgQueue, m_msgQueueMtx, made, ioPack, ioQueue, logicVars, pushed>>

PushUnlock(t) ==
    /\ Alive
    /\ iopc[t] = "unlock"
    /\ m_msgQueueMtx' = None
    /\ iopc' = [iopc EXCEPT ![t] = "idle"]
    /\ UNCHANGED <<m_MsgQueue, made, ioPack, ioQueue, logicVars, pushed>>

PushPack(t) == PushLock(t) \/ PushLoad(t) \/ PushStore(t) \/ PushUnlock(t)

-----------------------------------------------------------------------------
(* The logic thread: PetsServer::ServerLoop and, inside it, DispatchMsg *)

\* The head of the frame: only a frame that is still in time calls DispatchMsg.
FrameInTime ==
    /\ lpc = "gate" /\ clock = "frame"
    /\ lpc' = "budget"
    /\ UNCHANGED <<m_MsgQueue, m_msgQueueMtx, ioVars, pack, lQueue, clock, handled, pushed>>

FrameLate ==
    /\ lpc = "gate" /\ clock # "frame"
    /\ lpc' = "sleep"
    /\ UNCHANGED <<m_MsgQueue, m_msgQueueMtx, ioVars, pack, lQueue, clock, handled, pushed>>

\* The head of DispatchMsg's loop: less than its second is used up.
BudgetLeft ==
    /\ lpc = "budget" /\ clock # "over"
    /\ lpc' = "empty"
    /\ UNCHANGED <<m_MsgQueue, m_msgQueueMtx, ioVars, pack, lQueue, clock, handled, pushed>>

BudgetSpent ==
    /\ lpc = "budget" /\ clock = "over"
    /\ lpc' = "run" /\ clock' = "late"
    /\ UNCHANGED <<m_MsgQueue, m_msgQueueMtx, ioVars, pack, lQueue, handled, pushed>>

\* Mutant: GetPack trusts the caller.
SeesPackNever == TRUE
\* GetPack's first line, without the mutex.
SeesPack == m_MsgQueue # <<>>

\* GetPack returns false and DispatchMsg is left.
GetPackEmpty ==
    /\ lpc = "empty" /\ ~SeesPack
    /\ lpc' = "run" /\ clock' = (IF clock = "over" THEN "late" ELSE clock)
    /\ UNCHANGED <<m_MsgQueue, m_msgQueueMtx, ioVars, pack, lQueue, handled, pushed>>

GetPackTry ==
    /\ lpc = "empty" /\ SeesPack
    /\ lpc' = "lock"
    /\ UNCHANGED <<m_MsgQueue, m_msgQueueMtx, ioVars, pack, lQueue, clock, handled, pushed>>

GetPackLock ==
    /\ lpc = "lock" /\ m_msgQueueMtx = None
    /\ m_msgQueueMtx' = Logic
    /\ lpc' = "front"
    /\ UNCHANGED <<m_MsgQueue, ioVars, pack, lQueue, clock, handled, pushed>>

\* Mutant: the newest packet is taken.
FrontNewest(queue) == queue[Len(queue)]
Front(queue) == Head(queue)

\* front(), and the load of the queue that pop() works on.
GetPackFront ==
    /\ lpc = "front"
    /\ pack' = Front(m_MsgQueue)
    /\ lQueue' = m_MsgQueue
    /\ lpc' = "pop"
    /\ UNCHANGED <<m_MsgQueue, m_msgQueueMtx, ioVars, clock, handled, pushed>>

GetPackPop ==
    /\ lpc = "pop"
    /\ m_MsgQueue' = Tail(lQueue)
    /\ lpc' = "unlock"
    /\ UNCHANGED <<m_msgQueueMtx, ioVars, pack, lQueue, clock, handled, pushed>>

GetPackUnlock ==
    /\ lpc = "unlock"
    /\ m_msgQueueMtx' = None
    /\ lpc' = "handle"
    /\ UNCHANGED <<m_MsgQueue, ioVars, pack, lQueue, clock, handled, pushed>>

\* delete pack->buffer; delete pack;
Deleted == None

\* The handler of the type runs to its end, then the packet is deleted.
HandleBound ==
    /\ lpc = "handle" /\ pack.type \in Bound
    /\ handled' = Append(handled, pack)
    /\ pack' = Deleted
    /\ lpc' = "budget"
    /\ UNCHANGED <<m_MsgQueue, m_msgQueueMtx, ioVars, lQueue, clock, pushed>>

\* m_callBackMap[type] is an empty std::function: calling it throws, and nothing
\* in the logic thread catches.
HandleUnbound ==
    /\ lpc = "handle" /\ pack.type \notin Bound
    /\ lpc' = "dead"
    /\ UNCHANGED <<m_MsgQueue, m_msgQueueMtx, ioVars, pack, lQueue, clock, handled, pushed>>

\* m_petsManager.Run(), which has no object to run.
Run ==
    /\ lpc = "run"
    /\ lpc' = "sleep"
    /\ UNCHANGED <<m_MsgQueue, m_msgQueueMtx, ioVars, pack, lQueue, clock, handled, pushed>>

\* Sleep for the rest of the frame, or warn, and start the clock of the next one.
Sleep ==
    /\ lpc = "sleep"
    /\ clock' = "frame"
    /\ lpc' = "gate"
    /\ UNCHANGED <<m_MsgQueue, m_msgQueueMtx, ioVars, pack, lQueue, handled, pushed>>

\* Time passes at any moment, also while the thread is not scheduled.
Tick ==
    /\ Alive
    /\ \/ clock = "frame" /\ clock' = "late"
       \/ /\ clock = "late" /\ lpc \notin {"gate", "run", "sleep"}
          /\ clock' = "over"
    /\ UNCHANGED <<m_MsgQueue, m_msgQueueMtx, ioVars, lpc, pack, lQueue, handled, pushed>>

DispatchMsg ==
    \/ BudgetLeft \/ BudgetSpent
    \/ GetPackEmpty \/ GetPackTry \/ GetPackLock \/ GetPackFront \/ GetPackPop \/ GetPackUnlock
    \/ HandleBound \/ HandleUnbound

ServerLoop == FrameInTime \/ FrameLate \/ DispatchMsg \/ Run \/ Sleep

-----------------------------------------------------------------------------
Init ==
    /\ m_MsgQueue = <<>> /\ m_msgQueueMtx = None
    /\ made = [c \in Conns |-> 0]
    /\ iopc = [t \in IOThreads |-> "idle"]
    /\ ioPack = [t \in IOThreads |-> None]
    /\ ioQueue = [t \in IOThreads |-> <<>>]
    /\ lpc = "gate" /\ pack = None /\ lQueue = <<>> /\ clock = "frame"
    /\ pushed = <<>> /\ handled = <<>>

Next ==
    \/ \E t \in IOThreads :
          \/ \E c \in Conns, type \in Types : NewPack(t, c, type)
          \/ PushPack(t)
    \/ ServerLoop
    \/ Tick

\* Threads that can run do run, a mutex that is released again and again is
\* obtained, and the logic thread is not delayed past a deadline between a read
\* of the clock and the next instruction in every single frame.
Fairness ==
    /\ \A t \in IOThreads : WF_vars(PushPack(t)) /\ SF_vars(PushLock(t))
    /\ WF_vars(ServerLoop) /\ SF_vars(GetPackLock)
    /\ SF_vars(FrameInTime) /\ SF_vars(BudgetLeft)

Spec == Init /\ [][Next]_vars /\ Fairness

-----------------------------------------------------------------------------
(* Properties *)

IOLabels == {"idle", "lock", "load", "store", "unlock"}
LogicLabels == {"gate", "budget", "empty", "lock", "front", "pop", "unlock", "handle",
                "run", "sleep", "dead"}

\* The type invariant; also, the logic thread keeps no pointer to a packet that
\* it has deleted or not got yet.
TypeOK ==
    /\ m_MsgQueue \in Seq(Packet) /\ m_msgQueueMtx \in IOThreads \cup {Logic, None}
    /\ made \in [Conns -> 0..MaxPacks]
    /\ iopc \in [IOThreads -> IOLabels]
    /\ ioPack \in [IOThreads -> Packet \cup {None}]
    /\ \A t \in IOThreads : iopc[t] # "idle" => ioPack[t] \in Packet
    /\ ioQueue \in [IOThreads -> Seq(Packet)]
    /\ lpc \in LogicLabels /\ lQueue \in Seq(Packet)
    /\ IF lpc \in {"pop", "unlock", "handle", "dead"} THEN pack \in Packet ELSE pack = None
    /\ clock \in {"frame", "late", "over"}
    /\ pushed \in Seq(Packet) /\ handled \in Seq(Packet)

\* The packet that is out of the queue and not handled yet.
InHand == IF lpc \in {"unlock", "handle", "dead"} THEN 1 ELSE 0

\* Whatever the threads do between each other's loads and stores, no packet is
\* lost, doubled or overtaken: the packets pushed are the ones handled, then
\* the one in the hands of the logic thread, then the queue.
NothingLost ==
    LET out == Len(handled) + InHand IN
    /\ Len(pushed) = out + Len(m_MsgQueue)
    /\ \A i \in 1..Len(handled) : handled[i] = pushed[i]
    /\ InHand = 1 => pack = pushed[out]
    /\ \A i \in 1..Len(m_MsgQueue) : m_MsgQueue[i] = pushed[out + i]

\* The unlocked empty() of GetPack is never stale when it matters: front() and
\* pop() find a packet.
PopFindsPack == lpc \in {"lock", "front", "pop"} => m_MsgQueue # <<>>

\* The packets of a connection are handled in the order of its frames, none
\* left out, although they share the queue with those of all other connections.
ConnectionOrder ==
    \A j \in 1..Len(handled) :
        LET before == {i \in 1..(j - 1) : handled[i].conn = handled[j].conn} IN
        /\ \A i \in before : handled[i].n < handled[j].n
        /\ handled[j].n > 1 => \E i \in before : handled[i].n = handled[j].n - 1

\* Every packet that the codec has made is handled, or the process stops at a
\* packet without a handler: no thread waits for the mutex for ever, and the
\* packets a frame has no time for are taken up by later frames.
Delivered ==
    \A c \in Conns : \A k \in 1..MaxPacks :
        made[c] >= k ~> \/ ~Alive
                        \/ \E i \in DOMAIN handled : handled[i].conn = c /\ handled[i].n = k

\* The dispatcher implements the abstract queue, its progress included.
FD == INSTANCE FifoDispatch
        WITH Packets <- Packet,
             waiting <- IF InHand = 1 THEN <<pack>> \o m_MsgQueue ELSE m_MsgQueue,
             running <- IF Alive THEN "yes" ELSE "no"
FifoDispatchSpec == FD!Spec
=============================================================================
