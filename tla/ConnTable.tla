----------------------------- MODULE ConnTable -----------------------------
(***************************************************************************)
(* PetsServer::onConnection and GreateDnid (PetsServer.cpp): every         *)
(* connection gets a number (DNID), which is its context in muduo and its  *)
(* key in the map `connections`.                                           *)
(*                                                                         *)
(* The callbacks run in the IO threads of their connections, at the same   *)
(* time, and nothing guards the map.  An access to the map has a beginning *)
(* and an end; when a write overlaps another access, the behaviour of      *)
(* std::map is undefined and from then on the model lets every access      *)
(* lose entries or answer at random.                                       *)
(***************************************************************************)
EXTENDS Integers

CONSTANTS Conns, IOThreads,
          Home,         (* Home[c]: the IO thread that owns connection c   *)
          None,         (* no connection, no number                        *)
          HALF,         (* 65536: the range of each half of a DNID         *)
          RandLen,      (* rand() repeats after RandLen calls              *)
          Rand,         (* Rand[<<s, k>>]: k-th rand() after srand(s)      *)
          FirstTime,    (* time(0) when the server starts                  *)
          MaxTime       (* bound: time(0) when the observation ends        *)

ASSUME ConnTableAssumption ==
    /\ Home \in [Conns -> IOThreads]
    /\ HALF \in Nat /\ HALF > 1 /\ RandLen \in Nat \ {0} /\ FirstTime \in Nat /\ MaxTime \in Nat
    /\ FirstTime <= MaxTime
    /\ Rand \in [(FirstTime..MaxTime) \X (0..(RandLen - 1)) -> Nat]
    /\ None \notin Conns /\ None \notin Nat

Dnids == 0..(HALF * HALF - 1)

\* 0xFFFFFFFF: the DNID of a Pet that has no connection.
InvalidDnid == HALF * HALF - 1

VARIABLES
    link,         (* link[c]: "new", "up" or "down", as muduo tells         *)
    context,      (* context[c]: what setContext stored                     *)
    connections,  (* the map: DNID -> connection, None where no entry is    *)
    pc,           (* where each IO thread is in onConnection                *)
    conn,         (* the connection it works for                            *)
    dnid,         (* the DNID it has generated                              *)
    now,          (* time(0)                                                *)
    seed, calls,  (* the state of rand(): last srand, calls since           *)
    raced,        (* "yes" once two accesses to the map have collided       *)
    serial        (* "yes" as long as no two callbacks have overlapped      *)

randVars == <<seed, calls>>
vars == <<link, context, connections, pc, conn, dnid, now, randVars, raced, serial>>

-----------------------------------------------------------------------------
(* Helpers *)

\* The low half of a DNID.  Mutant: the whole range of 16 bits.
Low16Full(r) == r % HALF
Low16(r) == r % (HALF - 1)

\* (time << 16 | rand() % 0xFFFF), cut to 32 bits.
NewDnid(time, r) == (time % HALF) * HALF + Low16(r)

Reading == {"finding"}
Writing == {"inserting", "erasing"}

\* Thread t starts an access to the map; `others` are the accesses that must not
\* be under way.
Begin(t, access, others) ==
    /\ pc' = [pc EXCEPT ![t] = access]
    /\ raced' = IF \E u \in IOThreads \ {t} : pc[u] \in others THEN "yes" ELSE raced

\* What the map can be after an access that should make it m.
Outcome(m) ==
    IF raced = "no" THEN {m}
    ELSE {[d \in Dnids |-> IF d \in lost THEN None ELSE m[d]] : lost \in SUBSET {d \in Dnids : m[d] # None}}

\* muduo calls onConnection for connection c in the thread that owns it.
Callback(t, c, first) ==
    /\ pc[t] = "idle" /\ Home[c] = t
    /\ pc' = [pc EXCEPT ![t] = first]
    /\ conn' = [conn EXCEPT ![t] = c]
    /\ serial' = IF \E u \in IOThreads : pc[u] # "idle" THEN "no" ELSE serial

Return(t) ==
    /\ pc' = [pc EXCEPT ![t] = "idle"]
    /\ conn' = [conn EXCEPT ![t] = None]
    /\ dnid' = [dnid EXCEPT ![t] = None]

-----------------------------------------------------------------------------
(* onConnection, connected *)

ConnUp(t, c) ==
    /\ link[c] = "new"
    /\ Callback(t, c, "srand")
    /\ link' = [link EXCEPT ![c] = "up"]
    /\ UNCHANGED <<context, connections, dnid, now, randVars, raced>>

\* GreateDnid: srand(time(0)).
Srand(t) ==
    /\ pc[t] = "srand"
    /\ seed' = now /\ calls' = 0
    /\ pc' = [pc EXCEPT ![t] = "rand"]
    /\ UNCHANGED <<link, context, connections, conn, dnid, now, raced, serial>>

\* Mutant: srand has moved into the loop, the same number comes again and again.
AfterRandSame == calls
AfterRand == (calls + 1) % RandLen

\* GreateDnid: the next candidate.
Candidate(t) ==
    /\ pc[t] = "rand"
    /\ dnid' = [dnid EXCEPT ![t] = NewDnid(now, Rand[<<seed, calls>>])]
    /\ calls' = AfterRand
    /\ pc' = [pc EXCEPT ![t] = "find"]
    /\ UNCHANGED <<link, context, connections, conn, now, seed, raced, serial>>

FindBegin(t) ==
    /\ pc[t] = "find"
    /\ Begin(t, "finding", Writing)
    /\ UNCHANGED <<link, context, connections, conn, dnid, now, randVars, serial>>

\* Mutant: the number is taken without a look at the map.
FreeAlways(d) == TRUE
\* connections.find(dnid) == connections.end()
Free(d) == connections[d] = None

\* A free number leaves the loop, a taken one goes round again.
FindEnd(t) ==
    /\ pc[t] = "finding"
    /\ \E free \in IF raced = "no" THEN {Free(dnid[t])} ELSE BOOLEAN :
           pc' = [pc EXCEPT ![t] = IF free THEN "context" ELSE "rand"]
    /\ UNCHANGED <<link, context, connections, conn, dnid, now, randVars, raced, serial>>

\* conn->setContext(boost::any(dnid))
WithContext(t) == [context EXCEPT ![conn[t]] = dnid[t]]

\* setContext, then connections[dnid] = scon begins.
SetContext(t) ==
    /\ pc[t] = "context"
    /\ context' = WithContext(t)
    /\ Begin(t, "inserting", Reading \cup Writing)
    /\ UNCHANGED <<link, connections, conn, dnid, now, randVars, serial>>

\* operator[] replaces an entry that is there.
InsertEnd(t) ==
    /\ pc[t] = "inserting"
    /\ connections' \in Outcome([connections EXCEPT ![dnid[t]] = conn[t]])
    /\ Return(t)
    /\ UNCHANGED <<link, context, now, randVars, raced, serial>>

-----------------------------------------------------------------------------
(* onConnection, disconnected.  The context is never a Pet: nothing sets one. *)

ConnDown(t, c) ==
    /\ link[c] = "up"
    /\ Callback(t, c, "erase")
    /\ link' = [link EXCEPT ![c] = "down"]
    /\ UNCHANGED <<context, connections, dnid, now, randVars, raced>>

EraseBegin(t) ==
    /\ pc[t] = "erase"
    /\ Begin(t, "erasing", Reading \cup Writing)
    /\ UNCHANGED <<link, context, connections, conn, dnid, now, randVars, serial>>

\* Mutant: the entry stays.
ErasedNothing(t) == connections
\* connections.erase(dnid) with the dnid of the context.
Erased(t) == [connections EXCEPT ![context[conn[t]]] = None]

EraseEnd(t) ==
    /\ pc[t] = "erasing"
    /\ connections' \in Outcome(Erased(t))
    /\ Return(t)
    /\ UNCHANGED <<link, context, now, randVars, raced, serial>>

-----------------------------------------------------------------------------
(* Time *)

Tick ==
    /\ now < MaxTime
    /\ now' = now + 1
    /\ UNCHANGED <<link, context, connections, pc, conn, dnid, randVars, raced, serial>>

onConnection(t) ==
    \/ Srand(t) \/ Candidate(t) \/ FindBegin(t) \/ FindEnd(t) \/ SetContext(t) \/ InsertEnd(t)
    \/ EraseBegin(t) \/ EraseEnd(t)

-----------------------------------------------------------------------------
Init ==
    /\ link = [c \in Conns |-> "new"]
    /\ context = [c \in Conns |-> None]
    /\ connections = [d \in Dnids |-> None]
    /\ pc = [t \in IOThreads |-> "idle"]
    /\ conn = [t \in IOThreads |-> None]
    /\ dnid = [t \in IOThreads |-> None]
    /\ now = FirstTime /\ seed = FirstTime /\ calls = 0
    /\ raced = "no" /\ serial = "yes"

Next ==
    \/ \E t \in IOThreads :
          \/ \E c \in Conns : ConnUp(t, c) \/ ConnDown(t, c)
          \/ onConnection(t)
    \/ Tick

\* A callback that has begun goes on.
Spec == Init /\ [][Next]_vars /\ \A t \in IOThreads : WF_vars(onConnection(t))

-----------------------------------------------------------------------------
(* Properties *)

\* The type invariant: a connection whose UP callback has returned has a number
\* for context, which Codec::onMessage and the DOWN callback cast without a test.
TypeOK ==
    /\ link \in [Conns -> {"new", "up", "down"}]
    /\ context \in [Conns -> Dnids \cup {None}]
    /\ connections \in [Dnids -> Conns \cup {None}]
    /\ pc \in [IOThreads -> {"idle", "srand", "rand", "find", "finding", "context", "inserting",
                             "erase", "erasing"}]
    /\ conn \in [IOThreads -> Conns \cup {None}]
    /\ dnid \in [IOThreads -> Dnids \cup {None}]
    /\ now \in FirstTime..MaxTime /\ seed \in FirstTime..MaxTime /\ calls \in 0..(RandLen - 1)
    /\ raced \in {"yes", "no"} /\ serial \in {"yes", "no"}
    /\ \A c \in Conns : link[c] = "up" /\ pc[Home[c]] = "idle" => context[c] # None

\* Connection c has been announced to the server and is not being torn down.
Settled(c) == link[c] = "up" /\ conn[Home[c]] # c

\* No interleaving of the callbacks leaves an entry behind for a connection that
\* is gone: each entry is that of a connection that will still erase it.
NoStaleEntry ==
    raced = "no" =>
        \A d \in Dnids : LET c == connections[d] IN
            c # None => context[c] = d /\ (link[c] = "up" \/ conn[Home[c]] = c)

\* As long as callbacks do not overlap, every connection that is up has a number
\* of its own and is found under it.
SerialTable ==
    serial = "yes" => \A c \in Conns : Settled(c) => connections[context[c]] = c

\* The DNID of a Pet without a connection is never given to one, whatever the time
\* is.
NeverInvalid == \A c \in Conns : context[c] # InvalidDnid

\* GreateDnid comes to an end while a second has more numbers than there are
\* connections.
CallbackReturns ==
    \A t \in IOThreads : pc[t] # "idle" /\ raced = "no" ~> pc[t] = "idle" \/ raced = "yes"

-----------------------------------------------------------------------------
(* What the comments say and the code does not do *)

\* GreateDnid generates a unique number for every connection.  (Asked only of
\* runs in which the map itself has not been corrupted.)
UniqueDnid ==
    raced = "no" =>
        \A a, b \in Conns : a # b /\ Settled(a) /\ Settled(b) => context[a] # context[b]
=============================================================================
