# PetsServer in TLA+

A verification project for PetsServer, a C++ game server on top of muduo and
MySQL. The modules in this directory model the server's own code and the parts of
muduo whose code is in the repository, TLC checks them on small instances, and TLAPS
proves the main results for every instance. `PROJECT.json` lists the components, the
runs, the mutants, the source lines behind every definition, the hazards, the findings
and the theorems.

## 1. The system

Four kinds of threads share the process:

| thread | code | touches |
|---|---|---|
| 20 IO threads (muduo) | `Codec::onMessage`, `PetsServer::onConnection` | input Buffers, `connections`, the packet queue |
| logic thread | `PetsServer::ServerLoop` -> `Dispatcher::DispatchMsg` -> `PetsManager` | the packet queue, the frame clock, the (empty) object map |
| SQL thread | `MyQuery::MysqlLoop` | the SQL task queue, the database handles, the static `ProcedureHelper` |
| main thread | `start()`, then muduo's base loop with the `checkAlive` timer | everything, while it brings it up; the SQL task queue (two test queries) |

A packet travels: TCP bytes -> `Codec::onMessage` cuts frames -> `Dispatcher::PushPack`
-> queue -> `DispatchMsg` once per 50 ms frame -> the handler bound to the first byte
of the body -> a branch chosen by the second byte -> for a login, `Pet::OnNetLoginMsg`
and `Pet::Parse`. Towards the database: `Pet::PrepareSQL` -> queue and condition variable
-> `MysqlLoop` -> statement, query or stored procedure -> callback, in the SQL thread.

### Inventory

| component | state | operations | what is hard | what makes it correct |
|---|---|---|---|---|
| Codec (`codec.cpp`) | a connection's Buffer | `onMessage`, `SendMsg` | TCP cuts the stream anywhere; half-closed connections | packets are exactly the frames, in order; nothing after an invalid length |
| Dispatcher (`Dispatcher.cpp`) | queue, mutex, handler map | `PushPack`, `GetPack`, `DispatchMsg`, `BindCB` | many producers, an unlocked `empty()`, a time budget | nothing lost, doubled or reordered; everything handled in the end |
| ServerLoop, CELLTimestamp (`PetsServer.cpp`, `CELLTimestamp.cpp`) | frame clock | gate, dispatch, run, sleep, update | late frames, rounding, a clock that is set | frames of the right length; a dispatch that ends |
| Connection table (`PetsServer.cpp`) | map DNID -> Connection, rand() | `onConnection`, `GreateDnid` | 20 threads, no lock, look-up and insert apart | unique DNIDs, no stale entry, the search ends |
| Start-up, database connection (`main.cpp`, `PetsServer.cpp`, `MysqlQuery.cpp`) | callbacks, handles, threads | `InitServer`, `Init`, `Connect`, `start`, destructor | parts made without a lock, any step failing | nothing is used before it is ready; a failed start ends |
| Statements and queries (`MysqlQuery.cpp`) | MYSQL handles, result sets, binds | `ExecuteSentence`, `ExecuteStmt`, `ExecuteSQL`, `FetchResult` | uninitialised binds, failures at every call, NULLs | every result set freed once, the right answer to a login |
| SQL queue (`MysqlQuery.cpp`, `Pet.cpp`) | queue, mutex, condition variable | `PrepareSQL`, `MysqlLoop` | lost wakeups, a mutex held for long, release of packs | nothing lost, nobody stuck, packs released |
| Stored procedures (`ProcedureHelper.cpp`) | static helper: parameters, counts, result set | `Prepare`, `Execute`, `Clear` | failures at each of four queries; state left for the next call | own parameter list, OUT values in place, every result set freed once |
| Message definitions, PetsManager, Pet | none | handlers, `Parse` | two protocol bytes; texts without an end | messages reach their family, texts are split right |
| Object manager (`ObjectManager.cpp`) | map DNID -> Object, always empty | `Run`, `RealseObject`, `_Locate` | none while it is empty | only `Run` on the empty map is modelled, see section 5 |
| muduo Buffer, StringPiece | a vector and two indexes | append, prepend, retrieve, peek, search, compare, shrink | moving, growing, stale bytes | a queue of bytes with room for a header |
| muduo Mutex, Condition, queues | mutex, holder, sleepers, queue | `lock`, `wait`, `notify`, `put`, `take`, `drain` | spurious wakeups, overtaking | nothing lost or overwritten, nobody asleep for ever |
| Logging (`LogStream.h`, `Logging.h`) | a fixed buffer per line | `<<` | - | not modelled, see section 5 |
| Heartbeat | ttl | `checkAlive`, empty | - | - |

## 2. Modules

| module | models | abstract counterpart |
|---|---|---|
| `Codec` | `onMessage` on one connection | `FrameChannel` |
| `Dispatcher` | `PushPack`, `GetPack`, `DispatchMsg`, `ServerLoop` | `FifoDispatch` |
| `ConnTable` | `onConnection`, `GreateDnid` | |
| `SqlQueue` | `PrepareSQL`, `MysqlLoop` | `FifoDispatch` |
| `ProcedureHelper` | `ExecuteProcedure` | |
| `Statement`, `StartUp` (extends it) | statements, queries and their callbacks; `main`, `start`, `InitServer`, `Init`, destructor | |
| `ServerFrame` | `ServerLoop` and `DispatchMsg` in time | |
| `MessageRouting` | `NetMsg/*.hpp`, the switches of `PetsManager`, `Pet::Parse` | |
| `Buffer` | muduo's Buffer, StringPiece, byte order, BufferOutputStream | `ByteQueue` |
| `BlockingQueue` | muduo's MutexLock, Condition and both blocking queues | |
| `CodecProofs`, `DispatcherProofs`, `SqlQueueProofs`, `ConnTableProofs`, `ProcedureHelperProofs`, `StartUpProofs` | theorems about the module of the same name, `Statement` with `StartUp` | |
| `ServerProofs` | theorems about what the logic thread does with its time and its messages: `ServerFrame` and `MessageRouting` | |
| `MuduoProofs` | theorems about the classes of muduo: `BlockingQueue`, and `Buffer` with its refinement of `ByteQueue` | |
| `MC*` | constants for TLC | |

**Codec.** A byte is its position in the stream. `sent` and `off` are what the peer
wrote and where each frame starts, `arrived - taken` bytes are in the Buffer,
`pushedLen`/`pushedAt` are the packets and where their bodies were copied from. Each way
through the body of the loop is an action: `HalfHeader`, `RejectLength`, `PushFrame`,
`HalfFrame`. A length field read at a position where no frame starts decodes to any
value, so a slip of one byte cannot hide. After `RejectLength` the bytes stay in the
Buffer and later reads call `onMessage` again, as in the code; a close may come between
any two reads. The byte order conversion is in `Buffer`.

**Dispatcher.** `std::queue` is not atomic: a push and a pop are each a load and a store,
with the instructions of lock, unlock and the unlocked `empty()` around them. The logic
thread walks through `ServerLoop`: gate (50 ms), budget (1000 ms), `GetPack`, handling,
`Run`, sleep. Time is `clock`: in the frame, late, over budget; `Tick` may come at any
point. A packet of an unbound type calls an empty `std::function`: the process ends
(`lpc = "dead"`). The branch for a null buffer is left out: `malloc(len)` with glibc
returns a pointer for every length the codec accepts. The unlocked `size()` in the log
lines only reaches the log.

**ConnTable.** Each access to the map has a begin and an end. A write that overlaps any
access is undefined behaviour: `raced` becomes "yes", and from then on accesses may lose
entries or answer at random; the properties ask nothing more of such a state. The
generator is the shared state of `srand`/`rand` (`seed`, `calls`). A DNID is
`(time % 2^16) * 2^16 + rand % 0xFFFF`, with 2^16 as the constant `HALF`.

**SqlQueue.** Producers push as in Dispatcher and then notify. The SQL thread keeps the
mutex from its wait to the end of its pause, which is why the pop is one step. The
condition variable may wake up spuriously. Database answers are success or failure.
`freedBinds` and `freedPacks` record what is deleted. At this commit only `start()` calls
`PrepareSQL` (the use in `OnNetLoginMsg`, on the logic thread, is commented out); the
model allows any set of producers, which covers both.

**ProcedureHelper.** One static object over several calls. Prepare reads the parameter
list token by token with its three-state switch; Execute assembles the statements in a loop
over the parameters, then it is set, call, release, select, bind; every failure goes to Clear. Result sets are numbered, so that a leak and a double
free are visible. Values of OUT parameters are the columns of the select. The end of
Execute without a return statement is a choice between the two outcomes for the caller; a
second free is a choice between going on and the end of the process. A list of types of
several words (`int unsigned`) is outside the format that `ProcedureHelper.hpp` asks for
and outside the model, as are lists longer than the array.

**Statement, StartUp.** Statement is the SQL thread inside `ExecuteSentence`, one call of the
client library after the other, each of which may fail. An answer is a number of columns
and the first column of its rows, NULL included; result sets carry the number of their task.
What `QueryBind` leaves uninitialised is chosen when it is made: `IsNull()` is any value,
and the `error` pointer may be wild, so that a fetch may end the process. With
`CLIENT_MULTI_RESULTS`, a query may leave results on the connection (`more`), after which the
library refuses every command. StartUp puts it into its setting: `Program` is what `start` does,
in order, with one action per step and `InitFails` and `ThreadThrows` for what can go wrong;
meanwhile the threads that have been started work. The mutants of `Program` swap two of
its steps. The destructor's joins are the guard of `Join`.

**ServerFrame.** Time is counted in fractions of a millisecond since the frame began: `real`
passes, `jump` is by how much the system clock has been set (libstdc++'s
`high_resolution_clock` is the system clock). The frame timer is compared as a fraction and
truncated to an `int`; the dispatcher's clock is in whole milliseconds, subtracted modulo
2^64. Handlers take time; `Run` goes through a map into which nothing is ever put.

**MessageRouting.** The two protocol bytes that the constructors write select handler and
branch; a login's text is parsed. `msg` remembers which message was made. Nobody tells a
handler how long its frame was: `beyond` is what follows it on the heap, up to some NUL.
`Parse` is one action per round of its loop; the missing return behind it is a choice between
the result and a trap. `OnNetLoginMsg` only logs what comes out, which is left out.

**Buffer.** The vector with all its bytes, the stale ones too, and the two indexes. Every public
operation of the class that the server or another modelled class uses is an action,
integers in network order included; `answer` is what the last call returned. `ByteQueue` knows
nothing but the content.

**BlockingQueue.** Each pthread call is a step: `MutexLock` takes the mutex and then writes
`holder_`, a wait clears it, releases, sleeps, takes the mutex and writes it again. `kind` is
bounded or unbounded; the unbounded queue can be drained. Any sleeping thread may wake up
by itself.

## 3. Runs

| run | bounds | states | result |
|---|---|---|---|
| `codec` | 3 frames, lengths -1..3 with limit 2, reads of 1..6 bytes, 4-byte header | 8 thousand | passes |
| `dispatcher` | 2 IO threads, 2 connections, 2 packets each, one unbound type | 84 thousand | passes |
| `conn_table` | 3 connections on 2 threads, halves of 4 values, 2 seconds | 370 thousand | passes |
| `sql_queue` | 2 producers, 2 packs each | 69 thousand | passes |
| `procedure` | 2 calls, up to 3 parameters of 4 directions and 3 types | 484 thousand | passes |
| `start_up` | 3 tasks, answers of 2 columns and 2 rows, 3 handlers | 38 thousand | passes |
| `server_frame` | half milliseconds, a frame of 2 ms, a budget of 3 ms, clock set by -20..2.5 ms | 29 thousand | passes |
| `message` | all declared messages, texts of up to 3 bytes of 4 values, 2 bytes and a NUL behind the frame | 20 thousand | passes |
| `buffer` | bytes of 2 values, a vector of up to 5, header of 2, integers of 1 and 2 bytes | 9 thousand | passes |
| `blocking_queue` | 2 producers with 2 items, 2 consumers, 1 observer, capacity 2 and none | 72 thousand | passes |
| `conn_unique` | as `conn_table` | | violated |
| `procedure_free` | as `procedure` | | violated |

The bounds are the smallest at which the interesting cases happen. Codec: lengths on both
sides of both limits, an empty body, reads that end inside a header, inside a body, at a
boundary and beyond it. Dispatcher: two producers in the push at once while the consumer
pops, and a connection with two packets for the order. ConnTable: a thread with two
connections and one that competes with it, a `rand()` that repeats, and a clock whose low half
wraps, so that the sentinel 0xFFFFFFFF would come up. ProcedureHelper: three parameters are
one of each direction, two calls are one that fails and one that meets what it left. StartUp:
three tasks are the two of `start` and one after a failure; two rows are a NULL and an id in
either order. ServerFrame: units smaller than a millisecond for the rounding, a budget longer than
a frame, and a clock set back by less and by more than a dispatch has run. MessageRouting:
three bytes hold two separators and a letter, or a text with and without its end, and the two
behind it a letter and a separator; of the values of a
byte, NUL, the separator, a letter and the first byte of a login take different paths. Buffer: five
bytes allow moving, growing and shrinking, each with and without stale bytes. BlockingQueue:
two of each kind, so that the wrong one can be woken, and more items than places.

What the passing runs show:

* `codec`: `Reassembly` (the i-th packet is the i-th body), `NothingLeftBehind` (no complete
  frame waits for more bytes), `RefusedForGood` (no packet after an invalid length),
  `OnMessageReturns`, and that Codec implements `FrameChannel`.
* `dispatcher`: `NothingLost`, `PopFindsPack` (the unlocked `empty()` is safe with one
  consumer), `ConnectionOrder`, `Delivered` (every packet is handled or the process stops
  at an unbound type), and that Dispatcher implements `FifoDispatch`.
* `conn_table`: `NoStaleEntry`, `SerialTable`, `NeverInvalid`, `CallbackReturns`.
* `sql_queue`: `NothingLost` (the pop needs no lock of its own),
  `SomeoneWillNotice` (no lost wakeup), `PrepareReturns`, and `FifoDispatch` again.
* `procedure`: `ParsedAsDeclared`, `OutsBound`, `NoLeak`, `CallEnds`.
* `start_up`: `ReadyBeforeUse`, `FailedStartEnds`; `ResultsFreedOnce`; `LoginAnswer` (a login is
  accepted only on an id of its own answer, whatever the uninitialised `IsNull()` says).
* `server_frame`: `FrameLength` (to the millisecond, and what setting the clock does to it),
  `DispatchBounded` (the unsigned difference keeps a clock set back from prolonging a dispatch).
* `message`: `ParseSplits` against a reference definition; `AccountOrigin` (a text with its NUL is
  parsed as it was sent; without it, what follows the frame on the heap goes to the password,
  or, if the separator is missing too, to the account); `RoutedToCase` (every declared message
  runs the case written for it, a `SRegisterMsg` excepted, which runs that of a login).
* `buffer`: `HeaderRoom` (what `SendMsg` relies on), `GrowsOnlyWhenFull`, and that Buffer
  implements `ByteQueue`. The round trip of integers is an assumption that TLC evaluates.
* `blocking_queue`: `HolderExact`, `PutIsTake`, `EveryItemTaken`.

The violated ones are the findings of `PROJECT.json`: DNIDs that are not unique, and a result
set that is freed twice. Every module with state of its own kind also has a `TypeOK`; those
that say no more than their name are not in the lists of the runs.

### Fairness

* Codec: `onMessage` runs to its end once called (weak fairness of its steps).
* Dispatcher: every thread that can run does (weak fairness); a mutex that is released again
  and again is obtained (strong fairness of the two lock steps); and the logic thread
  is not delayed past a deadline, between reading the clock and acting on it, in every
  single frame (strong fairness of `FrameInTime` and `BudgetLeft`). The last one is what the
  gate costs: the frame clock is updated at the end of a frame and read at the head of
  the next, microseconds later; only a scheduler that suspends the thread for 50 ms at this
  very place each time could keep packets waiting.
* ConnTable: a callback that has begun goes on.
* SqlQueue: as Dispatcher; the database answers. Spurious wakeups are possible and never owed.
* ProcedureHelper: the SQL thread goes on and the database answers.
* StartUp: the main thread runs.
* BlockingQueue: a thread inside a call goes on (weak), one that waits for the mutex gets it
  in the end (strong), and consumers call `take` again; spurious wakeups are never owed.

ServerFrame, MessageRouting and Buffer have safety properties only. Deadlock checking is off
where the model runs out of its bound (frames, packets, connections, calls, tasks), where the process
may end, and where threads may all have finished; SqlQueue and ServerFrame are checked for deadlock.

## 4. Proofs

`CodecProofs`, for all `HEADMSGLEN > 0`, `MAXLEN`, sets of lengths and read sizes
(`CodecAssumption`): `CodecTypeOK`, `CodecReassembly`, `CodecNothingLeftBehind`,
`CodecRefusedForGood` and `CodecImplementsFrameChannel`. The invariant of the runs is not
inductive: that the next packet is right needs to know where the codec stands. The
strengthening is `Offsets` (frames lie one behind the other, each as long as header and
body), `Position` (`taken` is the start of the first frame not pushed) and `Shut` (a
connection being shut stands at an unacceptable frame). From these, `FieldIsNext` shows
that the bytes read as a length field are one, and the steps follow.

`DispatcherProofs`, for any number of IO threads, connections, types and packets
(`DispatcherAssumption`): `DispatcherTypeOK`, `DispatcherNothingLost`,
`DispatcherPopFindsPack`, `DispatcherConnectionOrder` and `DispatcherFifo`. A store puts back
the queue its thread has loaded, so `NothingLost` needs `Loaded` (what was loaded is still the
queue), which needs `Mutex` (whoever is between a load and a store has the mutex). There is
one lemma per action. `ConnectionOrder` is a second induction on top of the first: a packet on
its way to the queue is the newest of its connection (`Newest`), the packets of a connection have been
pushed up to that one and none is missing (`Reached`), so each push continues the order
(`PushOrder`), and `NothingLost` carries it from the pushes to the handling. It rests on
muduo's promise that one loop runs all callbacks of a connection (`Home`).
`DispatcherFifo` is the safety part of the refinement of `FifoDispatch`, step by step: a
store is a `Put`, a handled packet a `Handle`, the exception a `Stop`, and everything else,
the pop included, changes nothing of the packets that wait, of which the one in the hands of the
logic thread is the first.

`SqlQueueProofs`, for any number of producers, kinds and packs (`SqlQueueAssumption`):
`SqlQueueTypeOK`, `SqlQueueNothingLost`, `SqlQueueSomeoneWillNotice` and `SqlQueueFifo`.
`NothingLost` needs `Loaded` and `Mutex` as in the dispatcher; here `Mutex` also says that the SQL
thread has the mutex from the test of its wait to the end of its pause, which is what replaces a
lock in `GetSqlPack`. `SomeoneWillNotice` is inductive together with `TypeOK`: a store leaves its
producer before its notification, and the thread goes to sleep only over an empty queue. The
steps of the SQL thread that leave the queue alone share one lemma (`ThreadStep`). `SqlQueueFifo`
is the safety part of the refinement of `FifoDispatch`, with the pop as the handling.

`MuduoProofs` on BlockingQueue, for any number of producers, consumers, observers and items and any
capacity (`BlockingQueueAssumption`): `BlockingQueueHolderExact` and `BlockingQueuePutIsTake`. A thread
has the pthread mutex for longer than `holder_` says so: `Locked` and `Held` name the two
stretches of a call, also around a wait, and `HolderExact` is where the second lies in the first.
`PutIsTake` needs `Tested`: what the loop around a wait has found (a free place, an
item) is still true when the queue is changed. `Sleepers` says that a notification wakes only
threads that are asleep.

`MuduoProofs` on Buffer, for any values of a byte, widths of integers, `kCheapPrepend`, initial size
and bounds on vector and data (`BufferAssumption`): `BufferLayout`, the action properties `BufferHeaderRoom` and
`BufferGrowsOnlyWhenFull`, and `BufferByteQueue`, the refinement of `ByteQueue`. The invariant,
`BufferIInv`, is the layout of the class and one fact that the picture at the head of `Buffer.h` does not
show: the vector never gets smaller than `kCheapPrepend`, or `retrieveAll` would put the
indexes behind its end. The refinement is about bytes. Each helper has a lemma
(`StoredFacts`, `MovedFacts`, `AppendedFacts`, ...) that says what it does to the content; `ShrinkStep` puts
those of `shrink` together. A lemma per operation then names the step of `ByteQueue` it takes. That
the comparisons of `StringPiece` agree with the lexicographic order needs the first byte in which two strings differ, which
`memcmp` stops at: `LeastElement` gets it from the well-foundedness of the naturals.
`PowersAssumption` says that the powers of `Base` are positive, since the provers know nothing of
`^`; TLC evaluates it.

`ConnTableProofs`, for any connections, IO threads and assignment of the ones to the others, any
`rand()` and any time (`ConnTableAssumption`): `ConnTableNoStaleEntry`, `ConnTableSerialTable`
and `ConnTableNeverInvalid`. `NoStaleEntry` needs to know for which connection a callback works and
how far it has come (`Callbacks`, `Numbered`), and that a connection has no entry before its insertion, also
after a collision (`Entered`). `SerialTable` is about runs in which no two callbacks overlap: then nothing
races (`Alone`), and what the look-up has found still holds at the insertion and at the
erasure (`Kept`). `NeverInvalid` needs the arithmetic of `GreateDnid`: `rand() % 0xFFFF` is never
0xFFFF (`Valid`).

`ProcedureHelperProofs`, for any number of calls, any size of `parameters` and any parameter list
that fits (`ProcedureHelperAssumption`): `ProcedureHelperParsedAsDeclared`, `ProcedureHelperOutsBound` and
`ProcedureHelperNoLeak`. `Tokens` says that the switch of Prepare takes every word for what it
is, `Parsed` what the parameters and the counts say of the part of the list that has been read;
that they say nothing when a call begins is the work of Clear on every path (`Empty`). If the
list has its IN parameters first, the counts tell where they end; `Selected` says which
variables the loop of Execute has put in the select, `Bound` which columns have been bound.
`NoLeak` needs `Owned`: only `res` can be a result set that is not freed, and it is freed
before every query that replaces it. The double free, which `procedure_free` shows, is the other
side of this: `res` is kept.

`StartUpProofs`, for any set of handlers, any number of tasks and answers of any length
(`StatementAssumption`): `StartUpReadyBeforeUse`, `StartUpResultsFreedOnce`, `StartUpLoginAnswer` and `StartUpJoinable`, the safe
half of `FailedStartEnds`. `Built` and `Later` say what has been made, and what has not, at each
step of `Program`. `Owned` says that the QueryResult on the stack is the only owner of a result
set; `Learnt` what the loop of the login's callback knows of the rows it has fetched, and `Fresh` that
an answer stays while it is read.

`ServerProofs` on ServerFrame, for any frame, budget, duration of handlers, delays and settings of the clock
(`ServerFrameAssumption` and `ClockRangeAssumption`: neither a frame nor a setting of the clock
comes near 2^64 ms, without which the unsigned difference could wrap a second time):
`ServerFrameDispatchBounded` and the action property `ServerFrameFrameLength`.
`DispatchBounded` needs what the dispatcher's clock has seen of the time its handlers took:
all of it if the clock was not set (`Unset`), and otherwise all of it since (`Budgeted`);
`Passed` bounds what a setting can do to the difference.

`ServerProofs` on MessageRouting, for any values of a byte and any length of texts and of what lies
behind a frame (`MessageRoutingAssumption`): `MessageRoutingRoutedToCase`,
`MessageRoutingParseSplits` and `MessageRoutingAccountOrigin`. The invariant, `RoutingIInv`, has a
part for each stage of a message: `Received` (what the constructors and the codec have put into
memory), `Routed` (the branch it takes) and `Parsed`. The reference definition of the pieces of
a text counts its separators, so the loop of `Parse` needs no induction over the text: `CutTo` says
that what the loop has in hand begins behind the k-th separator and that the k pieces so far are
those of the reference, and one round adds one separator to the count (`NextCut`). The first
delimiter of the rest exists because `Parse` has put one at its end (`LeastElement`).
`AccountOrigin` follows from where the first NUL and the first separator lie: a text of two parts
is cut at its first NUL in the part that has one (`UpToNulIs`, `ConcatPrefix`), and its first
piece ends at the first separator of either part (`FirstPieceOfTwo`).

Each inductive invariant was checked by TLC on the instance of its run before it was proved.

Only model-checked:

* everything under fairness (`OnMessageReturns`, `Delivered`, `PrepareReturns`,
  `CallbackReturns`, `CallEnds`, `FailedStartEnds`, `EveryItemTaken`, and the fairness part of the
  refinements of `FifoDispatch`), since TLAPS has no support for it;
* the round trip of integers through the byte order (`IntRoundTrip`), an assumption that TLC evaluates on
  the instance of `buffer`; no theorem uses it.

## 5. What is not modelled, and what the models leave to the reader

Not modelled: the MySQL client library beyond its answers; the binds of strings, times and blobs;
`readMysqlStmt`, `writeMysqlStmt`, `testProcedure`, `ExecuteSQLEx`, `srand_str` and the
text and second forms of `CELLTimestamp`, which nobody calls; muduo's event loop and
connections, which are headers of a compiled library and of which the modules state what they
use; the RPC, HTTP and protobuf headers, which the server does not use; the formatting of
log lines, which nothing in the server reads back.

The object manager is left out because it has no object in any run of the program:
`PetsManager::CreateObject` makes a `Pet` and puts it nowhere, and no other code inserts into
`m_ObjectMap`, so the loops of `Run` never have anything to do. Its one `RealseObject`
(`PetsServer.cpp:193`) is for a connection whose context is a `Pet`, and no code stores such a
context. A version that stores objects has to settle first that this call is made in an IO thread,
without a lock, at any point of `Run` (`ObjectManager.cpp:18`) and of the handlers in the logic
thread: it deletes the object before it clears the pointer, and both change the map that `Run`
walks through and erases from.

The code shows some more behaviour that differs from its comments and that no run is about:

* `checkAlive` (`PetsServer.cpp:209`) is empty and nothing renews `ttl`, while
  `PetsServer.hpp:64` describes a heartbeat that closes silent connections.
* The `else` at `MysqlQuery.cpp:232` belongs to the inner `if`: the `QueryBind` of a statement is
  never deleted. `SqlQueue` follows the code (`freedBinds`).
* `ProcedureHelper::Execute` ends without a return statement after a success, so the callback
  may be skipped. `ProcedureHelper` has both outcomes.
* `SRegisterMsg` (`LoginMsg.hpp:44`) is declared with the byte of a login, while
  `LoginMsg.hpp:19` has one for registrations and `PetsManager.cpp:38` a case for them
  ("账号注册消息"): a registration is handled as a login, and the case is never run.
  `RoutedToCase` states the exception.
* A text without its NUL (`Pet.cpp:62`; `codec.cpp:64` copies just the bytes of the frame) is read
  on into the heap. If it has no separator either, the account that `Parse` returns has bytes
  of the heap in it: the text `bob` in front of heap bytes `x&y` gives the account `bobx`.
  `AccountOrigin` states when.
* `MyQuery::GarbageCollection` (`MysqlQuery.hpp:127`) is to delete `MyQuery` at the exit; `m_gc` is a
  pointer, so it never runs, and `~MyQuery` never closes the handles.
* `append` of `LogStream.h:41` drops a text that does not fit its line as a whole, which its
  comment marks as to be changed ("FIXME: append partially").
* `if(...) LOG_INFO ... else` (`PetsServer.cpp:109`): the macros are `if` statements
  themselves, which `Logging.h` warns of.

## 6. Plan

1. Done: all modules of section 2, and the proofs of section 4.
2. Every safety property of a passing run is a theorem; what is left to TLC is named in section 4.
3. Next model: a composition of Codec, Dispatcher and ConnTable in which packets carry the DNID
   of a connection that may be gone when they are handled.
