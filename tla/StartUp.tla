------------------------------ MODULE StartUp ------------------------------
(***************************************************************************)
(* main, PetsServer's constructor, InitServer, start and destructor        *)
(* (main.cpp, PetsServer.cpp), and the connection to the database that     *)
(* MyQuery::Init makes (MysqlQuery.cpp): in which order the parts of the   *)
(* server come to life, and what is left of it when one does not.  Once it *)
(* has been started the SQL thread runs tasks as in Statement, beginning   *)
(* with those that start() pushes.                                         *)
(***************************************************************************)
EXTENDS Statement, FiniteSets

CONSTANTS Handlers      (* message types InitServer registers              *)

VARIABLES
    mpc,        (* the main thread's next step of Program                  *)
    fate,       (* "well", "failed" (start has returned false), "exited",
                   "terminated"                                            *)
    callbacks,  (* the TcpServer's: "unset" or "set"                       *)
    bound,      (* handlers registered with BindCB                         *)
    m_sqlIns,   (* "null" or "set"                                         *)
    m_pMysql, m_pMysqlStmt,     (* "null", "init" or "connected"; "null" or "set" *)
    m_dbInfo,   (* "empty" or "set"; GetDBName() is asked for it by every procedure *)
    m_mainThread, m_mysqlThread,    (* "null" or "running"                 *)
    listening,  (* "yes" once server.start() has opened the port           *)
    dispatched, (* message types that have arrived and been dispatched     *)
    pushed      (* start-up packs pushed by start()                        *)

netVars == <<callbacks, bound>>
dbVars == <<m_sqlIns, m_pMysql, m_pMysqlStmt, m_dbInfo>>
threadVars == <<m_mainThread, m_mysqlThread>>
restVars == <<listening, dispatched, pushed>>
vars == <<sqlVars, mpc, fate, netVars, dbVars, threadVars, restVars>>

\* Threads run while the process does.
Alive == fate \notin {"exited", "terminated"} /\ spc # "dead"

\* What start does, in order, InitServer included; then main enters the event
\* loop, which nobody makes return.  Mutants: the logic thread is started before
\* InitServer; the port is opened before the SQL thread is there.
ProgramThreadFirst ==
    <<"logic thread", "callbacks", "bind", "instance", "mysql_init", "connect", "stmt_init", "sql thread", "open",
      "push", "push", "loop">>
ProgramOpensEarly ==
    <<"callbacks", "bind", "instance", "mysql_init", "connect", "stmt_init", "logic thread", "open", "sql thread",
      "push", "push", "loop">>
Program ==
    <<"callbacks", "bind", "instance", "mysql_init", "connect", "stmt_init", "logic thread", "sql thread", "open",
      "push", "push", "loop">>

\* The main thread is at a step, and goes on to the next one.
At(step) == fate = "well" /\ Program[mpc] = step
Done == mpc' = mpc + 1 /\ UNCHANGED fate

-----------------------------------------------------------------------------
(* InitServer *)

\* setConnectionCallback, setMessageCallback and setThreadNum
SetCallbacks ==
    /\ At("callbacks")
    /\ callbacks' = "set" /\ Done
    /\ UNCHANGED <<sqlVars, bound, dbVars, threadVars, restVars>>

\* BindCB for one message type after the other.
WithHandler(h) == bound \cup {h}

BindCB(h) ==
    /\ At("bind") /\ h \notin bound
    /\ bound' = WithHandler(h)
    /\ IF bound' = Handlers THEN Done ELSE UNCHANGED <<mpc, fate>>
    /\ UNCHANGED <<sqlVars, callbacks, dbVars, threadVars, restVars>>

\* The one MyQuery, which was made before main began and is never null.
GetQueryInstance ==
    /\ At("instance")
    /\ m_sqlIns' = "set" /\ Done
    /\ UNCHANGED <<sqlVars, netVars, m_pMysql, m_pMysqlStmt, m_dbInfo, threadVars, restVars>>

\* MyQuery::Init: mysql_init, Connect, mysql_stmt_init.
MysqlInit ==
    /\ At("mysql_init")
    /\ m_pMysql' = "init" /\ Done
    /\ UNCHANGED <<sqlVars, netVars, m_sqlIns, m_pMysqlStmt, m_dbInfo, threadVars, restVars>>

Connect ==
    /\ At("connect")
    /\ m_pMysql' = "connected" /\ Done
    /\ UNCHANGED <<sqlVars, netVars, m_sqlIns, m_pMysqlStmt, m_dbInfo, threadVars, restVars>>

\* DBInfo::SetInfo, at the end of Init.
SetInfo == m_dbInfo' = "set"

StmtInit ==
    /\ At("stmt_init")
    /\ m_pMysqlStmt' = "set" /\ SetInfo /\ Done
    /\ UNCHANGED <<sqlVars, netVars, m_sqlIns, m_pMysql, threadVars, restVars>>

\* One of the three fails: Init, InitServer, start and main return.
InitFails ==
    /\ At("mysql_init") \/ At("connect") \/ At("stmt_init")
    /\ fate' = "failed"
    /\ UNCHANGED <<sqlVars, mpc, netVars, dbVars, threadVars, restVars>>

-----------------------------------------------------------------------------
(* start, and what main does when it fails *)

StartMainThread ==
    /\ At("logic thread")
    /\ m_mainThread' = "running" /\ Done
    /\ UNCHANGED <<sqlVars, netVars, dbVars, m_mysqlThread, restVars>>

StartMysqlThread ==
    /\ At("sql thread")
    /\ m_mysqlThread' = "running" /\ Done
    /\ UNCHANGED <<sqlVars, netVars, dbVars, m_mainThread, restVars>>

\* new std::thread does not return null, it throws, and nobody catches.
ThreadThrows ==
    /\ At("logic thread") \/ At("sql thread")
    /\ fate' = "terminated"
    /\ UNCHANGED <<sqlVars, mpc, netVars, dbVars, threadVars, restVars>>

\* After a second: server.start(), and the timer for checkAlive.
ServerStart ==
    /\ At("open")
    /\ listening' = "yes" /\ Done
    /\ UNCHANGED <<sqlVars, netVars, dbVars, threadVars, dispatched, pushed>>

\* One of the two PrepareSQL calls.
PushStartUpPack ==
    /\ At("push")
    /\ pushed' = pushed + 1 /\ Done
    /\ UNCHANGED <<sqlVars, netVars, dbVars, threadVars, listening, dispatched>>

\* m_gc, which should delete MyQuery and with it close the handles, is a pointer:
\* at the exit nothing deletes what it points to.
GarbageCollection == UNCHANGED dbVars

\* ~PetsServer joins its threads, none of which has been told to leave its loop.
Join ==
    /\ fate = "failed"
    /\ m_mainThread = "null" /\ m_mysqlThread = "null"
    /\ fate' = "exited" /\ GarbageCollection
    /\ UNCHANGED <<sqlVars, mpc, netVars, threadVars, restVars>>

-----------------------------------------------------------------------------
(* The other threads *)

\* A client's packet is dispatched by the logic thread.
Dispatch(h) ==
    /\ Alive /\ listening = "yes" /\ m_mainThread = "running"
    /\ dispatched' = dispatched \cup {h}
    /\ UNCHANGED <<sqlVars, mpc, fate, netVars, dbVars, threadVars, listening, pushed>>

\* The SQL thread takes a task: first the login statement that start has pushed,
\* then the procedure, whose queries are plain ones, then what handlers push.
Task(t) ==
    /\ Alive /\ m_mysqlThread = "running"
    /\ IF tasks = 0 THEN pushed > 0 /\ t = "stmt"
                    ELSE pushed = 2
    /\ ExecuteSentence(t)
    /\ UNCHANGED <<mpc, fate, netVars, dbVars, threadVars, restVars>>

Work == Alive /\ SqlStep /\ UNCHANGED <<mpc, fate, netVars, dbVars, threadVars, restVars>>

-----------------------------------------------------------------------------
\* The DBInfo that MyQuery's constructor makes, and MyQuery.
DBInfo == "empty"
DbInit == m_pMysql = "null" /\ m_pMysqlStmt = "null" /\ m_dbInfo = DBInfo

Init ==
    /\ SqlInit /\ DbInit
    /\ mpc = 1 /\ fate = "well" /\ callbacks = "unset" /\ bound = {} /\ m_sqlIns = "null"
    /\ m_mainThread = "null" /\ m_mysqlThread = "null"
    /\ listening = "no" /\ dispatched = {} /\ pushed = 0

Main ==
    /\ spc # "dead"
    /\ \/ SetCallbacks \/ \E h \in Handlers : BindCB(h)
       \/ GetQueryInstance \/ MysqlInit \/ Connect \/ StmtInit \/ InitFails
       \/ StartMainThread \/ StartMysqlThread \/ ThreadThrows \/ ServerStart \/ PushStartUpPack
       \/ Join

Next ==
    \/ Main
    \/ \E h \in Handlers : Dispatch(h)
    \/ \E t \in TaskTypes : Task(t)
    \/ Work

\* The main thread runs.
Spec == Init /\ [][Next]_vars /\ WF_vars(Main)

-----------------------------------------------------------------------------
(* Properties *)

\* Whoever uses a part of the server finds it ready.  No packet reaches the logic
\* thread before the callbacks and all handlers are bound, both threads run and the database is
\* connected; and the handles of the database, which main has made without a
\* lock, are complete before the SQL thread runs its first task.
ReadyBeforeUse ==
    listening = "yes" \/ dispatched # {} \/ spc # "idle" =>
        /\ callbacks = "set" /\ bound = Handlers
        /\ m_sqlIns = "set" /\ m_pMysql = "connected" /\ m_pMysqlStmt = "set" /\ m_dbInfo = "set"
        /\ m_mainThread = "running" /\ m_mysqlThread = "running"

\* A start that fails ends the process: the destructor never waits for a thread
\* that does not know it should stop.
FailedStartEnds == fate = "failed" ~> fate = "exited"
=============================================================================
