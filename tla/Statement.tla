----------------------------- MODULE Statement -----------------------------
(***************************************************************************)
(* MyQuery::ExecuteSentence for prepared statements and plain queries      *)
(* (MysqlQuery.cpp: ExecuteStmt, ExecuteSQL, QueryResult, QueryBind) and   *)
(* the callback Pet::OnMysqlLoginMsg, which runs on the answer.  One task  *)
(* follows the other on one MYSQL and one MYSQL_STMT handle; every call of *)
(* the client library may fail.                                            *)
(*                                                                         *)
(* QueryBind allocates its arrays without setting them: m_nulls is never   *)
(* written, so IsNull() is any value, the same for the whole loop, and the *)
(* `error` pointer of a MYSQL_BIND is NULL or points anywhere, in which    *)
(* case mysql_stmt_fetch may end the process.                              *)
(***************************************************************************)
EXTENDS Integers, Sequences

CONSTANTS Null,         (* SQL's NULL                                      *)
          MaxRows,      (* bound: rows of an answer                        *)
          MaxTasks      (* bound: tasks                                    *)

ASSUME StatementAssumption == Null \notin Int /\ MaxRows \in Nat /\ MaxTasks \in Nat

\* What the database may answer: how many columns, and the rows' first column.
\* No column: an update, `nrow` then tells the rows it changed.
Values == {Null, 0, 1, 2}
Answers == {a \in [fields : 0..2, rows : UNION {[1..n -> Values] : n \in 0..MaxRows}] :
                a.fields = 0 => \A i \in DOMAIN a.rows : a.rows[i] = 0}
NoAnswer == [fields |-> 0, rows |-> <<>>]

\* "stmt" runs the login statement and its callback, "common" a plain query whose
\* callback reads its rows, "set" one whose result nobody wants (qr is NULL).
TaskTypes == {"stmt", "common", "set"}

VARIABLES
    spc,      (* where the SQL thread is in ExecuteSentence                *)
    tasks,    (* tasks begun                                               *)
    type,     (* the type of the task                                      *)
    answer,   (* what the database has answered to it                      *)
    fetched,  (* rows of it the callback has fetched                       *)
    qr,       (* the QueryResult on the stack of ExecuteSentence           *)
    live,     (* MYSQL_RES made and not freed, by the task that made them  *)
    more,     (* "yes": results of a CALL are still on the connection      *)
    bind,     (* the uninitialised parts of the callback's QueryBind       *)
    roleID,   (* its variable                                              *)
    login     (* what it has found: "none", "accepted" or "refused"        *)

callVars == <<fetched, bind, roleID, login>>
sqlVars == <<spc, tasks, type, answer, qr, live, more, callVars>>

\* QueryResult(): memset to 0.
ZeroResult == [stmt |-> 0, res |-> 0, nrow |-> 0, num_rows |-> 0, num_fields |-> 0]

\* QueryBind(1): what `new` finds in the arrays; no variable is bound yet.
QueryBind == [isNull : BOOLEAN, wild : BOOLEAN, buffer : {"unset"}, buffer_type : {"unset"}]
NoBind == [isNull |-> FALSE, wild |-> FALSE, buffer |-> "unset", buffer_type |-> "unset"]

\* bind_param sets the type, the buffer, the lengths and is_null, and not `error`.
bind_param(b, buffer_type, buffer) == [b EXCEPT !.buffer = buffer, !.buffer_type = buffer_type]

\* BindLong and its kin bind a number and differ in its type.
BindInteger(b, kind, data) == bind_param(b, kind, data)
BindLong(b, data) == BindInteger(b, "LONG", data)

-----------------------------------------------------------------------------
(* ExecuteSentence *)

ExecuteSentence(t) ==
    /\ spc = "idle" /\ tasks < MaxTasks
    /\ tasks' = tasks + 1 /\ type' = t
    /\ answer' = NoAnswer /\ qr' = ZeroResult
    /\ fetched' = 0 /\ roleID' = 0 /\ login' = "none" /\ bind' = NoBind
    /\ spc' = IF t = "stmt" THEN "prepare" ELSE "query"
    /\ UNCHANGED <<live, more>>

\* A call of the library in ExecuteStmt or ExecuteSQL fails: the function returns,
\* ExecuteSentence returns, no callback runs.
CallFails ==
    /\ spc \in {"prepare", "bind", "execute", "store", "query"}
    /\ spc' = "destroy"
    /\ UNCHANGED <<tasks, type, answer, qr, live, more, callVars>>

\* The library refuses a command while results are waiting on the connection.
InSync == more = "no"

\* mysql_stmt_prepare, then mysql_stmt_bind_param: the login statement has two
\* parameters.
StmtPrepare ==
    /\ spc = "prepare" /\ InSync
    /\ spc' = "bind"
    /\ UNCHANGED <<tasks, type, answer, qr, live, more, callVars>>

StmtBindParam ==
    /\ spc = "bind"
    /\ spc' = "execute"
    /\ UNCHANGED <<tasks, type, answer, qr, live, more, callVars>>

StmtExecute ==
    /\ spc = "execute"
    /\ answer' \in Answers
    /\ spc' = "store"
    /\ UNCHANGED <<tasks, type, qr, live, more, callVars>>

\* A new result set, if the answer has columns; tasks is its number.
Metadata == IF answer.fields > 0 THEN tasks ELSE 0
Opened == IF Metadata = 0 THEN live ELSE live \cup {Metadata}

\* mysql_stmt_store_result, then the QueryResult is filled in.  The metadata has
\* no rows of its own.
StmtStore ==
    /\ spc = "store"
    /\ qr' = [stmt |-> 1, res |-> Metadata, nrow |-> Len(answer.rows), num_rows |-> 0,
              num_fields |-> answer.fields]
    /\ live' = Opened
    /\ spc' = "login"
    /\ UNCHANGED <<tasks, type, answer, more, callVars>>

\* mysql_real_query.  A CALL of a procedure that selects leaves its status behind
\* the result that is fetched, and nothing calls mysql_next_result.
SqlQuery ==
    /\ spc = "query" /\ InSync
    /\ answer' \in Answers
    /\ more' \in {"yes", "no"}
    /\ spc' = "stored"
    /\ UNCHANGED <<tasks, type, qr, live, callVars>>

\* Mutant: the result of a query nobody wants to see is not freed.
UnwantedKept == Opened
\* tempSQL_RES is freed when there is no QueryResult to hold it.
Unwanted == live

\* mysql_store_result in ExecuteSQL.
SqlStore ==
    /\ spc = "stored"
    /\ IF type = "set"
       THEN live' = Unwanted /\ UNCHANGED qr /\ spc' = "destroy"
       ELSE /\ live' = Opened
            /\ qr' = [stmt |-> 0, res |-> Metadata, nrow |-> Len(answer.rows),
                      num_rows |-> Len(answer.rows), num_fields |-> answer.fields]
            /\ spc' = "rows"
    /\ UNCHANGED <<tasks, type, answer, more, callVars>>

\* ~QueryResult: Release frees res and the rows of the statement.
Destroy ==
    /\ spc = "destroy"
    /\ live' = live \ {qr.res}
    /\ qr' = ZeroResult
    /\ spc' = "idle"
    /\ UNCHANGED <<tasks, type, answer, more, callVars>>

-----------------------------------------------------------------------------
(* The callbacks *)

\* while (FetchResult() == 0): for a query without rows or columns it fails.
RowsLeft == qr.res # 0 /\ qr.num_rows # 0 /\ qr.num_fields # 0 /\ fetched < Len(answer.rows)

FetchRow ==
    /\ spc = "rows" /\ RowsLeft
    /\ fetched' = fetched + 1
    /\ UNCHANGED <<spc, tasks, type, answer, qr, live, more, bind, roleID, login>>

FetchRowEnd ==
    /\ spc = "rows" /\ ~RowsLeft
    /\ spc' = "destroy"
    /\ UNCHANGED <<tasks, type, answer, qr, live, more, callVars>>

\* The rows the statement has found or changed.
AffectedRows == qr.nrow

\* OnMysqlLoginMsg
LoginNothing ==
    /\ spc = "login" /\ AffectedRows = 0
    /\ spc' = "destroy"
    /\ UNCHANGED <<tasks, type, answer, qr, live, more, callVars>>

LoginBind ==
    /\ spc = "login" /\ AffectedRows # 0
    /\ \E b \in QueryBind : bind' = BindLong(b, "roleID")
    /\ spc' = "fetch"
    /\ UNCHANGED <<tasks, type, answer, qr, live, more, fetched, roleID, login>>

\* FetchResult(bind) refuses an answer with another number of columns.
BindMatches == qr.num_fields = 1

\* mysql_stmt_bind_result on fewer binds than columns reads past their array, and
\* mysql_stmt_fetch writes through `error`.
FetchDies ==
    /\ spc = "fetch" /\ BindMatches /\ fetched < Len(answer.rows)
    /\ bind.wild \/ qr.num_fields > 1
    /\ spc' = "dead"
    /\ UNCHANGED <<tasks, type, answer, qr, live, more, callVars>>

IsNull == bind.isNull

\* Is a row good enough to leave the loop?  Mutant: every row is.
GoodAlways(id) == TRUE
Good(id) == ~IsNull /\ id # 0

\* A row: NULL leaves roleID alone; `continue` or `break`.  The rows are in memory
\* and the ids fit in a long, so that a fetch does not fail.
FetchLogin ==
    /\ spc = "fetch" /\ BindMatches /\ fetched < Len(answer.rows)
    /\ bind.buffer = "roleID" /\ bind.buffer_type = "LONG"
    /\ LET id == answer.rows[fetched + 1] IN
       /\ roleID' = IF id = Null THEN roleID ELSE id
       /\ fetched' = fetched + 1
    /\ spc' = IF Good(roleID') THEN "decide" ELSE "fetch"
    /\ UNCHANGED <<tasks, type, answer, qr, live, more, bind, login>>

FetchLoginEnd ==
    /\ spc = "fetch" /\ (~BindMatches \/ fetched = Len(answer.rows))
    /\ spc' = "decide"
    /\ UNCHANGED <<tasks, type, answer, qr, live, more, callVars>>

LoginDecide ==
    /\ spc = "decide"
    /\ login' = IF roleID = 0 THEN "refused" ELSE "accepted"
    /\ spc' = "destroy"
    /\ bind' = NoBind
    /\ UNCHANGED <<tasks, type, answer, qr, live, more, fetched, roleID>>

-----------------------------------------------------------------------------
SqlInit ==
    /\ spc = "idle" /\ tasks = 0 /\ type = "set" /\ answer = NoAnswer /\ fetched = 0
    /\ qr = ZeroResult /\ live = {} /\ more = "no"
    /\ bind = NoBind /\ roleID = 0 /\ login = "none"

SqlStep ==
    \/ CallFails \/ StmtPrepare \/ StmtBindParam \/ StmtExecute \/ StmtStore
    \/ SqlQuery \/ SqlStore \/ FetchRow \/ FetchRowEnd
    \/ LoginNothing \/ LoginBind \/ FetchDies \/ FetchLogin \/ FetchLoginEnd \/ LoginDecide
    \/ Destroy

-----------------------------------------------------------------------------
(* Properties *)

\* Every result set is freed, on every way out of every task: none is left when
\* the thread takes the next task, and Release never meets one that is gone.
ResultsFreedOnce ==
    /\ spc = "idle" => live = {}
    /\ qr.res # 0 => qr.res \in live

\* A login is accepted only on an id that a row of its own answer holds, and, as
\* the ids the database assigns are not 0, it is accepted whenever there is one:
\* whatever IsNull() says, on rows in any order and with NULLs between them.
LoginAnswer ==
    LET ids == {answer.rows[i] : i \in DOMAIN answer.rows} \ {Null} IN
    /\ login = "accepted" => roleID \in ids \ {0} /\ answer.fields = 1
    /\ login = "refused" /\ answer.fields = 1 => ids = {} \/ 0 \in ids

=============================================================================
