--------------------------- MODULE StartUpProofs ---------------------------
(***************************************************************************)
(* Proofs about StartUp and the tasks of Statement that it runs, for any   *)
(* set of handlers, any number of tasks and answers of any length.         *)
(*                                                                         *)
(* ReadyBeforeUse needs what main has made by each step of Program         *)
(* (Built).  ResultsFreedOnce needs that the QueryResult on the stack is   *)
(* the only owner of a result set (Owned).  LoginAnswer needs what the     *)
(* loop of OnMysqlLoginMsg has learnt from the rows it has fetched         *)
(* (Learnt), and that an answer is not replaced while somebody reads it    *)
(* (Fresh).                                                                *)
(***************************************************************************)
EXTENDS StartUp, SequenceTheorems, TLAPS

-----------------------------------------------------------------------------
(* The inductive invariant: the tasks *)

\* Before the answer is there, before somebody reads it, and where it is read.
Asking == {"prepare", "bind", "execute", "query"}
Waiting == Asking \cup {"store", "stored"}
Reading == {"rows", "login", "fetch", "decide"}

SqlTypeOK ==
    /\ spc \in {"idle", "dead", "destroy"} \cup Waiting \cup Reading
    /\ tasks \in Nat /\ (spc # "idle" => tasks > 0)
    /\ answer.fields \in 0..2 /\ answer.rows \in Seq(Values)
    /\ fetched \in Nat /\ roleID \in Int
    /\ qr.res \in Nat

\* The result sets that exist are those of the QueryResult.
Owned ==
    /\ qr.res = 0 => live = {}
    /\ qr.res # 0 => live = {qr.res}
    /\ spc \in {"idle"} \cup Waiting => qr.res = 0

\* A callback finds nothing of an earlier task, and the QueryResult tells its answer.
Fresh ==
    /\ spc \in Waiting \cup Reading \cup {"dead"} => login = "none"
    /\ spc \in Waiting \cup {"login"} => fetched = 0 /\ roleID = 0
    /\ spc \in {"login", "fetch", "decide"} => qr.num_fields = answer.fields

\* What the rows fetched so far say of roleID.
Learnt ==
    spc \in {"fetch", "decide"} =>
       /\ fetched <= Len(answer.rows)
       /\ roleID # 0 => /\ answer.fields = 1
                        /\ \E i \in 1..fetched : answer.rows[i] = roleID
       /\ roleID = 0 => \/ \A i \in 1..fetched : answer.rows[i] = Null
                        \/ \E i \in 1..fetched : answer.rows[i] = 0
       /\ spc = "decide" /\ roleID = 0 /\ answer.fields = 1 => fetched = Len(answer.rows)

SqlInv == SqlTypeOK /\ Owned /\ Fresh /\ Learnt /\ LoginAnswer

-----------------------------------------------------------------------------
(* The inductive invariant: main *)

\* What main has made when it is at step mpc of Program.
Built ==
    /\ mpc \in 1..12
    /\ mpc > 1 => callbacks = "set"
    /\ mpc > 2 => bound = Handlers
    /\ mpc > 3 => m_sqlIns = "set"
    /\ mpc > 5 => m_pMysql = "connected"
    /\ mpc > 6 => m_pMysqlStmt = "set" /\ m_dbInfo = "set"
    /\ m_mainThread = IF mpc > 7 THEN "running" ELSE "null"
    /\ m_mysqlThread = IF mpc > 8 THEN "running" ELSE "null"

\* Who uses it comes later.
Later ==
    /\ listening = "yes" \/ dispatched # {} => mpc > 9
    /\ spc # "idle" => mpc > 8

\* A start that fails has started no thread that the destructor would join.
Joinable == fate \in {"failed", "exited"} => m_mainThread = "null" /\ m_mysqlThread = "null"

IInv == SqlInv /\ Built /\ Later /\ Joinable

-----------------------------------------------------------------------------
(* Answers *)

\* The rows of an answer are a sequence.
LEMMA AnswerFacts ==
    ASSUME NEW a \in Answers
    PROVE  a.fields \in 0..2 /\ a.rows \in Seq(Values)
<1>1. PICK n \in 0..MaxRows : a.rows \in [1..n -> Values]
  BY DEF Answers
<1>2. n \in Nat
  OBVIOUS
<1>3. a.rows \in Seq(Values)
  BY <1>1
<1> QED
  BY DEF Answers

\* So are those of no answer.
LEMMA NoAnswerFacts == NoAnswer.fields \in 0..2 /\ NoAnswer.rows \in Seq(Values)
  BY DEF NoAnswer

\* The indices of a sequence of ids, and the ids.
LEMMA RowFacts ==
    ASSUME NEW rows \in Seq(Values)
    PROVE  /\ Len(rows) \in Nat /\ DOMAIN rows = 1..Len(rows)
           /\ \A i \in 1..Len(rows) : rows[i] = Null \/ rows[i] \in Int
  BY DEF Values

-----------------------------------------------------------------------------
(* A task *)

\* A task begins with nothing of the one before.
LEMMA ExecuteSentenceStep ==
    ASSUME SqlInv, NEW t \in TaskTypes, ExecuteSentence(t)
    PROVE  SqlInv'
<1>1. /\ spc = "idle" /\ spc' \in {"prepare", "query"} /\ tasks' = tasks + 1
      /\ answer' = NoAnswer /\ qr' = ZeroResult
      /\ fetched' = 0 /\ roleID' = 0 /\ login' = "none"
  BY DEF ExecuteSentence
<1>2. /\ live' = live /\ more' = more
  BY DEF ExecuteSentence
<1>3. qr.res = 0 /\ qr'.res = 0
  BY <1>1 DEF SqlInv, Owned, ZeroResult
<1>4. SqlTypeOK'
  BY <1>1, <1>3, NoAnswerFacts DEF SqlInv, SqlTypeOK, Asking, Waiting
<1>5. Owned'
  BY <1>2, <1>3 DEF SqlInv, Owned
<1>6. Fresh'
  BY <1>1 DEF Fresh
<1>7. Learnt'
  BY <1>1 DEF Learnt
<1>8. LoginAnswer'
  BY <1>1 DEF LoginAnswer
<1> QED
  BY <1>4, <1>5, <1>6, <1>7, <1>8 DEF SqlInv

\* A call of the library fails before there is a result set.
LEMMA CallFailsStep ==
    ASSUME SqlInv, CallFails
    PROVE  SqlInv'
<1>1. /\ spc \in {"prepare", "bind", "execute", "store", "query"} /\ spc' = "destroy"
  BY DEF CallFails
<1>2. /\ tasks' = tasks /\ type' = type /\ answer' = answer /\ qr' = qr /\ live' = live
      /\ more' = more /\ fetched' = fetched /\ bind' = bind /\ roleID' = roleID
      /\ login' = login
  BY DEF CallFails, callVars
<1>3. SqlTypeOK'
  BY <1>1, <1>2 DEF SqlInv, SqlTypeOK
<1>4. Owned'
  BY <1>1, <1>2 DEF SqlInv, Owned, Asking, Waiting
<1>5. Fresh'
  BY <1>1 DEF Fresh, Asking, Waiting, Reading
<1>6. Learnt'
  BY <1>1 DEF Learnt
<1>7. LoginAnswer'
  BY <1>2 DEF SqlInv, LoginAnswer
<1> QED
  BY <1>3, <1>4, <1>5, <1>6, <1>7 DEF SqlInv

\* mysql_stmt_prepare
LEMMA StmtPrepareStep ==
    ASSUME SqlInv, StmtPrepare
    PROVE  SqlInv'
<1>1. /\ spc = "prepare" /\ spc' = "bind"
  BY DEF StmtPrepare
<1>2. /\ tasks' = tasks /\ type' = type /\ answer' = answer /\ qr' = qr /\ live' = live
      /\ more' = more /\ fetched' = fetched /\ bind' = bind /\ roleID' = roleID
      /\ login' = login
  BY DEF StmtPrepare, callVars
<1>3. SqlTypeOK'
  BY <1>1, <1>2 DEF SqlInv, SqlTypeOK, Asking, Waiting
<1>4. Owned'
  BY <1>1, <1>2 DEF SqlInv, Owned, Asking, Waiting
<1>5. Fresh'
  BY <1>1, <1>2 DEF SqlInv, Fresh, Asking, Waiting
<1>6. Learnt'
  BY <1>1 DEF Learnt
<1>7. LoginAnswer'
  BY <1>2 DEF SqlInv, LoginAnswer
<1> QED
  BY <1>3, <1>4, <1>5, <1>6, <1>7 DEF SqlInv

\* mysql_stmt_bind_param
LEMMA StmtBindParamStep ==
    ASSUME SqlInv, StmtBindParam
    PROVE  SqlInv'
<1>1. /\ spc = "bind" /\ spc' = "execute"
  BY DEF StmtBindParam
<1>2. /\ tasks' = tasks /\ type' = type /\ answer' = answer /\ qr' = qr /\ live' = live
      /\ more' = more /\ fetched' = fetched /\ bind' = bind /\ roleID' = roleID
      /\ login' = login
  BY DEF StmtBindParam, callVars
<1>3. SqlTypeOK'
  BY <1>1, <1>2 DEF SqlInv, SqlTypeOK, Asking, Waiting
<1>4. Owned'
  BY <1>1, <1>2 DEF SqlInv, Owned, Asking, Waiting
<1>5. Fresh'
  BY <1>1, <1>2 DEF SqlInv, Fresh, Asking, Waiting
<1>6. Learnt'
  BY <1>1 DEF Learnt
<1>7. LoginAnswer'
  BY <1>2 DEF SqlInv, LoginAnswer
<1> QED
  BY <1>3, <1>4, <1>5, <1>6, <1>7 DEF SqlInv

\* The answer arrives while nobody reads one.
LEMMA StmtExecuteStep ==
    ASSUME SqlInv, StmtExecute
    PROVE  SqlInv'
<1>1. /\ spc = "execute" /\ spc' = "store"
      /\ answer' \in Answers
  BY DEF StmtExecute
<1>2. /\ tasks' = tasks /\ type' = type /\ qr' = qr /\ live' = live /\ more' = more
      /\ fetched' = fetched /\ bind' = bind /\ roleID' = roleID /\ login' = login
  BY DEF StmtExecute, callVars
<1>3. answer'.fields \in 0..2 /\ answer'.rows \in Seq(Values)
  BY <1>1, AnswerFacts
<1>4. SqlTypeOK'
  BY <1>1, <1>2, <1>3 DEF SqlInv, SqlTypeOK, Waiting
<1>5. Owned'
  BY <1>1, <1>2 DEF SqlInv, Owned, Asking, Waiting
<1>6. Fresh'
  BY <1>1, <1>2 DEF SqlInv, Fresh, Asking, Waiting
<1>7. Learnt'
  BY <1>1 DEF Learnt
<1>8. LoginAnswer'
  BY <1>1, <1>2 DEF SqlInv, Fresh, LoginAnswer, Asking, Waiting
<1> QED
  BY <1>4, <1>5, <1>6, <1>7, <1>8 DEF SqlInv

\* So does that of a plain query.
LEMMA SqlQueryStep ==
    ASSUME SqlInv, SqlQuery
    PROVE  SqlInv'
<1>1. /\ spc = "query" /\ spc' = "stored"
      /\ answer' \in Answers
  BY DEF SqlQuery
<1>2. /\ tasks' = tasks /\ type' = type /\ qr' = qr /\ live' = live /\ fetched' = fetched
      /\ bind' = bind /\ roleID' = roleID /\ login' = login
  BY DEF SqlQuery, callVars
<1>3. answer'.fields \in 0..2 /\ answer'.rows \in Seq(Values)
  BY <1>1, AnswerFacts
<1>4. SqlTypeOK'
  BY <1>1, <1>2, <1>3 DEF SqlInv, SqlTypeOK, Waiting
<1>5. Owned'
  BY <1>1, <1>2 DEF SqlInv, Owned, Asking, Waiting
<1>6. Fresh'
  BY <1>1, <1>2 DEF SqlInv, Fresh, Asking, Waiting
<1>7. Learnt'
  BY <1>1 DEF Learnt
<1>8. LoginAnswer'
  BY <1>1, <1>2 DEF SqlInv, Fresh, LoginAnswer, Asking, Waiting
<1> QED
  BY <1>4, <1>5, <1>6, <1>7, <1>8 DEF SqlInv

\* The QueryResult becomes the owner of the metadata.
LEMMA StmtStoreStep ==
    ASSUME SqlInv, StmtStore
    PROVE  SqlInv'
<1>1. /\ spc = "store" /\ spc' = "login"
      /\ qr' = [stmt |-> 1, res |-> Metadata, nrow |-> Len(answer.rows), num_rows |-> 0,
                num_fields |-> answer.fields]
      /\ live' = Opened
  BY DEF StmtStore
<1>2. /\ tasks' = tasks /\ type' = type /\ answer' = answer /\ more' = more
      /\ fetched' = fetched /\ bind' = bind /\ roleID' = roleID /\ login' = login
  BY DEF StmtStore, callVars
<1>3. qr.res = 0 /\ live = {} /\ tasks \in Nat /\ tasks > 0
  BY <1>1 DEF SqlInv, SqlTypeOK, Owned, Reading
<1>4. /\ qr'.res \in Nat
      /\ live' = IF qr'.res = 0 THEN {} ELSE {qr'.res}
  BY <1>1, <1>3 DEF Opened, Metadata
<1>5. SqlTypeOK'
  BY <1>1, <1>2, <1>4 DEF SqlInv, SqlTypeOK, Reading
<1>6. Owned'
  BY <1>1, <1>4 DEF Owned, Asking, Waiting
<1>7. Fresh'
  BY <1>1, <1>2 DEF SqlInv, Fresh, Waiting
<1>8. Learnt'
  BY <1>1 DEF Learnt
<1>9. LoginAnswer'
  BY <1>2 DEF SqlInv, LoginAnswer
<1> QED
  BY <1>5, <1>6, <1>7, <1>8, <1>9 DEF SqlInv

\* The QueryResult becomes the owner of the result, or the result is freed at once.
LEMMA SqlStoreStep ==
    ASSUME SqlInv, SqlStore
    PROVE  SqlInv'
<1>1. /\ spc = "stored"
      /\ \/ live' = live /\ qr' = qr /\ spc' = "destroy"
         \/ /\ live' = Opened /\ spc' = "rows"
            /\ qr' = [stmt |-> 0, res |-> Metadata, nrow |-> Len(answer.rows),
                      num_rows |-> Len(answer.rows), num_fields |-> answer.fields]
  BY DEF SqlStore, Unwanted
<1>2. /\ tasks' = tasks /\ type' = type /\ answer' = answer /\ more' = more
      /\ fetched' = fetched /\ bind' = bind /\ roleID' = roleID /\ login' = login
  BY DEF SqlStore, callVars
<1>3. qr.res = 0 /\ live = {} /\ tasks \in Nat /\ tasks > 0
  BY <1>1 DEF SqlInv, SqlTypeOK, Owned, Reading
<1>4. /\ qr'.res \in Nat
      /\ live' = IF qr'.res = 0 THEN {} ELSE {qr'.res}
  BY <1>1, <1>3 DEF Opened, Metadata
<1>5. SqlTypeOK'
  BY <1>1, <1>2, <1>4 DEF SqlInv, SqlTypeOK, Reading
<1>6. Owned'
  BY <1>1, <1>4 DEF Owned, Asking, Waiting
<1>7. Fresh'
  BY <1>1, <1>2 DEF SqlInv, Fresh, Waiting
<1>8. Learnt'
  BY <1>1 DEF Learnt
<1>9. LoginAnswer'
  BY <1>2 DEF SqlInv, LoginAnswer
<1> QED
  BY <1>5, <1>6, <1>7, <1>8, <1>9 DEF SqlInv

\* ~QueryResult frees what it owns.
LEMMA DestroyStep ==
    ASSUME SqlInv, Destroy
    PROVE  SqlInv'
<1>1. /\ spc = "destroy" /\ spc' = "idle"
      /\ live' = live \ {qr.res} /\ qr' = ZeroResult
  BY DEF Destroy
<1>2. /\ tasks' = tasks /\ type' = type /\ answer' = answer /\ more' = more
      /\ fetched' = fetched /\ bind' = bind /\ roleID' = roleID /\ login' = login
  BY DEF Destroy, callVars
<1>3. qr'.res = 0 /\ live' = {}
  BY <1>1 DEF SqlInv, Owned, ZeroResult
<1>4. SqlTypeOK'
  BY <1>1, <1>2, <1>3 DEF SqlInv, SqlTypeOK
<1>5. Owned'
  BY <1>3 DEF Owned
<1>6. Fresh'
  BY <1>1 DEF Fresh, Asking, Waiting, Reading
<1>7. Learnt'
  BY <1>1 DEF Learnt
<1>8. LoginAnswer'
  BY <1>2 DEF SqlInv, LoginAnswer
<1> QED
  BY <1>4, <1>5, <1>6, <1>7, <1>8 DEF SqlInv

-----------------------------------------------------------------------------
(* The callbacks *)

\* A row of a plain query.
LEMMA FetchRowStep ==
    ASSUME SqlInv, FetchRow
    PROVE  SqlInv'
<1>1. /\ spc = "rows" /\ fetched' = fetched + 1
  BY DEF FetchRow
<1>2. /\ spc' = spc /\ tasks' = tasks /\ type' = type /\ answer' = answer /\ qr' = qr
      /\ live' = live /\ more' = more /\ bind' = bind /\ roleID' = roleID
      /\ login' = login
  BY DEF FetchRow
<1>3. SqlTypeOK'
  BY <1>1, <1>2 DEF SqlInv, SqlTypeOK
<1>4. Owned'
  BY <1>2 DEF SqlInv, Owned
<1>5. Fresh'
  BY <1>1, <1>2 DEF SqlInv, Fresh, Asking, Waiting
<1>6. Learnt'
  BY <1>1, <1>2 DEF Learnt
<1>7. LoginAnswer'
  BY <1>2 DEF SqlInv, LoginAnswer
<1> QED
  BY <1>3, <1>4, <1>5, <1>6, <1>7 DEF SqlInv

\* The rows of a plain query end.
LEMMA FetchRowEndStep ==
    ASSUME SqlInv, FetchRowEnd
    PROVE  SqlInv'
<1>1. /\ spc = "rows" /\ spc' = "destroy"
  BY DEF FetchRowEnd
<1>2. /\ tasks' = tasks /\ type' = type /\ answer' = answer /\ qr' = qr /\ live' = live
      /\ more' = more /\ fetched' = fetched /\ bind' = bind /\ roleID' = roleID
      /\ login' = login
  BY DEF FetchRowEnd, callVars
<1>3. SqlTypeOK'
  BY <1>1, <1>2 DEF SqlInv, SqlTypeOK
<1>4. Owned'
  BY <1>1, <1>2 DEF SqlInv, Owned, Asking, Waiting
<1>5. Fresh'
  BY <1>1 DEF Fresh, Asking, Waiting, Reading
<1>6. Learnt'
  BY <1>1 DEF Learnt
<1>7. LoginAnswer'
  BY <1>2 DEF SqlInv, LoginAnswer
<1> QED
  BY <1>3, <1>4, <1>5, <1>6, <1>7 DEF SqlInv

\* No row: no decision.
LEMMA LoginNothingStep ==
    ASSUME SqlInv, LoginNothing
    PROVE  SqlInv'
<1>1. /\ spc = "login" /\ spc' = "destroy"
  BY DEF LoginNothing
<1>2. /\ tasks' = tasks /\ type' = type /\ answer' = answer /\ qr' = qr /\ live' = live
      /\ more' = more /\ fetched' = fetched /\ bind' = bind /\ roleID' = roleID
      /\ login' = login
  BY DEF LoginNothing, callVars
<1>3. SqlTypeOK'
  BY <1>1, <1>2 DEF SqlInv, SqlTypeOK
<1>4. Owned'
  BY <1>1, <1>2 DEF SqlInv, Owned, Asking, Waiting
<1>5. Fresh'
  BY <1>1 DEF Fresh, Asking, Waiting, Reading
<1>6. Learnt'
  BY <1>1 DEF Learnt
<1>7. LoginAnswer'
  BY <1>2 DEF SqlInv, LoginAnswer
<1> QED
  BY <1>3, <1>4, <1>5, <1>6, <1>7 DEF SqlInv

\* The loop begins with nothing fetched.
LEMMA LoginBindStep ==
    ASSUME SqlInv, LoginBind
    PROVE  SqlInv'
<1>1. /\ spc = "login" /\ spc' = "fetch"
  BY DEF LoginBind
<1>2. /\ tasks' = tasks /\ type' = type /\ answer' = answer /\ qr' = qr /\ live' = live
      /\ more' = more /\ fetched' = fetched /\ roleID' = roleID /\ login' = login
  BY DEF LoginBind
<1>3. fetched = 0 /\ roleID = 0
  BY <1>1 DEF SqlInv, Fresh
<1>4. SqlTypeOK'
  BY <1>1, <1>2 DEF SqlInv, SqlTypeOK, Reading
<1>5. Owned'
  BY <1>1, <1>2 DEF SqlInv, Owned, Asking, Waiting
<1>6. Fresh'
  BY <1>1, <1>2 DEF SqlInv, Fresh, Reading
<1>7. Learnt'
  BY <1>1, <1>2, <1>3 DEF Learnt
<1>8. LoginAnswer'
  BY <1>2 DEF SqlInv, LoginAnswer
<1> QED
  BY <1>4, <1>5, <1>6, <1>7, <1>8 DEF SqlInv

\* The process dies.
LEMMA FetchDiesStep ==
    ASSUME SqlInv, FetchDies
    PROVE  SqlInv'
<1>1. /\ spc = "fetch" /\ spc' = "dead"
  BY DEF FetchDies
<1>2. /\ tasks' = tasks /\ type' = type /\ answer' = answer /\ qr' = qr /\ live' = live
      /\ more' = more /\ fetched' = fetched /\ bind' = bind /\ roleID' = roleID
      /\ login' = login
  BY DEF FetchDies, callVars
<1>3. SqlTypeOK'
  BY <1>1, <1>2 DEF SqlInv, SqlTypeOK
<1>4. Owned'
  BY <1>1, <1>2 DEF SqlInv, Owned, Asking, Waiting
<1>5. Fresh'
  BY <1>1, <1>2 DEF SqlInv, Fresh, Asking, Waiting, Reading
<1>6. Learnt'
  BY <1>1 DEF Learnt
<1>7. LoginAnswer'
  BY <1>2 DEF SqlInv, LoginAnswer
<1> QED
  BY <1>3, <1>4, <1>5, <1>6, <1>7 DEF SqlInv

\* A row: an id is remembered, NULL is not.
LEMMA FetchLoginStep ==
    ASSUME SqlInv, FetchLogin
    PROVE  SqlInv'
<1>1. /\ spc = "fetch" /\ BindMatches /\ fetched < Len(answer.rows)
      /\ fetched' = fetched + 1
      /\ roleID' = IF answer.rows[fetched + 1] = Null THEN roleID ELSE answer.rows[fetched + 1]
      /\ spc' = IF Good(roleID') THEN "decide" ELSE "fetch"
  BY DEF FetchLogin
<1>2. /\ tasks' = tasks /\ type' = type /\ answer' = answer /\ qr' = qr /\ live' = live
      /\ more' = more /\ bind' = bind /\ login' = login
  BY DEF FetchLogin
<1>3. /\ fetched \in Nat /\ Len(answer.rows) \in Nat /\ fetched + 1 \in 1..Len(answer.rows)
      /\ fetched + 1 \in 1..(fetched + 1) /\ roleID \in Int /\ Null \notin Int
      /\ answer.rows[fetched + 1] = Null \/ answer.rows[fetched + 1] \in Int
  BY <1>1, RowFacts, StatementAssumption DEF SqlInv, SqlTypeOK
<1>4. answer.fields = 1
  BY <1>1 DEF SqlInv, Fresh, BindMatches
<1>5. spc' = "decide" => roleID' # 0
  BY <1>1 DEF Good
<1>6. SqlTypeOK'
  BY <1>1, <1>2, <1>3 DEF SqlInv, SqlTypeOK, Reading
<1>7. Owned'
  BY <1>1, <1>2 DEF SqlInv, Owned, Asking, Waiting
<1>8. Fresh'
  BY <1>1, <1>2 DEF SqlInv, Fresh, Asking, Waiting, Reading
<1>9. Learnt'
  <2> DEFINE id == answer.rows[fetched + 1]
  <2>1. \A i \in 1..(fetched + 1) : i \in 1..fetched \/ i = fetched + 1
    BY <1>3
  <2>2. \A i \in 1..fetched : i \in 1..(fetched + 1)
    BY <1>3
  <2>3. CASE id = Null
    <3>1. roleID' = roleID
      BY <1>1, <2>3
    <3>2. roleID # 0 => \E i \in 1..(fetched + 1) : answer.rows[i] = roleID
      BY <1>1, <2>2 DEF SqlInv, Learnt
    <3>3. roleID = 0 => \/ \A i \in 1..(fetched + 1) : answer.rows[i] = Null
                        \/ \E i \in 1..(fetched + 1) : answer.rows[i] = 0
      BY <1>1, <2>1, <2>2, <2>3 DEF SqlInv, Learnt
    <3> QED
      BY <1>1, <1>2, <1>3, <1>4, <1>5, <3>2, <3>3 DEF Learnt
  <2>4. CASE id # Null
    <3>1. roleID' = id /\ \E i \in 1..(fetched + 1) : answer.rows[i] = id
      BY <1>1, <1>3, <2>4
    <3> HIDE DEF id
    <3> QED
      BY <1>1, <1>2, <1>3, <1>4, <1>5, <3>1 DEF Learnt
  <2> QED
    BY <2>3, <2>4
<1>10. LoginAnswer'
  BY <1>1, <1>2 DEF SqlInv, Fresh, LoginAnswer, Reading
<1> QED
  BY <1>6, <1>7, <1>8, <1>9, <1>10 DEF SqlInv

\* The rows end, or their columns do not fit.
LEMMA FetchLoginEndStep ==
    ASSUME SqlInv, FetchLoginEnd
    PROVE  SqlInv'
<1>1. /\ spc = "fetch" /\ spc' = "decide"
      /\ ~BindMatches \/ fetched = Len(answer.rows)
  BY DEF FetchLoginEnd
<1>2. /\ tasks' = tasks /\ type' = type /\ answer' = answer /\ qr' = qr /\ live' = live
      /\ more' = more /\ fetched' = fetched /\ bind' = bind /\ roleID' = roleID
      /\ login' = login
  BY DEF FetchLoginEnd, callVars
<1>3. answer.fields = 1 => fetched = Len(answer.rows)
  BY <1>1 DEF SqlInv, Fresh, BindMatches
<1>4. SqlTypeOK'
  BY <1>1, <1>2 DEF SqlInv, SqlTypeOK, Reading
<1>5. Owned'
  BY <1>1, <1>2 DEF SqlInv, Owned, Asking, Waiting
<1>6. Fresh'
  BY <1>1, <1>2 DEF SqlInv, Fresh, Asking, Waiting, Reading
<1>7. Learnt'
  BY <1>1, <1>2, <1>3 DEF SqlInv, Learnt
<1>8. LoginAnswer'
  BY <1>2 DEF SqlInv, LoginAnswer
<1> QED
  BY <1>4, <1>5, <1>6, <1>7, <1>8 DEF SqlInv

\* The decision is what the rows say.
LEMMA LoginDecideStep ==
    ASSUME SqlInv, LoginDecide
    PROVE  SqlInv'
<1>1. /\ spc = "decide" /\ spc' = "destroy"
      /\ login' = IF roleID = 0 THEN "refused" ELSE "accepted"
  BY DEF LoginDecide
<1>2. /\ tasks' = tasks /\ type' = type /\ answer' = answer /\ qr' = qr /\ live' = live
      /\ more' = more /\ fetched' = fetched /\ roleID' = roleID
  BY DEF LoginDecide
<1>3. DOMAIN answer.rows = 1..Len(answer.rows) /\ Len(answer.rows) \in Nat /\ Null \notin Int
      /\ \A i \in 1..Len(answer.rows) : answer.rows[i] = Null \/ answer.rows[i] \in Int
  BY RowFacts, StatementAssumption DEF SqlInv, SqlTypeOK
<1>4. SqlTypeOK'
  BY <1>1, <1>2 DEF SqlInv, SqlTypeOK
<1>5. Owned'
  BY <1>1, <1>2 DEF SqlInv, Owned, Asking, Waiting
<1>6. Fresh'
  BY <1>1 DEF Fresh, Asking, Waiting, Reading
<1>7. Learnt'
  BY <1>1 DEF Learnt
<1>8. LoginAnswer'
  <2> DEFINE ids == {answer.rows[i] : i \in DOMAIN answer.rows} \ {Null}
  <2>1. roleID \in Int /\ fetched \in Nat /\ fetched <= Len(answer.rows)
    BY <1>1 DEF SqlInv, SqlTypeOK, Learnt
  <2>2. \A i \in 1..fetched : i \in DOMAIN answer.rows
    BY <2>1
  <2>3. CASE roleID # 0
    <3>1. PICK i \in 1..fetched : answer.rows[i] = roleID
      BY <1>1, <2>3 DEF SqlInv, Learnt
    <3>2. roleID \in ids \ {0} /\ answer.fields = 1
      BY <1>1, <1>3, <2>1, <2>3 DEF SqlInv, Learnt
    <3> QED
      BY <1>1, <1>2, <3>2 DEF LoginAnswer
  <2>4. CASE roleID = 0 /\ answer.fields = 1
    <3>1. fetched = Len(answer.rows)
      BY <1>1, <2>4 DEF SqlInv, Learnt
    <3>2. \/ \A i \in 1..fetched : answer.rows[i] = Null
          \/ \E i \in 1..fetched : answer.rows[i] = 0
      BY <1>1, <2>4 DEF SqlInv, Learnt
    <3>3. ids = {} \/ 0 \in ids
      BY <1>3, <3>1, <3>2
    <3> QED
      BY <1>1, <1>2, <2>4, <3>3 DEF LoginAnswer
  <2>5. CASE roleID = 0 /\ answer.fields # 1
    BY <1>1, <1>2, <2>5 DEF LoginAnswer
  <2> QED
    BY <2>3, <2>4, <2>5
<1> QED
  BY <1>4, <1>5, <1>6, <1>7, <1>8 DEF SqlInv

\* Every step of a task keeps its part of the invariant.
LEMMA SqlStepStep ==
    ASSUME SqlInv, SqlStep
    PROVE  SqlInv'
<1>1. CASE CallFails \/ StmtPrepare \/ StmtBindParam \/ StmtExecute \/ StmtStore
  BY <1>1, CallFailsStep, StmtPrepareStep, StmtBindParamStep, StmtExecuteStep, StmtStoreStep
<1>2. CASE SqlQuery \/ SqlStore \/ FetchRow \/ FetchRowEnd \/ Destroy
  BY <1>2, SqlQueryStep, SqlStoreStep, FetchRowStep, FetchRowEndStep, DestroyStep
<1>3. CASE LoginNothing \/ LoginBind \/ FetchDies
  BY <1>3, LoginNothingStep, LoginBindStep, FetchDiesStep
<1>4. CASE FetchLogin \/ FetchLoginEnd \/ LoginDecide
  BY <1>4, FetchLoginStep, FetchLoginEndStep, LoginDecideStep
<1> QED
  BY <1>1, <1>2, <1>3, <1>4 DEF SqlStep

\* Whoever leaves the SQL thread alone keeps it too.
LEMMA SqlUnchanged ==
    ASSUME SqlInv, UNCHANGED sqlVars
    PROVE  SqlInv'
  BY DEF sqlVars, callVars, SqlInv, SqlTypeOK, Owned, Fresh, Learnt, LoginAnswer

-----------------------------------------------------------------------------
(* main *)

\* Where in Program each step is.
LEMMA ProgramFacts ==
    ASSUME mpc \in 1..12
    PROVE  /\ At("callbacks") => mpc = 1
           /\ At("bind") => mpc = 2
           /\ At("instance") => mpc = 3
           /\ At("mysql_init") => mpc = 4
           /\ At("connect") => mpc = 5
           /\ At("stmt_init") => mpc = 6
           /\ At("logic thread") => mpc = 7
           /\ At("sql thread") => mpc = 8
           /\ At("open") => mpc = 9
           /\ At("push") => mpc \in {10, 11}
<1>1. /\ Program[1] = "callbacks" /\ Program[2] = "bind" /\ Program[3] = "instance"
      /\ Program[4] = "mysql_init" /\ Program[5] = "connect" /\ Program[6] = "stmt_init"
      /\ Program[7] = "logic thread" /\ Program[8] = "sql thread" /\ Program[9] = "open"
      /\ Program[10] = "push" /\ Program[11] = "push" /\ Program[12] = "loop"
  BY DEF Program
<1>2. mpc \in {1, 2, 3, 4, 5, 6, 7, 8, 9, 10, 11, 12}
  OBVIOUS
<1> QED
  BY <1>1, <1>2 DEF At

\* setConnectionCallback and its kin.
LEMMA SetCallbacksStep ==
    ASSUME IInv, SetCallbacks
    PROVE  IInv'
<1>1. mpc = 1
  BY ProgramFacts DEF SetCallbacks, IInv, Built
<1>2. callbacks' = "set" /\ mpc' = mpc + 1
  BY DEF SetCallbacks, Done
<1>3. /\ bound' = bound /\ m_sqlIns' = m_sqlIns /\ m_pMysql' = m_pMysql
      /\ m_pMysqlStmt' = m_pMysqlStmt /\ m_dbInfo' = m_dbInfo
      /\ m_mainThread' = m_mainThread /\ m_mysqlThread' = m_mysqlThread
      /\ listening' = listening /\ dispatched' = dispatched /\ pushed' = pushed
      /\ fate' = fate /\ spc' = spc
  BY DEF SetCallbacks, Done, dbVars, threadVars, restVars, sqlVars
<1>4. SqlInv'
  BY SqlUnchanged DEF SetCallbacks, IInv
<1>5. Built'
  BY <1>1, <1>2, <1>3 DEF IInv, Built
<1>6. Later' /\ Joinable'
  BY <1>1, <1>3 DEF IInv, Later, Joinable
<1> QED
  BY <1>4, <1>5, <1>6 DEF IInv

\* The last handler ends the step.
LEMMA BindCBStep ==
    ASSUME IInv, NEW h \in Handlers, BindCB(h)
    PROVE  IInv'
<1>1. mpc = 2
  BY ProgramFacts DEF BindCB, IInv, Built
<1>2. bound' = bound \cup {h} /\ ((bound' = Handlers /\ mpc' = mpc + 1) \/ mpc' = mpc)
  BY DEF BindCB, WithHandler, Done
<1>3. /\ callbacks' = callbacks /\ m_sqlIns' = m_sqlIns /\ m_pMysql' = m_pMysql
      /\ m_pMysqlStmt' = m_pMysqlStmt /\ m_dbInfo' = m_dbInfo
      /\ m_mainThread' = m_mainThread /\ m_mysqlThread' = m_mysqlThread
      /\ listening' = listening /\ dispatched' = dispatched /\ pushed' = pushed
      /\ fate' = fate /\ spc' = spc
  BY DEF BindCB, Done, dbVars, threadVars, restVars, sqlVars
<1>4. SqlInv'
  BY SqlUnchanged DEF BindCB, IInv
<1>5. Built'
  BY <1>1, <1>2, <1>3 DEF IInv, Built
<1>6. Later' /\ Joinable'
  BY <1>1, <1>3 DEF IInv, Later, Joinable
<1> QED
  BY <1>4, <1>5, <1>6 DEF IInv

\* GetQueryInstance()
LEMMA GetQueryInstanceStep ==
    ASSUME IInv, GetQueryInstance
    PROVE  IInv'
<1>1. mpc = 3
  BY ProgramFacts DEF GetQueryInstance, IInv, Built
<1>2. m_sqlIns' = "set" /\ mpc' = mpc + 1
  BY DEF GetQueryInstance, Done
<1>3. /\ callbacks' = callbacks /\ bound' = bound /\ m_pMysql' = m_pMysql
      /\ m_pMysqlStmt' = m_pMysqlStmt /\ m_dbInfo' = m_dbInfo
      /\ m_mainThread' = m_mainThread /\ m_mysqlThread' = m_mysqlThread
      /\ listening' = listening /\ dispatched' = dispatched /\ pushed' = pushed
      /\ fate' = fate /\ spc' = spc
  BY DEF GetQueryInstance, Done, netVars, threadVars, restVars, sqlVars
<1>4. SqlInv'
  BY SqlUnchanged DEF GetQueryInstance, IInv
<1>5. Built'
  BY <1>1, <1>2, <1>3 DEF IInv, Built
<1>6. Later' /\ Joinable'
  BY <1>1, <1>3 DEF IInv, Later, Joinable
<1> QED
  BY <1>4, <1>5, <1>6 DEF IInv

\* mysql_init
LEMMA MysqlInitStep ==
    ASSUME IInv, MysqlInit
    PROVE  IInv'
<1>1. mpc = 4
  BY ProgramFacts DEF MysqlInit, IInv, Built
<1>2. m_pMysql' = "init" /\ mpc' = mpc + 1
  BY DEF MysqlInit, Done
<1>3. /\ callbacks' = callbacks /\ bound' = bound /\ m_sqlIns' = m_sqlIns
      /\ m_pMysqlStmt' = m_pMysqlStmt /\ m_dbInfo' = m_dbInfo
      /\ m_mainThread' = m_mainThread /\ m_mysqlThread' = m_mysqlThread
      /\ listening' = listening /\ dispatched' = dispatched /\ pushed' = pushed
      /\ fate' = fate /\ spc' = spc
  BY DEF MysqlInit, Done, netVars, threadVars, restVars, sqlVars
<1>4. SqlInv'
  BY SqlUnchanged DEF MysqlInit, IInv
<1>5. Built'
  BY <1>1, <1>2, <1>3 DEF IInv, Built
<1>6. Later' /\ Joinable'
  BY <1>1, <1>3 DEF IInv, Later, Joinable
<1> QED
  BY <1>4, <1>5, <1>6 DEF IInv

\* mysql_real_connect
LEMMA ConnectStep ==
    ASSUME IInv, Connect
    PROVE  IInv'
<1>1. mpc = 5
  BY ProgramFacts DEF Connect, IInv, Built
<1>2. m_pMysql' = "connected" /\ mpc' = mpc + 1
  BY DEF Connect, Done
<1>3. /\ callbacks' = callbacks /\ bound' = bound /\ m_sqlIns' = m_sqlIns
      /\ m_pMysqlStmt' = m_pMysqlStmt /\ m_dbInfo' = m_dbInfo
      /\ m_mainThread' = m_mainThread /\ m_mysqlThread' = m_mysqlThread
      /\ listening' = listening /\ dispatched' = dispatched /\ pushed' = pushed
      /\ fate' = fate /\ spc' = spc
  BY DEF Connect, Done, netVars, threadVars, restVars, sqlVars
<1>4. SqlInv'
  BY SqlUnchanged DEF Connect, IInv
<1>5. Built'
  BY <1>1, <1>2, <1>3 DEF IInv, Built
<1>6. Later' /\ Joinable'
  BY <1>1, <1>3 DEF IInv, Later, Joinable
<1> QED
  BY <1>4, <1>5, <1>6 DEF IInv

\* mysql_stmt_init, and the name of the database.
LEMMA StmtInitStep ==
    ASSUME IInv, StmtInit
    PROVE  IInv'
<1>1. mpc = 6
  BY ProgramFacts DEF StmtInit, IInv, Built
<1>2. m_pMysqlStmt' = "set" /\ m_dbInfo' = "set" /\ mpc' = mpc + 1
  BY DEF StmtInit, SetInfo, Done
<1>3. /\ callbacks' = callbacks /\ bound' = bound /\ m_sqlIns' = m_sqlIns
      /\ m_pMysql' = m_pMysql /\ m_mainThread' = m_mainThread
      /\ m_mysqlThread' = m_mysqlThread /\ listening' = listening
      /\ dispatched' = dispatched /\ pushed' = pushed /\ fate' = fate /\ spc' = spc
  BY DEF StmtInit, Done, netVars, threadVars, restVars, sqlVars
<1>4. SqlInv'
  BY SqlUnchanged DEF StmtInit, IInv
<1>5. Built'
  BY <1>1, <1>2, <1>3 DEF IInv, Built
<1>6. Later' /\ Joinable'
  BY <1>1, <1>3 DEF IInv, Later, Joinable
<1> QED
  BY <1>4, <1>5, <1>6 DEF IInv

\* A start that fails does so before the first thread.
LEMMA InitFailsStep ==
    ASSUME IInv, InitFails
    PROVE  IInv'
<1>1. mpc \in {4, 5, 6}
  BY ProgramFacts DEF InitFails, IInv, Built
<1>2. fate' = "failed"
  BY DEF InitFails
<1>3. /\ callbacks' = callbacks /\ bound' = bound /\ m_sqlIns' = m_sqlIns
      /\ m_pMysql' = m_pMysql /\ m_pMysqlStmt' = m_pMysqlStmt /\ m_dbInfo' = m_dbInfo
      /\ m_mainThread' = m_mainThread /\ m_mysqlThread' = m_mysqlThread
      /\ listening' = listening /\ dispatched' = dispatched /\ pushed' = pushed
      /\ mpc' = mpc /\ spc' = spc
  BY DEF InitFails, netVars, dbVars, threadVars, restVars, sqlVars
<1>4. SqlInv'
  BY SqlUnchanged DEF InitFails, IInv
<1>5. Built'
  BY <1>3 DEF IInv, Built
<1>6. Later' /\ Joinable'
  BY <1>1, <1>3 DEF IInv, Built, Later, Joinable
<1> QED
  BY <1>4, <1>5, <1>6 DEF IInv

\* The logic thread.
LEMMA StartMainThreadStep ==
    ASSUME IInv, StartMainThread
    PROVE  IInv'
<1>1. mpc = 7 /\ fate = "well"
  BY ProgramFacts DEF StartMainThread, At, IInv, Built
<1>2. m_mainThread' = "running" /\ mpc' = mpc + 1
  BY DEF StartMainThread, Done
<1>3. /\ callbacks' = callbacks /\ bound' = bound /\ m_sqlIns' = m_sqlIns
      /\ m_pMysql' = m_pMysql /\ m_pMysqlStmt' = m_pMysqlStmt /\ m_dbInfo' = m_dbInfo
      /\ m_mysqlThread' = m_mysqlThread /\ listening' = listening
      /\ dispatched' = dispatched /\ pushed' = pushed /\ fate' = fate /\ spc' = spc
  BY DEF StartMainThread, Done, netVars, dbVars, restVars, sqlVars
<1>4. SqlInv'
  BY SqlUnchanged DEF StartMainThread, IInv
<1>5. Built'
  BY <1>1, <1>2, <1>3 DEF IInv, Built
<1>6. Later' /\ Joinable'
  BY <1>1, <1>3 DEF IInv, Later, Joinable
<1> QED
  BY <1>4, <1>5, <1>6 DEF IInv

\* The SQL thread.
LEMMA StartMysqlThreadStep ==
    ASSUME IInv, StartMysqlThread
    PROVE  IInv'
<1>1. mpc = 8
  BY ProgramFacts DEF StartMysqlThread, IInv, Built
<1>2. m_mysqlThread' = "running" /\ mpc' = mpc + 1
  BY DEF StartMysqlThread, Done
<1>3. /\ callbacks' = callbacks /\ bound' = bound /\ m_sqlIns' = m_sqlIns
      /\ m_pMysql' = m_pMysql /\ m_pMysqlStmt' = m_pMysqlStmt /\ m_dbInfo' = m_dbInfo
      /\ m_mainThread' = m_mainThread /\ listening' = listening
      /\ dispatched' = dispatched /\ pushed' = pushed /\ fate' = fate /\ spc' = spc
  BY DEF StartMysqlThread, Done, netVars, dbVars, restVars, sqlVars
<1>4. SqlInv'
  BY SqlUnchanged DEF StartMysqlThread, IInv
<1>5. Built'
  BY <1>1, <1>2, <1>3 DEF IInv, Built
<1>6. Later' /\ Joinable'
  BY <1>1, <1>3 DEF IInv, Built, Later, Joinable
<1> QED
  BY <1>4, <1>5, <1>6 DEF IInv

\* A thread that cannot be made ends the process.
LEMMA ThreadThrowsStep ==
    ASSUME IInv, ThreadThrows
    PROVE  IInv'
<1>1. mpc \in {7, 8}
  BY ProgramFacts DEF ThreadThrows, IInv, Built
<1>2. fate' = "terminated"
  BY DEF ThreadThrows
<1>3. /\ callbacks' = callbacks /\ bound' = bound /\ m_sqlIns' = m_sqlIns
      /\ m_pMysql' = m_pMysql /\ m_pMysqlStmt' = m_pMysqlStmt /\ m_dbInfo' = m_dbInfo
      /\ m_mainThread' = m_mainThread /\ m_mysqlThread' = m_mysqlThread
      /\ listening' = listening /\ dispatched' = dispatched /\ pushed' = pushed
      /\ mpc' = mpc /\ spc' = spc
  BY DEF ThreadThrows, netVars, dbVars, threadVars, restVars, sqlVars
<1>4. SqlInv'
  BY SqlUnchanged DEF ThreadThrows, IInv
<1>5. Built'
  BY <1>3 DEF IInv, Built
<1>6. Later' /\ Joinable'
  BY <1>2, <1>3 DEF IInv, Later, Joinable
<1> QED
  BY <1>4, <1>5, <1>6 DEF IInv

\* The port is opened.
LEMMA ServerStartStep ==
    ASSUME IInv, ServerStart
    PROVE  IInv'
<1>1. mpc = 9
  BY ProgramFacts DEF ServerStart, IInv, Built
<1>2. listening' = "yes" /\ mpc' = mpc + 1
  BY DEF ServerStart, Done
<1>3. /\ callbacks' = callbacks /\ bound' = bound /\ m_sqlIns' = m_sqlIns
      /\ m_pMysql' = m_pMysql /\ m_pMysqlStmt' = m_pMysqlStmt /\ m_dbInfo' = m_dbInfo
      /\ m_mainThread' = m_mainThread /\ m_mysqlThread' = m_mysqlThread
      /\ dispatched' = dispatched /\ pushed' = pushed /\ fate' = fate /\ spc' = spc
  BY DEF ServerStart, Done, netVars, dbVars, threadVars, sqlVars
<1>4. SqlInv'
  BY SqlUnchanged DEF ServerStart, IInv
<1>5. Built'
  BY <1>1, <1>2, <1>3 DEF IInv, Built
<1>6. Later' /\ Joinable'
  BY <1>1, <1>2, <1>3 DEF IInv, Later, Joinable
<1> QED
  BY <1>4, <1>5, <1>6 DEF IInv

\* The tasks of the start.
LEMMA PushStartUpPackStep ==
    ASSUME IInv, PushStartUpPack
    PROVE  IInv'
<1>1. mpc \in {10, 11}
  BY ProgramFacts DEF PushStartUpPack, IInv, Built
<1>2. mpc' = mpc + 1
  BY DEF PushStartUpPack, Done
<1>3. /\ callbacks' = callbacks /\ bound' = bound /\ m_sqlIns' = m_sqlIns
      /\ m_pMysql' = m_pMysql /\ m_pMysqlStmt' = m_pMysqlStmt /\ m_dbInfo' = m_dbInfo
      /\ m_mainThread' = m_mainThread /\ m_mysqlThread' = m_mysqlThread
      /\ listening' = listening /\ dispatched' = dispatched /\ fate' = fate /\ spc' = spc
  BY DEF PushStartUpPack, Done, netVars, dbVars, threadVars, sqlVars
<1>4. SqlInv'
  BY SqlUnchanged DEF PushStartUpPack, IInv
<1>5. Built'
  BY <1>1, <1>2, <1>3 DEF IInv, Built
<1>6. Later' /\ Joinable'
  BY <1>1, <1>2, <1>3 DEF IInv, Later, Joinable
<1> QED
  BY <1>4, <1>5, <1>6 DEF IInv

\* The destructor.
LEMMA JoinStep ==
    ASSUME IInv, Join
    PROVE  IInv'
<1>1. fate = "failed"
  BY DEF Join
<1>2. fate' = "exited"
  BY DEF Join
<1>3. /\ callbacks' = callbacks /\ bound' = bound /\ m_sqlIns' = m_sqlIns
      /\ m_pMysql' = m_pMysql /\ m_pMysqlStmt' = m_pMysqlStmt /\ m_dbInfo' = m_dbInfo
      /\ m_mainThread' = m_mainThread /\ m_mysqlThread' = m_mysqlThread
      /\ listening' = listening /\ dispatched' = dispatched /\ pushed' = pushed
      /\ mpc' = mpc /\ spc' = spc
  BY DEF Join, GarbageCollection, netVars, dbVars, threadVars, restVars, sqlVars
<1>4. SqlInv'
  BY SqlUnchanged DEF Join, IInv
<1>5. Built'
  BY <1>3 DEF IInv, Built
<1>6. Later' /\ Joinable'
  BY <1>1, <1>3 DEF IInv, Later, Joinable
<1> QED
  BY <1>4, <1>5, <1>6 DEF IInv

-----------------------------------------------------------------------------
(* The other threads *)

\* A packet is dispatched after the port has been opened.
LEMMA DispatchStep ==
    ASSUME IInv, NEW h \in Handlers, Dispatch(h)
    PROVE  IInv'
<1>1. /\ listening = "yes" /\ UNCHANGED <<sqlVars, mpc, fate, netVars, dbVars, threadVars, listening>>
  BY DEF Dispatch
<1>2. SqlInv'
  BY <1>1, SqlUnchanged DEF IInv
<1>3. Built' /\ Later' /\ Joinable'
  BY <1>1 DEF IInv, Built, Later, Joinable, netVars, dbVars, threadVars
<1> QED
  BY <1>2, <1>3 DEF IInv

\* A task is taken by a thread that has been started.
LEMMA TaskStep ==
    ASSUME IInv, NEW t \in TaskTypes, Task(t)
    PROVE  IInv'
<1>1. /\ m_mysqlThread = "running" /\ ExecuteSentence(t)
      /\ UNCHANGED <<mpc, fate, netVars, dbVars, threadVars, restVars>>
  BY DEF Task
<1>2. SqlInv'
  BY <1>1, ExecuteSentenceStep DEF IInv
<1>3. Built' /\ Later' /\ Joinable'
  BY <1>1 DEF IInv, Built, Later, Joinable, netVars, dbVars, threadVars, restVars
<1> QED
  BY <1>2, <1>3 DEF IInv

\* A task that goes on was begun.
LEMMA WorkStep ==
    ASSUME IInv, Work
    PROVE  IInv'
<1>1. SqlStep /\ UNCHANGED <<mpc, fate, netVars, dbVars, threadVars, restVars>>
  BY DEF Work
<1>2. SqlInv'
  BY <1>1, SqlStepStep DEF IInv
<1>3. spc # "idle"
  BY <1>1 DEF SqlStep, CallFails, StmtPrepare, StmtBindParam, StmtExecute, StmtStore, SqlQuery,
     SqlStore, FetchRow, FetchRowEnd, LoginNothing, LoginBind, FetchDies, FetchLogin,
     FetchLoginEnd, LoginDecide, Destroy
<1>4. Built' /\ Later' /\ Joinable'
  BY <1>1, <1>3 DEF IInv, Built, Later, Joinable, netVars, dbVars, threadVars, restVars
<1> QED
  BY <1>2, <1>4 DEF IInv

-----------------------------------------------------------------------------
(* The theorems *)

\* The invariant holds at the start, and every step keeps it.
THEOREM StartUpInvariant == Spec => []IInv
<1>1. Init => IInv
  <2> SUFFICES ASSUME Init PROVE IInv
    OBVIOUS
  <2>1. SqlTypeOK
    BY NoAnswerFacts DEF Init, SqlInit, SqlTypeOK, ZeroResult
  <2>2. Owned /\ Fresh /\ Learnt /\ LoginAnswer
    BY DEF Init, SqlInit, Owned, Fresh, Learnt, LoginAnswer, ZeroResult
  <2>3. Built /\ Later /\ Joinable
    BY DEF Init, SqlInit, Built, Later, Joinable
  <2> QED
    BY <2>1, <2>2, <2>3 DEF IInv, SqlInv
<1>2. IInv /\ [Next]_vars => IInv'
  <2> SUFFICES ASSUME IInv, [Next]_vars PROVE IInv'
    OBVIOUS
  <2>1. CASE Main
    <3>1. CASE SetCallbacks \/ (\E h \in Handlers : BindCB(h)) \/ GetQueryInstance
      BY <3>1, SetCallbacksStep, BindCBStep, GetQueryInstanceStep
    <3>2. CASE MysqlInit \/ Connect \/ StmtInit \/ InitFails
      BY <3>2, MysqlInitStep, ConnectStep, StmtInitStep, InitFailsStep
    <3>3. CASE StartMainThread \/ StartMysqlThread \/ ThreadThrows
      BY <3>3, StartMainThreadStep, StartMysqlThreadStep, ThreadThrowsStep
    <3>4. CASE ServerStart \/ PushStartUpPack \/ Join
      BY <3>4, ServerStartStep, PushStartUpPackStep, JoinStep
    <3> QED
      BY <2>1, <3>1, <3>2, <3>3, <3>4 DEF Main
  <2>2. ASSUME NEW h \in Handlers, Dispatch(h) PROVE IInv'
    BY <2>2, DispatchStep
  <2>3. ASSUME NEW t \in TaskTypes, Task(t) PROVE IInv'
    BY <2>3, TaskStep
  <2>4. CASE Work
    BY <2>4, WorkStep
  <2>5. CASE UNCHANGED vars
    <3>1. SqlInv' /\ spc' = spc
      BY <2>5, SqlUnchanged DEF vars, sqlVars, IInv
    <3> QED
      BY <2>5, <3>1 DEF vars, IInv, Built, Later, Joinable, netVars, dbVars, threadVars, restVars
  <2> QED
    BY <2>1, <2>2, <2>3, <2>4, <2>5 DEF Next
<1> QED
  BY <1>1, <1>2, PTL DEF Spec

\* Whoever uses a part of the server finds it ready, for any set of handlers and any
\* interleaving of main with the threads it has started.
THEOREM StartUpReadyBeforeUse == Spec => []ReadyBeforeUse
<1>1. IInv => ReadyBeforeUse
  BY DEF IInv, Built, Later, ReadyBeforeUse
<1> QED
  BY <1>1, StartUpInvariant, PTL

\* A start that fails leaves no thread for the destructor to wait for: the safe half of
\* FailedStartEnds.
THEOREM StartUpJoinable == Spec => []Joinable
<1>1. IInv => Joinable
  BY DEF IInv
<1> QED
  BY <1>1, StartUpInvariant, PTL

\* Every result set is freed once, on every way out of every task, for any number of tasks.
THEOREM StartUpResultsFreedOnce == Spec => []ResultsFreedOnce
<1>1. IInv => ResultsFreedOnce
  BY DEF IInv, SqlInv, Owned, ResultsFreedOnce
<1> QED
  BY <1>1, StartUpInvariant, PTL

\* A login is decided by the rows of its own answer, for answers of any length and whatever
\* the uninitialised IsNull() says.
THEOREM StartUpLoginAnswer == Spec => []LoginAnswer
<1>1. IInv => LoginAnswer
  BY DEF IInv, SqlInv
<1> QED
  BY <1>1, StartUpInvariant, PTL
=============================================================================
