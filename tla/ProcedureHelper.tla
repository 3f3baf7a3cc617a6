-------------------------- MODULE ProcedureHelper --------------------------
(***************************************************************************)
(* MyQuery::ExecuteProcedure and the static ProcedureHelper it works with  *)
(* (MysqlQuery.cpp, ProcedureHelper.cpp): read the parameter list of a     *)
(* stored procedure from the database, parse it, bind the caller's values, *)
(* set the user variables, call the procedure, select the variables of its *)
(* OUT and INOUT parameters, bind them, run the callback, clear.           *)
(*                                                                         *)
(* One object serves every call, so what a call leaves behind in it (the   *)
(* counts, the parameters, the pointer `res` of its QueryResult) meets the *)
(* next one.  Any query may fail, and every failure leaves by Clear.       *)
(***************************************************************************)
EXTENDS Integers, Sequences

CONSTANTS MAX_PARAM_COUNT,  (* 10: the size of `parameters`                *)
          MaxCalls          (* bound: calls of ExecuteProcedure            *)

ASSUME ProcedureHelperAssumption == MAX_PARAM_COUNT \in Nat /\ MaxCalls \in Nat

\* A parameter of a declaration: its direction, which may be left out, and its
\* type, of which only these matter: needs no user variable to be passed in,
\* needs one, and unknown to GetMySqlType.
Decl == [dir : {"in", "out", "inout", "none"}, type : {"int", "blob", "bad"}]
\* SqlParam after Prepare; the type of memset is not one GetMySqlType returns.
Param == [dir : {"in", "out", "inout"}, type : {"int", "blob", "bad", "zero"}]
Cleared == [i \in 1..MAX_PARAM_COUNT |-> [dir |-> "in", type |-> "zero"]]

VARIABLES
    pc,          (* where ExecuteProcedure is                              *)
    decl,        (* the procedure's parameter list in the database         *)
    paramNums,   (* how many values the caller has put in any_arr          *)
    token,       (* <<parameter, part>>: the next token of the list        *)
    whichPart,   (* what Prepare takes it for                              *)
    parameters, totalCount, inCount, outCount, inoutCount,
    param,       (* the parameter the loop of Execute has come to           *)
    strSelect,   (* parameters whose variables will be selected, in order  *)
    column,      (* column[i]: column of the select bound to parameter i   *)
    res,         (* the result set of the helper: 0 is NULL                *)
    results,     (* result sets that mysql_store_result has made so far    *)
    freed,       (* those that mysql_free_result has been called on        *)
    doubleFreed, (* and those it has been called on twice                  *)
    called,      (* "yes" once the callback of this call has run           *)
    calls        (* calls so far                                           *)

callVars == <<decl, paramNums, calls>>
countVars == <<totalCount, inCount, outCount, inoutCount>>
parseVars == <<token, whichPart, parameters, countVars>>
resVars == <<res, results, freed, doubleFreed>>
textVars == <<param, strSelect>>
vars == <<pc, callVars, parseVars, textVars, column, resVars, called>>

-----------------------------------------------------------------------------
(* Helpers *)

\* The words of a parameter in the list.
Words(d) == IF d.dir = "none" THEN <<"name", d.type>> ELSE <<d.dir, "name", d.type>>

\* strStream >> parampart
Word == Words(decl[token[1]])[token[2]]
AtEnd == token[1] > Len(decl)
NextToken == IF token[2] < Len(Words(decl[token[1]]))
             THEN <<token[1], token[2] + 1>> ELSE <<token[1] + 1, 1>>

\* QueryResult::Release, then go on at `next`: frees `res` and does not reset it.
\* The second free of a result set is undefined: it may end the process.
Release(next) ==
    /\ freed' = IF res = 0 THEN freed ELSE freed \cup {res}
    /\ doubleFreed' = IF res \in freed THEN doubleFreed \cup {res} ELSE doubleFreed
    /\ pc' \in IF res \in freed THEN {next, "dead"} ELSE {next}

\* ExecuteSQL(sql, this) has succeeded: `res` is a new result set or NULL.
StoreResult ==
    /\ \/ res' = 0 /\ UNCHANGED results
       \/ res' = results + 1 /\ results' = results + 1
    /\ UNCHANGED <<freed, doubleFreed>>

-----------------------------------------------------------------------------
(* Prepare *)

\* Parameter lists that fit in `parameters`: nothing in the code tests it.
Lists == UNION {[1..n -> Decl] : n \in 0..MAX_PARAM_COUNT}

\* The SQL thread has a pack for a procedure, with values for some of its
\* parameters.
ExecuteProcedure ==
    /\ pc = "idle" /\ calls < MaxCalls
    /\ decl' \in Lists /\ paramNums' \in 0..Len(decl')
    /\ calls' = calls + 1
    /\ pc' = "prepare"
    /\ UNCHANGED <<parseVars, textVars, column, resVars, called>>

\* The query for the list fails, or has no row.
PrepareFails ==
    /\ pc = "prepare"
    /\ pc' = "clear"
    /\ UNCHANGED <<callVars, parseVars, textVars, column, resVars, called>>

PrepareReads ==
    /\ pc = "prepare"
    /\ token' = <<1, 1>> /\ whichPart' = 0
    /\ pc' = "parse"
    /\ UNCHANGED <<callVars, parameters, countVars, textVars, column, resVars, called>>

\* Mutant: a word that is no direction is not the name yet.
AfterDirectionAlways(word) == 1
\* A word that is no direction is the name already.
AfterDirection(word) == IF word \in {"in", "out", "inout"} THEN 1 ELSE 2

\* case 0
ParseDirection ==
    /\ pc = "parse" /\ ~AtEnd /\ whichPart = 0
    /\ LET dir == IF Word \in {"out", "inout"} THEN Word ELSE "in" IN
       /\ parameters' = [parameters EXCEPT ![totalCount + 1].dir = dir]
       /\ inCount' = IF dir = "in" THEN inCount + 1 ELSE inCount
       /\ outCount' = IF dir = "out" THEN outCount + 1 ELSE outCount
       /\ inoutCount' = IF dir = "inout" THEN inoutCount + 1 ELSE inoutCount
    /\ whichPart' = AfterDirection(Word)
    /\ token' = NextToken
    /\ UNCHANGED <<pc, callVars, totalCount, textVars, column, resVars, called>>

\* case 1
ParseName ==
    /\ pc = "parse" /\ ~AtEnd /\ whichPart = 1
    /\ whichPart' = 2
    /\ token' = NextToken
    /\ UNCHANGED <<pc, callVars, parameters, countVars, textVars, column, resVars, called>>

\* What GetMySqlType knows.
GetMySqlType(word) == IF word \in {"int", "blob"} THEN word ELSE "bad"

\* Mutant: an unknown type is passed over by `continue`, and met again.
ParseTypeContinues ==
    /\ pc = "parse" /\ ~AtEnd /\ whichPart = 2
    /\ parameters' = [parameters EXCEPT ![totalCount + 1].type = GetMySqlType(Word)]
    /\ IF GetMySqlType(Word) = "bad"
       THEN UNCHANGED <<totalCount, whichPart, token>>
       ELSE totalCount' = totalCount + 1 /\ whichPart' = 0 /\ token' = NextToken
    /\ UNCHANGED <<pc, callVars, inCount, outCount, inoutCount, textVars, column, resVars, called>>

\* case 2; a type that is not known ends Prepare with -3.
ParseType ==
    /\ pc = "parse" /\ ~AtEnd /\ whichPart = 2
    /\ parameters' = [parameters EXCEPT ![totalCount + 1].type = GetMySqlType(Word)]
    /\ IF GetMySqlType(Word) = "bad"
       THEN pc' = "clear" /\ UNCHANGED <<totalCount, whichPart, token>>
       ELSE totalCount' = totalCount + 1 /\ whichPart' = 0 /\ token' = NextToken /\ UNCHANGED pc
    /\ UNCHANGED <<callVars, inCount, outCount, inoutCount, textVars, column, resVars, called>>

ParseEnds ==
    /\ pc = "parse" /\ AtEnd
    /\ pc' = "execute" /\ param' = 1
    /\ UNCHANGED <<callVars, parseVars, strSelect, column, resVars, called>>

-----------------------------------------------------------------------------
(* Execute *)

\* Parameters whose value is read with any_cast, and those that need "set".
ReadsValue(i) == parameters[i].dir # "out"
NeedsSet(i) == parameters[i].dir # "in" \/ parameters[i].type = "blob"

\* any_cast of a value the caller has not given throws bad_any_cast, which
\* nothing catches.
NoValue ==
    /\ pc = "execute" /\ param <= totalCount
    /\ ReadsValue(param) /\ param > paramNums
    /\ pc' = "dead"
    /\ UNCHANGED <<callVars, parseVars, textVars, column, resVars, called>>

\* A round of the loop puts a parameter in the three statements.
Assemble ==
    /\ pc = "execute" /\ param <= totalCount
    /\ ReadsValue(param) => param <= paramNums
    /\ strSelect' = IF parameters[param].dir = "in" THEN strSelect ELSE Append(strSelect, param)
    /\ param' = param + 1
    /\ UNCHANGED <<pc, callVars, parseVars, column, resVars, called>>

AssembleEnds ==
    /\ pc = "execute" /\ param > totalCount
    /\ pc' = IF \E i \in 1..totalCount : NeedsSet(i) THEN "set" ELSE "call"
    /\ UNCHANGED <<callVars, parseVars, textVars, column, resVars, called>>

\* An INOUT blob has no "@_i = 0x" before its digits, which is no statement.
SetOk ==
    /\ pc = "set"
    /\ \A i \in 1..totalCount : parameters[i] # [dir |-> "inout", type |-> "blob"]
    /\ pc' = "call"
    /\ UNCHANGED <<callVars, parseVars, textVars, column, resVars, called>>

\* The statement is refused, or longer than PrepareBuffer.
SetFails ==
    /\ pc = "set"
    /\ pc' = "clear"
    /\ UNCHANGED <<callVars, parseVars, textVars, column, resVars, called>>

CallFails ==
    /\ pc = "call"
    /\ pc' = "clear"
    /\ UNCHANGED <<callVars, parseVars, textVars, column, resVars, called>>

CallOk ==
    /\ pc = "call"
    /\ StoreResult
    /\ pc' = "release"
    /\ UNCHANGED <<callVars, parseVars, textVars, column, called>>

\* Mutant: the result set of the call is left to the select.
ReleaseCallNot ==
    /\ pc = "release"
    /\ pc' = IF strSelect = <<>> THEN "callback" ELSE "select"
    /\ UNCHANGED <<callVars, parseVars, textVars, column, resVars, called>>

\* Free the result set of the call; without OUT parameters Execute returns 0.
ReleaseCall ==
    /\ pc = "release"
    /\ Release(IF strSelect = <<>> THEN "callback" ELSE "select")
    /\ UNCHANGED <<callVars, parseVars, textVars, column, res, results, called>>

SelectFails ==
    /\ pc = "select"
    /\ pc' = "clear"
    /\ UNCHANGED <<callVars, parseVars, textVars, column, resVars, called>>

SelectOk ==
    /\ pc = "select"
    /\ StoreResult
    /\ pc' = "fetch"
    /\ UNCHANGED <<callVars, parseVars, textVars, column, called>>

\* Not one row, or no row to fetch.
FetchFails ==
    /\ pc = "fetch"
    /\ pc' = "clear"
    /\ UNCHANGED <<callVars, parseVars, textVars, column, resVars, called>>

\* A variable the procedure has not assigned is NULL; atoi has no NULL.
NullOut ==
    /\ pc = "fetch" /\ res # 0
    /\ \E i \in 1..totalCount : parameters[i] \in [dir : {"out", "inout"}, type : {"int"}]
    /\ pc' = "dead"
    /\ UNCHANGED <<callVars, parseVars, textVars, column, resVars, called>>

\* Mutant: the first column goes to the first parameter.
TargetFirst(i) == i
\* The parameter that gets column i of the select.
Target(i) == inCount + i

\* Bind the columns to parameters.  Execute then ends without a return
\* statement: its caller goes on with whatever value is found.
BindOuts ==
    /\ pc = "fetch" /\ res # 0
    /\ column' = [p \in 1..MAX_PARAM_COUNT |->
                    IF \E i \in 1..(outCount + inoutCount) : Target(i) = p
                    THEN CHOOSE i \in 1..(outCount + inoutCount) : Target(i) = p
                    ELSE column[p]]
    /\ pc' \in {"callback", "clear"}
    /\ UNCHANGED <<callVars, parseVars, textVars, resVars, called>>

-----------------------------------------------------------------------------
(* The end of ExecuteProcedure *)

Callback ==
    /\ pc = "callback"
    /\ called' = "yes"
    /\ pc' = "clear"
    /\ UNCHANGED <<callVars, parseVars, textVars, column, resVars>>

ResetCounts == totalCount' = 0 /\ inCount' = 0 /\ outCount' = 0 /\ inoutCount' = 0

Clear ==
    /\ pc = "clear"
    /\ Release("idle")
    /\ ResetCounts
    /\ parameters' = Cleared
    /\ column' = [p \in 1..MAX_PARAM_COUNT |-> 0]
    /\ param' = 1 /\ strSelect' = <<>> /\ decl' = <<>> /\ paramNums' = 0
    /\ token' = <<1, 1>> /\ whichPart' = 0 /\ called' = "no"
    /\ UNCHANGED <<calls, res, results>>

Step ==
    \/ PrepareFails \/ PrepareReads
    \/ ParseDirection \/ ParseName \/ ParseType \/ ParseEnds
    \/ NoValue \/ Assemble \/ AssembleEnds \/ SetOk \/ SetFails \/ CallOk \/ CallFails \/ ReleaseCall
    \/ SelectOk \/ SelectFails \/ FetchFails \/ NullOut \/ BindOuts \/ Callback \/ Clear

-----------------------------------------------------------------------------
Init ==
    /\ pc = "idle" /\ decl = <<>> /\ paramNums = 0
    /\ token = <<1, 1>> /\ whichPart = 0
    /\ parameters = Cleared
    /\ totalCount = 0 /\ inCount = 0 /\ outCount = 0 /\ inoutCount = 0
    /\ param = 1 /\ strSelect = <<>> /\ column = [p \in 1..MAX_PARAM_COUNT |-> 0]
    /\ res = 0 /\ results = 0 /\ freed = {} /\ doubleFreed = {}
    /\ called = "no" /\ calls = 0

Next == ExecuteProcedure \/ Step

\* The SQL thread goes on and the database answers.
Spec == Init /\ [][Next]_vars /\ WF_vars(Step)

-----------------------------------------------------------------------------
(* Properties *)

\* The type invariant: no index leaves `parameters` if no list is longer.
TypeOK ==
    /\ pc \in {"idle", "prepare", "parse", "execute", "set", "call", "release", "select", "fetch",
               "callback", "clear", "dead"}
    /\ decl \in Seq(Decl) /\ Len(decl) <= MAX_PARAM_COUNT /\ paramNums \in 0..MAX_PARAM_COUNT
    /\ token \in (1..(MAX_PARAM_COUNT + 1)) \X (1..3) /\ whichPart \in 0..2
    /\ parameters \in [1..MAX_PARAM_COUNT -> Param]
    /\ totalCount \in 0..MAX_PARAM_COUNT /\ inCount \in 0..MAX_PARAM_COUNT
    /\ outCount \in 0..MAX_PARAM_COUNT /\ inoutCount \in 0..MAX_PARAM_COUNT
    /\ param \in 1..(MAX_PARAM_COUNT + 1) /\ strSelect \in Seq(1..MAX_PARAM_COUNT)
    /\ column \in [1..MAX_PARAM_COUNT -> 0..MAX_PARAM_COUNT]
    /\ res \in 0..results /\ results \in Nat
    /\ doubleFreed \subseteq freed /\ freed \subseteq 1..results
    /\ called \in {"yes", "no"} /\ calls \in 0..MaxCalls

\* What Execute works on is the list of this call, whatever calls came before
\* it and however far they got: every parameter has the declared direction, "in"
\* where none is declared, and the declared type, and the counts agree with it.
ParsedAsDeclared ==
    pc \in {"execute", "set", "call", "release", "select", "fetch", "callback"} =>
        /\ totalCount = Len(decl)
        /\ \A i \in 1..Len(decl) :
              /\ parameters[i].type = decl[i].type
              /\ parameters[i].dir = IF decl[i].dir = "none" THEN "in" ELSE decl[i].dir
        /\ inCount + outCount + inoutCount = totalCount

\* The order that ProcedureHelper.hpp asks of a parameter list: IN first.
InFirst == \A i, j \in 1..Len(decl) :
              i < j /\ decl[j].dir \in {"in", "none"} => decl[i].dir \in {"in", "none"}

\* If the list keeps that order, the callback finds in every OUT and INOUT
\* parameter the column that was selected for it, and nothing in an IN one.
OutsBound ==
    pc = "callback" /\ InFirst =>
        \A i \in 1..Len(decl) :
            IF decl[i].dir \in {"in", "none"} THEN column[i] = 0 ELSE strSelect[column[i]] = i

\* Between two calls no result set is left that nobody will free.
NoLeak == pc = "idle" => freed = 1..results

\* Every call comes to its end, or the process does.
CallEnds == pc # "idle" ~> pc \in {"idle", "dead"}

-----------------------------------------------------------------------------
(* What the comments say and the code does not do *)

\* Clear and Release free what the QueryResult still owns, each result set once.
NoDoubleFree == doubleFreed = {}
=============================================================================
