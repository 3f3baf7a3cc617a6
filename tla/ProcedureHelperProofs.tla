----------------------- MODULE ProcedureHelperProofs -----------------------
(***************************************************************************)
(* Proofs about ProcedureHelper for any number of calls and parameters and *)
(* any parameter list.                                                     *)
(*                                                                         *)
(* ParsedAsDeclared needs that Prepare takes every word for what it is     *)
(* (Tokens) and what the parameters and the counts say of the part of the  *)
(* list that has been read (Parsed); that they say nothing when a call     *)
(* begins is the work of Clear (Empty).  OutsBound needs, besides, what    *)
(* the loop of Execute has put in the select (Selected) and which columns  *)
(* have been bound (Bound).  NoLeak needs that only `res` can be a result  *)
(* set that is not freed, and when it cannot (Owned).                      *)
(***************************************************************************)
EXTENDS ProcedureHelper, SequenceTheorems, TLAPS

-----------------------------------------------------------------------------
(* The inductive invariant *)

\* Execute, with the callback.
Executing == {"execute", "set", "call", "release", "select", "fetch", "callback"}

\* What a declaration without a direction means.
Dir(d) == IF d.dir = "none" THEN "in" ELSE d.dir

\* How many parameters have their direction, and how many of them the loop of Execute
\* has put in the statements.
Known == IF whichPart = 0 THEN totalCount ELSE totalCount + 1
Handled == IF pc = "execute" THEN param - 1 ELSE totalCount

\* A call begins with what Clear leaves.
Empty ==
    pc \in {"idle", "prepare"} =>
       /\ totalCount = 0 /\ inCount = 0 /\ outCount = 0 /\ inoutCount = 0

\* Prepare takes each word of a parameter for what it is.
Tokens ==
    pc = "parse" =>
       /\ token[1] <= Len(decl) + 1 /\ totalCount = token[1] - 1
       /\ whichPart = 0 => token[2] = 1
       /\ whichPart # 0 => token[1] <= Len(decl)
       /\ whichPart = 1 => token[2] = 2 /\ decl[token[1]].dir # "none"
       /\ whichPart = 2 => token[2] = Len(Words(decl[token[1]]))

\* What has been read of the list is what the helper says.
Parsed ==
    /\ pc \in {"parse"} \cup Executing =>
          /\ Known <= Len(decl)
          /\ \A i \in 1..Known : parameters[i].dir = Dir(decl[i])
          /\ \A i \in 1..totalCount : parameters[i].type = decl[i].type
          /\ inCount + outCount + inoutCount = Known
          /\ InFirst => \A i \in 1..Known : i <= inCount <=> Dir(decl[i]) = "in"
    /\ pc \in Executing => totalCount = Len(decl) /\ whichPart = 0

\* The select asks for the parameters behind the IN ones.
Selected ==
    /\ pc \in {"idle", "prepare", "parse"} => strSelect = <<>>
    /\ pc \in Executing =>
          /\ Handled <= totalCount
          /\ InFirst => /\ Len(strSelect) = IF Handled <= inCount THEN 0 ELSE Handled - inCount
                        /\ \A k \in 1..Len(strSelect) : strSelect[k] = inCount + k

\* No column is bound before the callback, and then each to its parameter.
Bound ==
    /\ pc \in {"idle", "prepare", "parse", "execute", "set", "call", "release", "select", "fetch"} =>
          \A i \in 1..MAX_PARAM_COUNT : column[i] = 0
    /\ pc = "callback" /\ InFirst =>
          \A i \in 1..totalCount : column[i] = IF i <= inCount THEN 0 ELSE i - inCount

\* Only `res` may still have to be freed.
Owned ==
    /\ pc \in {"idle", "prepare", "parse", "execute", "set", "call", "select"} => freed = 1..results
    /\ pc # "dead" => 1..results \subseteq freed \cup {res}

IInv == TypeOK /\ Empty /\ Tokens /\ Parsed /\ Selected /\ Bound /\ Owned

-----------------------------------------------------------------------------
(* Facts about the operators *)

\* The words of a parameter: its direction if it has one, its name, its type.
LEMMA WordsOf ==
    ASSUME NEW d \in Decl
    PROVE  /\ d.dir = "none" => /\ Len(Words(d)) = 2
                                /\ Words(d)[1] = "name" /\ Words(d)[2] = d.type
           /\ d.dir # "none" => /\ Len(Words(d)) = 3 /\ Words(d)[1] = d.dir
                                /\ Words(d)[2] = "name" /\ Words(d)[3] = d.type
  BY DEF Words

\* A list that fits in `parameters` is a sequence of declarations, and no longer.
LEMMA ListsFit ==
    ASSUME NEW l \in Lists
    PROVE  l \in Seq(Decl) /\ Len(l) \in 0..MAX_PARAM_COUNT
  <1>1. PICK n \in 0..MAX_PARAM_COUNT : l \in [1..n -> Decl]
    BY DEF Lists
  <1>2. n \in Nat
    OBVIOUS
  <1>3. l \in Seq(Decl)
    BY <1>1
  <1>4. Len(l) = n
    BY <1>1
  <1> QED
    BY <1>3, <1>4

\* The part of the state that Prepare builds, and what Execute has made of it, is
\* not touched by a step that only goes on in Execute or leaves it.
LEMMA ParsedKept ==
    ASSUME Parsed, UNCHANGED <<callVars, parseVars>>,
           pc' \in Executing => pc \in Executing, pc' # "parse"
    PROVE  Parsed'
  BY DEF Parsed, Known, InFirst, callVars, parseVars, countVars

LEMMA SelectedKept ==
    ASSUME Selected, UNCHANGED <<callVars, parseVars, textVars>>,
           \/ pc \in Executing \ {"execute"} /\ pc' \in Executing \ {"execute"}
           \/ pc' \in {"clear", "dead"}
           \/ pc \in {"idle", "prepare"} /\ pc' \in {"prepare", "parse"}
    PROVE  Selected'
  BY DEF Selected, Executing, Handled, InFirst, callVars, parseVars, countVars, textVars

LEMMA BoundKept ==
    ASSUME TypeOK, Parsed, Bound, UNCHANGED <<column, callVars, parseVars>>,
           \/ pc \notin {"clear", "callback", "dead"} /\ pc' # "callback"
           \/ pc' \in {"clear", "dead"}
    PROVE  Bound'
  BY DEF TypeOK, Bound

-----------------------------------------------------------------------------
(* One step of each operation keeps the invariant *)

\* A failure, or an end of the process, changes nothing but where the call is.
LEMMA LeavesStep ==
    ASSUME IInv, pc # "dead", pc' \in {"clear", "dead"},
           UNCHANGED <<callVars, parseVars, textVars, column, resVars, called>>
    PROVE  IInv'
  <1>1. TypeOK'
    BY DEF IInv, TypeOK, callVars, parseVars, countVars, textVars, resVars
  <1>2. Empty' /\ Tokens'
    BY DEF Empty, Tokens
  <1>3. Parsed'
    BY ParsedKept DEF IInv, Executing
  <1>4. Selected'
    BY SelectedKept DEF IInv
  <1>5. Bound'
    BY BoundKept DEF IInv
  <1>6. Owned'
    BY DEF IInv, Owned, resVars
  <1> QED
    BY <1>1, <1>2, <1>3, <1>4, <1>5, <1>6 DEF IInv

\* The calls of LeavesStep.
LEMMA FailuresStep ==
    ASSUME IInv,
           PrepareFails \/ NoValue \/ SetFails \/ CallFails \/ SelectFails \/ FetchFails \/ NullOut
    PROVE  IInv'
  BY LeavesStep DEF PrepareFails, NoValue, SetFails, CallFails, SelectFails, FetchFails, NullOut

\* A call takes a list that fits, and finds what Clear has left.
LEMMA ExecuteProcedureStep ==
    ASSUME IInv, ExecuteProcedure
    PROVE  IInv'
  <1>1. decl' \in Seq(Decl) /\ Len(decl') \in 0..MAX_PARAM_COUNT
    BY ListsFit DEF ExecuteProcedure
  <1>2. calls' \in 0..MaxCalls
    BY ProcedureHelperAssumption DEF IInv, TypeOK, ExecuteProcedure
  <1>3. TypeOK'
    BY <1>1, ProcedureHelperAssumption DEF IInv, TypeOK, ExecuteProcedure, parseVars, countVars,
       textVars, resVars
  <1>4. Empty' /\ Tokens' /\ Parsed'
    BY DEF IInv, Empty, Tokens, Parsed, Executing, ExecuteProcedure, parseVars, countVars
  <1>5. Selected' /\ Bound' /\ Owned'
    BY DEF IInv, Selected, Executing, Bound, Owned, ExecuteProcedure, textVars, resVars
  <1> QED
    BY <1>3, <1>4, <1>5 DEF IInv

\* Nothing has been read of the list when Prepare has it.
LEMMA PrepareReadsStep ==
    ASSUME IInv, PrepareReads
    PROVE  IInv'
  <1>1. TypeOK'
    BY ProcedureHelperAssumption DEF IInv, TypeOK, PrepareReads, callVars, countVars, textVars,
       resVars
  <1>2. Empty' /\ Tokens'
    BY DEF IInv, Empty, Tokens, PrepareReads, countVars
  <1>3. Parsed'
    BY DEF IInv, Empty, Parsed, Known, Executing, PrepareReads, countVars
  <1>4. Selected' /\ Bound' /\ Owned'
    BY DEF IInv, Selected, Executing, Bound, Owned, PrepareReads, textVars, resVars
  <1> QED
    BY <1>1, <1>2, <1>3, <1>4 DEF IInv

\* The first word of a parameter gives the direction of the next parameter of the
\* helper; if it is the name already, the type comes next.
LEMMA ParseDirectionStep ==
    ASSUME IInv, ParseDirection
    PROVE  IInv'
  <1> DEFINE t == totalCount + 1
             d == decl[t]
  <1>0. t \in 1..Len(decl) /\ token = <<t, 1>> /\ d \in Decl
    <2>1. totalCount = token[1] - 1 /\ token[2] = 1 /\ ~(token[1] > Len(decl))
      BY DEF IInv, Tokens, ParseDirection, AtEnd
    <2> QED
      BY <2>1 DEF IInv, TypeOK
  <1>1. t \in 1..Len(decl) /\ t \in 1..MAX_PARAM_COUNT /\ token = <<t, 1>> /\ d \in Decl
    BY <1>0, ProcedureHelperAssumption DEF IInv, TypeOK
  <1>2. Dir(d) \in {"in", "out", "inout"} /\ Dir(d)' = Dir(d)
    BY <1>1 DEF Decl, Dir, ParseDirection, callVars
  <1>3. /\ (IF Word \in {"out", "inout"} THEN Word ELSE "in") = Dir(d)
        /\ AfterDirection(Word) = (IF d.dir = "none" THEN 2 ELSE 1)
        /\ NextToken = <<t, 2>>
    BY <1>1, WordsOf DEF Word, NextToken, AfterDirection, Dir, Decl
  <1>4. /\ parameters' = [parameters EXCEPT ![t].dir = Dir(d)]
        /\ inCount' = IF Dir(d) = "in" THEN inCount + 1 ELSE inCount
        /\ outCount' = IF Dir(d) = "out" THEN outCount + 1 ELSE outCount
        /\ inoutCount' = IF Dir(d) = "inout" THEN inoutCount + 1 ELSE inoutCount
        /\ whichPart' = IF d.dir = "none" THEN 2 ELSE 1
        /\ token' = <<t, 2>>
        /\ pc = "parse" /\ whichPart = 0 /\ pc' = pc /\ decl' = decl /\ totalCount' = totalCount
    BY <1>3 DEF ParseDirection, callVars
  <1>5. /\ Known = totalCount /\ Known' = t
        /\ inCount + outCount + inoutCount = totalCount
    BY <1>4 DEF IInv, Parsed, Known
  <1>6. PICK a \in 0..MAX_PARAM_COUNT, b \in 0..MAX_PARAM_COUNT, c \in 0..MAX_PARAM_COUNT :
           /\ inCount' = a /\ outCount' = b /\ inoutCount' = c /\ a + b + c = t
           /\ a = IF Dir(d) = "in" THEN inCount + 1 ELSE inCount
    <2>1. CASE Dir(d) = "in"
      <3>1. inCount' = inCount + 1 /\ outCount' = outCount /\ inoutCount' = inoutCount
        BY <1>4, <2>1
      <3>2. inCount + 1 \in 0..MAX_PARAM_COUNT /\ (inCount + 1) + outCount + inoutCount = t
        BY <1>1, <1>5, ProcedureHelperAssumption DEF IInv, TypeOK
      <3> QED
        BY <2>1, <3>1, <3>2 DEF IInv, TypeOK
    <2>2. CASE Dir(d) = "out"
      <3>1. inCount' = inCount /\ outCount' = outCount + 1 /\ inoutCount' = inoutCount
        BY <1>4, <2>2
      <3>2. outCount + 1 \in 0..MAX_PARAM_COUNT /\ inCount + (outCount + 1) + inoutCount = t
        BY <1>1, <1>5, ProcedureHelperAssumption DEF IInv, TypeOK
      <3> QED
        BY <2>2, <3>1, <3>2 DEF IInv, TypeOK
    <2>3. CASE Dir(d) = "inout"
      <3>1. inCount' = inCount /\ outCount' = outCount /\ inoutCount' = inoutCount + 1
        BY <1>4, <2>3
      <3>2. inoutCount + 1 \in 0..MAX_PARAM_COUNT /\ inCount + outCount + (inoutCount + 1) = t
        BY <1>1, <1>5, ProcedureHelperAssumption DEF IInv, TypeOK
      <3> QED
        BY <2>3, <3>1, <3>2 DEF IInv, TypeOK
    <2> QED
      BY <1>2, <2>1, <2>2, <2>3
  <1>7. /\ inCount' \in 0..MAX_PARAM_COUNT /\ outCount' \in 0..MAX_PARAM_COUNT
        /\ inoutCount' \in 0..MAX_PARAM_COUNT /\ inCount' + outCount' + inoutCount' = t
    BY <1>6
  <1>8. parameters' \in [1..MAX_PARAM_COUNT -> Param]
    <2>0. parameters[t] \in Param
      BY <1>1 DEF IInv, TypeOK
    <2>1. [parameters[t] EXCEPT !.dir = Dir(d)] \in Param
      BY <1>2, <2>0 DEF Param
    <2> QED
      BY <1>4, <2>1 DEF IInv, TypeOK
  <1>9. TypeOK'
    <2>1. token' \in (1..(MAX_PARAM_COUNT + 1)) \X (1..3) /\ whichPart' \in 0..2
      BY <1>1, <1>4, ProcedureHelperAssumption
    <2> QED
      BY <1>7, <1>8, <2>1 DEF IInv, TypeOK, ParseDirection, callVars, textVars, resVars
  <1>10. Empty' /\ Tokens'
    <2>1. d.dir = "none" => Len(Words(d)) = 2
      BY <1>1, WordsOf
    <2>2. token'[1] = t /\ token'[2] = 2 /\ decl'[token'[1]] = d
      BY <1>4
    <2>3. totalCount = t - 1 /\ t <= Len(decl) /\ t <= Len(decl) + 1
      BY <1>1 DEF IInv, TypeOK
    <2>4. d.dir = "none" => token'[2] = Len(Words(decl'[token'[1]]))
      BY <2>1, <2>2
    <2>5. Tokens'
      BY <1>4, <2>3, <2>4 DEF Tokens
    <2> QED
      BY <1>4, <2>5 DEF Empty
  <1>11. Parsed'
    <2>1. \A i \in 1..Known' : parameters'[i].dir = Dir(decl'[i])
      <3>1. SUFFICES ASSUME NEW i \in 1..t PROVE parameters'[i].dir = Dir(decl[i])
        BY <1>4, <1>5
      <3>2. CASE i = t
        BY <1>1, <1>4, <3>2 DEF IInv, TypeOK
      <3>3. CASE i \in 1..totalCount
        <4>1. parameters'[i] = parameters[i] /\ parameters[i].dir = Dir(decl[i])
          <5>1. parameters[i].dir = Dir(decl[i])
            BY <1>4, <1>5, <3>3 DEF IInv, Parsed
          <5>2. parameters \in [1..MAX_PARAM_COUNT -> Param] /\ i \in 1..MAX_PARAM_COUNT /\ i # t
            BY <1>1, <3>3, ProcedureHelperAssumption DEF IInv, TypeOK
          <5> QED
            BY <1>4, <5>1, <5>2
        <4> QED
          BY <4>1
      <3> QED
        BY <3>2, <3>3 DEF IInv, TypeOK
    <2>2. \A i \in 1..totalCount' : parameters'[i].type = decl'[i].type
      <3>1. SUFFICES ASSUME NEW i \in 1..totalCount PROVE parameters'[i].type = decl[i].type
        BY <1>4
      <3>2. parameters'[i] = parameters[i] /\ parameters[i].type = decl[i].type
        <4>1. parameters[i].type = decl[i].type
          BY <1>4 DEF IInv, Parsed
        <4>2. parameters \in [1..MAX_PARAM_COUNT -> Param] /\ i \in 1..MAX_PARAM_COUNT /\ i # t
          BY <1>1, ProcedureHelperAssumption DEF IInv, TypeOK
        <4> QED
          BY <1>4, <4>1, <4>2
      <3> QED
        BY <3>2
    <2>3. ASSUME InFirst, NEW i \in 1..t PROVE i <= inCount' <=> Dir(decl[i]) = "in"
      <3>1. \A j \in 1..totalCount : j <= inCount <=> Dir(decl[j]) = "in"
        BY <1>4, <1>5, <2>3 DEF IInv, Parsed
      <3>2. CASE Dir(d) = "in"
        <4>1. ASSUME NEW j \in 1..totalCount PROVE Dir(decl[j]) = "in"
          <5>1. j \in 1..Len(decl) /\ j < t
            BY <1>1 DEF IInv, TypeOK
          <5>2. d.dir \in {"in", "none"}
            BY <3>2 DEF Dir
          <5>3. decl[j].dir \in {"in", "none"}
            BY <1>1, <2>3, <5>1, <5>2 DEF InFirst
          <5> QED
            BY <5>3 DEF Dir
        <4>2. inCount = totalCount
          BY <1>5, <3>1, <4>1 DEF IInv, TypeOK
        <4> QED
          BY <1>6, <4>1, <4>2 DEF IInv, TypeOK
      <3>3. CASE Dir(d) # "in"
        <4>1. inCount' = inCount /\ inCount \in Nat /\ inCount <= totalCount /\ totalCount \in Nat
          BY <1>5, <1>6, <3>3 DEF IInv, TypeOK
        <4>2. CASE i = t
          BY <3>3, <4>1, <4>2
        <4>3. CASE i \in 1..totalCount
          BY <3>1, <4>1, <4>3
        <4> QED
          BY <4>1, <4>2, <4>3
      <3> QED
        BY <3>2, <3>3
    <2>4. InFirst' => \A i \in 1..Known' : i <= inCount' <=> Dir(decl'[i]) = "in"
      BY <1>4, <1>5, <2>3 DEF InFirst
    <2> QED
      BY <1>1, <1>4, <1>5, <1>7, <2>1, <2>2, <2>4 DEF Parsed, Executing
  <1>12. Selected' /\ Bound' /\ Owned'
    BY DEF IInv, Selected, Executing, Bound, Owned, ParseDirection, textVars, resVars
  <1> QED
    BY <1>9, <1>10, <1>11, <1>12 DEF IInv

\* The name is followed by the type.
LEMMA ParseNameStep ==
    ASSUME IInv, ParseName
    PROVE  IInv'
  <1> DEFINE t == totalCount + 1
             d == decl[t]
  <1>1. t \in 1..Len(decl) /\ token = <<t, 2>> /\ d \in Decl /\ d.dir # "none"
    BY DEF IInv, TypeOK, Tokens, ParseName
  <1>2. token' = <<t, 3>> /\ whichPart' = 2
    BY <1>1, WordsOf DEF ParseName, NextToken
  <1>3. TypeOK'
    BY <1>1, <1>2 DEF IInv, TypeOK, ParseName, callVars, countVars, textVars, resVars
  <1>4. Empty' /\ Tokens'
    BY <1>1, <1>2, WordsOf DEF IInv, Empty, Tokens, ParseName, callVars, countVars
  <1>5. Parsed'
    BY DEF IInv, Parsed, Known, InFirst, ParseName, callVars, countVars
  <1>6. Selected' /\ Bound' /\ Owned'
    BY DEF IInv, Selected, Executing, Bound, Owned, ParseName, textVars, resVars
  <1> QED
    BY <1>3, <1>4, <1>5, <1>6 DEF IInv

\* The type ends a parameter; one that is not known ends Prepare.
LEMMA ParseTypeStep ==
    ASSUME IInv, ParseType
    PROVE  IInv'
  <1> DEFINE t == totalCount + 1
             d == decl[t]
  <1>0. t \in 1..Len(decl) /\ token[1] = t /\ d \in Decl
    <2>1. totalCount = token[1] - 1 /\ token[1] <= Len(decl)
      BY DEF IInv, Tokens, ParseType
    <2> QED
      BY <2>1 DEF IInv, TypeOK
  <1>1. t \in 1..Len(decl) /\ t \in 1..MAX_PARAM_COUNT /\ token[1] = t /\ d \in Decl
    BY <1>0, ProcedureHelperAssumption DEF IInv, TypeOK
  <1>2. token[2] = Len(Words(d)) /\ Word = d.type /\ d.type \in {"int", "blob", "bad"}
    <2>1. token[2] = Len(Words(d)) /\ Word = Words(d)[token[2]]
      BY <1>1 DEF IInv, Tokens, ParseType, Word
    <2>2. Words(d)[Len(Words(d))] = d.type /\ d.type \in {"int", "blob", "bad"}
      BY <1>1, WordsOf DEF Decl
    <2> QED
      BY <2>1, <2>2
  <1>3. GetMySqlType(Word) = d.type
    BY <1>2 DEF GetMySqlType
  <1>4. parameters' = [parameters EXCEPT ![t].type = d.type]
    BY <1>3 DEF ParseType
  <1>5. parameters' \in [1..MAX_PARAM_COUNT -> Param]
    <2>1. [parameters[t] EXCEPT !.type = d.type] \in Param
      BY <1>1, <1>2 DEF IInv, TypeOK, Param
    <2> QED
      BY <1>4, <2>1 DEF IInv, TypeOK
  <1>6. CASE d.type = "bad"
    <2>1. /\ pc = "parse" /\ pc' = "clear"
          /\ UNCHANGED <<callVars, token, whichPart, countVars, textVars, column, resVars, called>>
      BY <1>3, <1>6 DEF ParseType, countVars
    <2>2. TypeOK'
      BY <1>5, <2>1 DEF IInv, TypeOK, callVars, countVars, textVars, resVars
    <2>3. Empty' /\ Tokens' /\ Parsed' /\ Selected' /\ Bound' /\ Owned'
      BY <2>1 DEF IInv, Empty, Tokens, Parsed, Selected, Executing, Bound, Owned, resVars
    <2> QED
      BY <2>2, <2>3 DEF IInv
  <1>7. CASE d.type # "bad"
    <2>1. /\ pc = "parse" /\ pc' = "parse" /\ whichPart = 2 /\ whichPart' = 0
          /\ totalCount' = t /\ token' = <<t + 1, 1>>
          /\ UNCHANGED <<callVars, inCount, outCount, inoutCount, textVars, column, resVars, called>>
      BY <1>1, <1>2, <1>3, <1>7 DEF ParseType, NextToken
    <2>2. token' \in (1..(MAX_PARAM_COUNT + 1)) \X (1..3) /\ totalCount' \in 0..MAX_PARAM_COUNT
      BY <1>1, <2>1, ProcedureHelperAssumption
    <2>3. TypeOK'
      BY <1>5, <2>1, <2>2 DEF IInv, TypeOK, callVars, textVars, resVars
    <2>4. Empty' /\ Tokens'
      <3>1. t + 1 <= Len(decl) + 1 /\ t = (t + 1) - 1
        BY <1>1
      <3> QED
        BY <2>1, <3>1 DEF Empty, Tokens, callVars
    <2>5. Parsed'
      <3>1. Known = t /\ Known' = t /\ decl' = decl
        BY <2>1 DEF Known, callVars
      <3>2. ASSUME NEW i \in 1..t
            PROVE  parameters'[i].dir = Dir(decl[i]) /\ parameters'[i].type = decl[i].type
        <4>1. parameters'[i].dir = parameters[i].dir
          BY <1>4
        <4>2. parameters[i].dir = Dir(decl[i])
          BY <2>1, <3>1 DEF IInv, Parsed
        <4>3. CASE i = t
          BY <1>1, <1>4, <4>2, <4>3 DEF IInv, TypeOK
        <4>4. CASE i \in 1..totalCount
          <5>1. parameters'[i] = parameters[i] /\ parameters[i].type = decl[i].type
            BY <1>4, <2>1, <4>4 DEF IInv, TypeOK, Parsed
          <5> QED
            BY <4>2, <5>1
        <4> QED
          BY <4>3, <4>4 DEF IInv, TypeOK
      <3>3. /\ t <= Len(decl) /\ inCount + outCount + inoutCount = t
            /\ InFirst => \A i \in 1..t : i <= inCount <=> Dir(decl[i]) = "in"
        BY <2>1, <3>1 DEF IInv, Parsed
      <3> QED
        BY <2>1, <3>1, <3>2, <3>3 DEF Parsed, Executing, InFirst
    <2>6. Selected' /\ Bound' /\ Owned'
      BY <2>1 DEF IInv, Selected, Executing, Bound, Owned, textVars, resVars
    <2> QED
      BY <2>3, <2>4, <2>5, <2>6 DEF IInv
  <1> QED
    BY <1>6, <1>7

\* At the end of the list every parameter has been read.
LEMMA ParseEndsStep ==
    ASSUME IInv, ParseEnds
    PROVE  IInv'
  <1>1. totalCount = Len(decl) /\ whichPart = 0
    BY DEF IInv, TypeOK, Tokens, ParseEnds, AtEnd
  <1>2. TypeOK'
    BY ProcedureHelperAssumption DEF IInv, TypeOK, ParseEnds, callVars, parseVars, countVars,
       resVars
  <1>3. Empty' /\ Tokens'
    BY DEF Empty, Tokens, ParseEnds
  <1>4. Parsed'
    BY <1>1 DEF IInv, Parsed, Known, InFirst, ParseEnds, callVars, parseVars, countVars
  <1>5. Selected'
    <2>1. Handled' = 0 /\ strSelect' = <<>>
      BY DEF IInv, Selected, Handled, ParseEnds
    <2> QED
      BY <2>1 DEF IInv, TypeOK, Selected, ParseEnds, parseVars, countVars
  <1>6. Bound' /\ Owned'
    BY DEF IInv, Bound, Owned, ParseEnds, resVars
  <1> QED
    BY <1>2, <1>3, <1>4, <1>5, <1>6 DEF IInv

\* A round of Execute selects the next parameter if it is behind the IN ones.
LEMMA AssembleStep ==
    ASSUME IInv, Assemble
    PROVE  IInv'
  <1>1. /\ pc = "execute" /\ pc' = "execute" /\ param \in 1..totalCount
        /\ param' = param + 1 /\ param \in 1..MAX_PARAM_COUNT
    BY ProcedureHelperAssumption DEF IInv, TypeOK, Assemble
  <1>2. strSelect' = IF Dir(decl[param]) = "in" THEN strSelect ELSE Append(strSelect, param)
    <2>1. Known = totalCount /\ parameters[param].dir = Dir(decl[param])
      BY <1>1 DEF IInv, Parsed, Known, Executing
    <2> QED
      BY <2>1 DEF Assemble
  <1>3. strSelect' \in Seq(1..MAX_PARAM_COUNT)
    <2>1. strSelect \in Seq(1..MAX_PARAM_COUNT) /\ Append(strSelect, param) \in Seq(1..MAX_PARAM_COUNT)
      BY <1>1 DEF IInv, TypeOK
    <2> QED
      BY <1>2, <2>1
  <1>4. TypeOK'
    BY <1>3, ProcedureHelperAssumption DEF IInv, TypeOK, Assemble, callVars, parseVars, countVars,
       resVars
  <1>5. Empty' /\ Tokens'
    BY <1>1 DEF Empty, Tokens
  <1>6. Parsed'
    BY ParsedKept DEF IInv, Assemble
  <1>7. Selected'
    <2>1. Handled = param - 1 /\ Handled' = param /\ UNCHANGED <<decl, totalCount, inCount>>
      BY <1>1 DEF Handled, Assemble, callVars, parseVars, countVars
    <2>2. ASSUME InFirst
          PROVE  /\ Len(strSelect') = IF param <= inCount THEN 0 ELSE param - inCount
                 /\ \A k \in 1..Len(strSelect') : strSelect'[k] = inCount + k
      <3>1. /\ Len(strSelect) = IF param - 1 <= inCount THEN 0 ELSE (param - 1) - inCount
            /\ \A k \in 1..Len(strSelect) : strSelect[k] = inCount + k
        BY <1>1, <2>1, <2>2 DEF IInv, Selected, Executing
      <3>2. param <= inCount <=> Dir(decl[param]) = "in"
        BY <1>1, <2>2 DEF IInv, Parsed, Known, Executing
      <3>3. CASE param <= inCount
        BY <1>2, <3>1, <3>2, <3>3 DEF IInv, TypeOK
      <3>4. CASE param > inCount
        <4>1. Len(strSelect) = (param - 1) - inCount
          BY <3>1, <3>4 DEF IInv, TypeOK
        <4>2. strSelect' = Append(strSelect, param)
          BY <1>2, <3>2, <3>4 DEF IInv, TypeOK
        <4>3. Len(strSelect') = param - inCount
          BY <4>1, <4>2 DEF IInv, TypeOK
        <4>4. ASSUME NEW k \in 1..(param - inCount) PROVE strSelect'[k] = inCount + k
          <5>1. CASE k = param - inCount
            <6>1. k = Len(strSelect) + 1 /\ inCount + k = param
              BY <4>1, <5>1 DEF IInv, TypeOK
            <6>2. Append(strSelect, param)[Len(strSelect) + 1] = param
              OBVIOUS
            <6> QED
              BY <4>2, <6>1
          <5>2. CASE k # param - inCount
            <6>1. k \in 1..Len(strSelect)
              BY <4>1, <5>2 DEF IInv, TypeOK
            <6>2. Append(strSelect, param)[k] = strSelect[k]
              BY <6>1
            <6> QED
              BY <3>1, <4>2, <6>1
          <5> QED
            BY <5>1, <5>2
        <4> QED
          BY <4>3, <4>4 DEF IInv, TypeOK
      <3> QED
        BY <3>3, <3>4 DEF IInv, TypeOK
    <2>3. InFirst' => InFirst
      BY <2>1 DEF InFirst
    <2> QED
      BY <1>1, <2>1, <2>2, <2>3 DEF Selected
  <1>8. Bound'
    BY DEF IInv, Bound, Assemble
  <1>9. Owned'
    BY DEF IInv, Owned, Assemble, resVars
  <1> QED
    BY <1>4, <1>5, <1>6, <1>7, <1>8, <1>9 DEF IInv

\* The end of the loop, and the statement that sets the variables, lead on in Execute.
LEMMA TextsStep ==
    ASSUME IInv, AssembleEnds \/ SetOk
    PROVE  IInv'
  <1>1. /\ pc \in {"execute", "set"} /\ pc' \in {"set", "call"}
        /\ UNCHANGED <<callVars, parseVars, textVars, column, resVars, called>>
    BY DEF AssembleEnds, SetOk
  <1>2. TypeOK'
    BY <1>1 DEF IInv, TypeOK, callVars, parseVars, countVars, textVars, resVars
  <1>3. Empty' /\ Tokens'
    BY <1>1 DEF Empty, Tokens
  <1>4. Parsed'
    BY <1>1, ParsedKept DEF IInv, Executing
  <1>5. Selected'
    <2>1. Handled = totalCount
      BY DEF IInv, TypeOK, Selected, Handled, Executing, AssembleEnds, SetOk
    <2>2. Handled' = totalCount
      BY <1>1 DEF Handled, parseVars, countVars
    <2> QED
      BY <1>1, <2>1, <2>2 DEF IInv, Selected, InFirst, Executing, callVars, parseVars, countVars,
         textVars
  <1>6. Bound'
    BY <1>1, BoundKept DEF IInv
  <1>7. Owned'
    BY <1>1 DEF IInv, Owned, resVars
  <1> QED
    BY <1>2, <1>3, <1>4, <1>5, <1>6, <1>7 DEF IInv

\* A query that succeeds gives the helper a new result set, or none; the one it had
\* is freed already.
LEMMA QueryStep ==
    ASSUME IInv, CallOk \/ SelectOk
    PROVE  IInv'
  <1>1. /\ pc \in {"call", "select"} /\ pc' \in {"release", "fetch"} /\ StoreResult
        /\ UNCHANGED <<callVars, parseVars, textVars, column, called>>
    BY DEF CallOk, SelectOk
  <1>2. TypeOK'
    <2>1. /\ res' \in 0..results' /\ results' \in Nat
          /\ doubleFreed' \subseteq freed' /\ freed' \subseteq 1..results'
      <3>1. results \in Nat /\ doubleFreed \subseteq freed /\ freed \subseteq 1..results
        BY DEF IInv, TypeOK
      <3>2. /\ freed' = freed /\ doubleFreed' = doubleFreed
            /\ (res' = 0 /\ results' = results) \/ (res' = results + 1 /\ results' = results + 1)
        BY <1>1 DEF StoreResult
      <3>3. 1..results \subseteq 1..results'
        BY <3>1, <3>2
      <3> QED
        BY <3>1, <3>2, <3>3
    <2> QED
      BY <1>1, <2>1 DEF IInv, TypeOK, callVars, parseVars, countVars, textVars
  <1>3. Empty' /\ Tokens'
    BY <1>1 DEF Empty, Tokens
  <1>4. Parsed'
    BY <1>1, ParsedKept DEF IInv, Executing
  <1>5. Selected'
    BY <1>1, SelectedKept DEF IInv, Executing
  <1>6. Bound'
    BY <1>1, BoundKept DEF IInv
  <1>7. Owned'
    BY <1>1 DEF IInv, TypeOK, Owned, StoreResult
  <1> QED
    BY <1>2, <1>3, <1>4, <1>5, <1>6, <1>7 DEF IInv

\* Release frees `res`, the only result set that may not have been freed.
LEMMA ReleaseFrees ==
    ASSUME IInv, pc # "dead", NEW next, Release(next), UNCHANGED <<res, results>>
    PROVE  /\ doubleFreed' \subseteq freed' /\ freed' = 1..results'
           /\ pc' \in {next, "dead"}
  <1>1. 1..results \subseteq freed \cup {res} /\ freed \subseteq 1..results /\ doubleFreed \subseteq freed
    BY DEF IInv, TypeOK, Owned
  <1>2. res \in 0..results /\ results \in Nat
    BY DEF IInv, TypeOK
  <1>3. CASE res = 0
    <2>1. res \notin 1..results
      BY <1>3
    <2>2. res \notin freed /\ freed = 1..results
      BY <1>1, <2>1
    <2> QED
      BY <1>1, <1>3, <2>2 DEF Release
  <1>4. CASE res # 0
    <2>0. res \in 1..results /\ freed' = freed \cup {res}
      BY <1>2, <1>4 DEF Release
    <2>1. freed' = freed \cup {res} /\ freed \cup {res} = 1..results
      BY <1>1, <2>0
    <2>2. doubleFreed' \subseteq doubleFreed \cup {res} /\ pc' \in {next, "dead"}
      BY DEF Release
    <2> QED
      BY <1>1, <2>1, <2>2
  <1> QED
    BY <1>3, <1>4

\* Without a variable to select no column has to be bound.
LEMMA ReleaseCallStep ==
    ASSUME IInv, ReleaseCall
    PROVE  IInv'
  <1>1. /\ doubleFreed' \subseteq freed' /\ freed' = 1..results'
        /\ pc' \in {IF strSelect = <<>> THEN "callback" ELSE "select", "dead"}
    BY ReleaseFrees DEF ReleaseCall
  <1>2. pc = "release" /\ UNCHANGED <<callVars, parseVars, textVars, column, res, results, called>>
    BY DEF ReleaseCall
  <1>3. TypeOK'
    BY <1>1, <1>2 DEF IInv, TypeOK, callVars, parseVars, countVars, textVars
  <1>4. Empty' /\ Tokens'
    BY <1>1 DEF Empty, Tokens
  <1>5. Parsed'
    BY <1>1, <1>2, ParsedKept DEF IInv, Executing
  <1>6. Selected'
    BY <1>1, <1>2, SelectedKept DEF IInv, Executing
  <1>7. Bound'
    <2>1. CASE pc' # "callback"
      BY <1>2, <2>1, BoundKept DEF IInv
    <2>2. CASE pc' = "callback"
      <3>1. strSelect = <<>> /\ Handled = totalCount
        BY <1>1, <1>2, <2>2 DEF Handled
      <3>2. InFirst => totalCount <= inCount
        BY <1>2, <3>1 DEF IInv, TypeOK, Selected, Executing
      <3>3. \A i \in 1..MAX_PARAM_COUNT : column[i] = 0
        BY <1>2 DEF IInv, Bound
      <3>4. UNCHANGED <<decl, column, totalCount, inCount>>
        BY <1>2 DEF callVars, parseVars, countVars
      <3>5. InFirst => \A i \in 1..totalCount : i <= inCount /\ column[i] = 0
        BY <3>2, <3>3, ProcedureHelperAssumption DEF IInv, TypeOK
      <3>6. InFirst' <=> InFirst
        BY <3>4 DEF InFirst
      <3> QED
        BY <2>2, <3>4, <3>5, <3>6 DEF Bound
    <2> QED
      BY <2>1, <2>2
  <1>8. Owned'
    BY <1>1 DEF Owned
  <1> QED
    BY <1>3, <1>4, <1>5, <1>6, <1>7, <1>8 DEF IInv

\* The columns go to the parameters behind the IN ones.
LEMMA BindOutsStep ==
    ASSUME IInv, BindOuts
    PROVE  IInv'
  <1>1. /\ pc = "fetch" /\ pc' \in {"callback", "clear"}
        /\ UNCHANGED <<callVars, parseVars, textVars, resVars, called>>
    BY DEF BindOuts
  <1>2. inCount + outCount + inoutCount = totalCount /\ outCount + inoutCount \in 0..MAX_PARAM_COUNT
    <2>1. inCount + outCount + inoutCount = totalCount
      BY <1>1 DEF IInv, Parsed, Known, Executing
    <2> QED
      BY <2>1, ProcedureHelperAssumption DEF IInv, TypeOK
  <1>3. ASSUME NEW p \in 1..MAX_PARAM_COUNT
        PROVE  /\ column'[p] \in 0..MAX_PARAM_COUNT
               /\ p <= inCount => column'[p] = 0
               /\ p > inCount /\ p <= totalCount => column'[p] = p - inCount
    <2> DEFINE n == outCount + inoutCount
    <2>1. column'[p] = IF \E i \in 1..n : Target(i) = p
                       THEN CHOOSE i \in 1..n : Target(i) = p ELSE column[p]
      BY DEF BindOuts
    <2>2. column[p] = 0
      BY <1>1 DEF IInv, Bound
    <2>3. ASSUME NEW i \in 1..n PROVE Target(i) = p <=> i = p - inCount
      BY DEF IInv, TypeOK, Target
    <2>4. CASE p > inCount /\ p <= totalCount
      <3>1. p - inCount \in 1..n
        BY <1>2, <2>4 DEF IInv, TypeOK
      <3>2. \E i \in 1..n : Target(i) = p
        BY <2>3, <3>1
      <3>3. (CHOOSE i \in 1..n : Target(i) = p) = p - inCount
        BY <2>3
      <3> QED
        <4>1. column'[p] = p - inCount
          BY <2>1, <3>2, <3>3
        <4>2. p - inCount \in 0..MAX_PARAM_COUNT /\ ~(p <= inCount)
          BY <2>4, ProcedureHelperAssumption DEF IInv, TypeOK
        <4> QED
          BY <4>1, <4>2
    <2>5. CASE ~(p > inCount /\ p <= totalCount)
      <3>1. ~ \E i \in 1..n : Target(i) = p
        BY <1>2, <2>3, <2>5 DEF IInv, TypeOK
      <3> QED
        BY <2>1, <2>2, <2>5, <3>1, ProcedureHelperAssumption
    <2> QED
      BY <2>4, <2>5
  <1>4. column' \in [1..MAX_PARAM_COUNT -> 0..MAX_PARAM_COUNT]
    <2>1. column' = [p \in 1..MAX_PARAM_COUNT |-> column'[p]]
      BY DEF BindOuts
    <2> QED
      BY <1>3, <2>1
  <1>5. TypeOK'
    BY <1>1, <1>4 DEF IInv, TypeOK, callVars, parseVars, countVars, textVars, resVars
  <1>6. Empty' /\ Tokens'
    BY <1>1 DEF Empty, Tokens
  <1>7. Parsed'
    BY <1>1, ParsedKept DEF IInv, Executing
  <1>8. Selected'
    BY <1>1, SelectedKept DEF IInv, Executing
  <1>9. Bound'
    <2>1. totalCount' = totalCount /\ inCount' = inCount
      BY <1>1 DEF parseVars, countVars
    <2>2. ASSUME NEW i \in 1..totalCount
          PROVE  column'[i] = IF i <= inCount THEN 0 ELSE i - inCount
      <3>1. i \in 1..MAX_PARAM_COUNT /\ (i <= inCount \/ i > inCount) /\ i <= totalCount
        BY ProcedureHelperAssumption DEF IInv, TypeOK
      <3> QED
        BY <1>3, <3>1
    <2> QED
      BY <1>1, <2>1, <2>2 DEF Bound
  <1>10. Owned'
    BY <1>1 DEF IInv, Owned, resVars
  <1> QED
    BY <1>5, <1>6, <1>7, <1>8, <1>9, <1>10 DEF IInv

\* The callback leaves everything to Clear.
LEMMA CallbackStep ==
    ASSUME IInv, Callback
    PROVE  IInv'
  <1>1. TypeOK'
    BY DEF IInv, TypeOK, Callback, callVars, parseVars, countVars, textVars, resVars
  <1>2. Empty' /\ Tokens' /\ Parsed' /\ Selected' /\ Bound' /\ Owned'
    BY DEF IInv, Empty, Tokens, Parsed, Selected, Executing, Bound, Owned, Callback, resVars
  <1> QED
    BY <1>1, <1>2 DEF IInv

\* Clear leaves nothing of a call but the number in `res`.
LEMMA ClearStep ==
    ASSUME IInv, Clear
    PROVE  IInv'
  <1>1. doubleFreed' \subseteq freed' /\ freed' = 1..results' /\ pc' \in {"idle", "dead"}
    BY ReleaseFrees DEF Clear
  <1>2. parameters' \in [1..MAX_PARAM_COUNT -> Param]
    BY DEF Clear, Cleared, Param
  <1>3. decl' \in Seq(Decl) /\ Len(decl') = 0 /\ strSelect' \in Seq(1..MAX_PARAM_COUNT)
    BY DEF Clear
  <1>4. TypeOK'
    BY <1>1, <1>2, ProcedureHelperAssumption DEF IInv, TypeOK, Clear, ResetCounts
  <1>5. Empty' /\ Tokens' /\ Parsed' /\ Selected'
    BY <1>1 DEF Empty, Tokens, Parsed, Selected, Executing, Clear, ResetCounts
  <1>6. Bound' /\ Owned'
    BY <1>1 DEF Bound, Owned, Clear
  <1> QED
    BY <1>4, <1>5, <1>6 DEF IInv

-----------------------------------------------------------------------------
(* The theorems *)

\* The invariant holds when the program begins.
LEMMA InitIInv == Init => IInv
  <1> SUFFICES ASSUME Init PROVE IInv
    OBVIOUS
  <1>1. parameters \in [1..MAX_PARAM_COUNT -> Param]
    BY DEF Init, Cleared, Param
  <1>2. decl \in Seq(Decl) /\ Len(decl) = 0 /\ strSelect \in Seq(1..MAX_PARAM_COUNT)
    BY DEF Init
  <1>3. TypeOK
    BY <1>1, ProcedureHelperAssumption DEF Init, TypeOK
  <1>4. Empty /\ Tokens /\ Parsed /\ Selected
    BY DEF Init, Empty, Tokens, Parsed, Selected, Executing
  <1>5. Bound /\ Owned
    BY DEF Init, Bound, Owned
  <1> QED
    BY <1>3, <1>4, <1>5 DEF IInv

\* A step that changes nothing keeps the invariant.
LEMMA Stutter ==
    ASSUME IInv, UNCHANGED vars
    PROVE  IInv'
  <1> USE DEF vars, callVars, parseVars, countVars, textVars, resVars
  <1>1. TypeOK'
    BY DEF IInv, TypeOK
  <1>2. Empty' /\ Tokens'
    BY DEF IInv, Empty, Tokens
  <1>3. Parsed'
    BY DEF IInv, Parsed, Known, InFirst
  <1>4. Selected'
    BY DEF IInv, Selected, Handled, InFirst
  <1>5. Bound' /\ Owned'
    BY DEF IInv, Bound, InFirst, Owned
  <1> QED
    BY <1>1, <1>2, <1>3, <1>4, <1>5 DEF IInv

\* The inductive invariant of ExecuteProcedure and its helper: with the type
\* invariant (no index leaves `parameters`), what Prepare has read, what Execute
\* selects and binds, and who frees a result set.
THEOREM ProcedureHelperInvariant == Spec => []IInv
  <1>1. IInv /\ [Next]_vars => IInv'
    <2> SUFFICES ASSUME IInv, [Next]_vars PROVE IInv'
      OBVIOUS
    <2>1. CASE ExecuteProcedure
      BY <2>1, ExecuteProcedureStep
    <2>2. CASE PrepareFails \/ NoValue \/ SetFails \/ CallFails \/ SelectFails \/ FetchFails \/ NullOut
      BY <2>2, FailuresStep
    <2>3. CASE PrepareReads
      BY <2>3, PrepareReadsStep
    <2>4. CASE ParseDirection
      BY <2>4, ParseDirectionStep
    <2>5. CASE ParseName
      BY <2>5, ParseNameStep
    <2>6. CASE ParseType
      BY <2>6, ParseTypeStep
    <2>7. CASE ParseEnds
      BY <2>7, ParseEndsStep
    <2>8. CASE Assemble
      BY <2>8, AssembleStep
    <2>9. CASE AssembleEnds \/ SetOk
      BY <2>9, TextsStep
    <2>10. CASE CallOk \/ SelectOk
      BY <2>10, QueryStep
    <2>11. CASE ReleaseCall
      BY <2>11, ReleaseCallStep
    <2>12. CASE BindOuts
      BY <2>12, BindOutsStep
    <2>13. CASE Callback
      BY <2>13, CallbackStep
    <2>14. CASE Clear
      BY <2>14, ClearStep
    <2>15. CASE UNCHANGED vars
      BY <2>15, Stutter
    <2> QED
      BY <2>1, <2>2, <2>3, <2>4, <2>5, <2>6, <2>7, <2>8, <2>9, <2>10, <2>11, <2>12, <2>13, <2>14,
         <2>15 DEF Next, Step
  <1> QED
    BY InitIInv, <1>1, PTL DEF Spec

\* Execute works on the parameter list of this call, as it is declared, whatever
\* the calls before it were and wherever they failed (Prepare, Clear).
THEOREM ProcedureHelperParsedAsDeclared == Spec => []ParsedAsDeclared
  <1>1. IInv => ParsedAsDeclared
    BY DEF IInv, Parsed, ParsedAsDeclared, Known, Dir, Executing
  <1> QED
    BY ProcedureHelperInvariant, <1>1, PTL

\* With the IN parameters first, as ProcedureHelper.hpp asks, the callback finds in
\* every OUT and INOUT parameter the column selected for it, and none in an IN one.
THEOREM ProcedureHelperOutsBound == Spec => []OutsBound
  <1>1. IInv => OutsBound
    <2> SUFFICES ASSUME IInv, pc = "callback", InFirst, NEW i \in 1..Len(decl)
                 PROVE  IF decl[i].dir \in {"in", "none"}
                        THEN column[i] = 0 ELSE strSelect[column[i]] = i
      BY DEF OutsBound
    <2>1. Known = totalCount /\ totalCount = Len(decl) /\ Handled = totalCount
      BY DEF IInv, Parsed, Known, Handled, Executing
    <2>2. i <= inCount <=> Dir(decl[i]) = "in"
      BY <2>1 DEF IInv, Parsed, Executing
    <2>3. column[i] = IF i <= inCount THEN 0 ELSE i - inCount
      BY <2>1 DEF IInv, Bound
    <2>4. CASE i <= inCount
      BY <2>2, <2>3, <2>4 DEF Dir
    <2>5. CASE ~(i <= inCount)
      <3>1. decl[i].dir \notin {"in", "none"}
        BY <2>2, <2>5 DEF Dir
      <3>2. i - inCount \in 1..Len(strSelect)
        BY <2>1, <2>5 DEF IInv, TypeOK, Selected, Executing
      <3>3. strSelect[i - inCount] = inCount + (i - inCount)
        BY <3>2 DEF IInv, Selected, Executing
      <3> QED
        BY <2>3, <2>5, <3>1, <3>3 DEF IInv, TypeOK
    <2> QED
      BY <2>4, <2>5
  <1> QED
    BY ProcedureHelperInvariant, <1>1, PTL

\* Between two calls every result set has been freed, on every path through Execute
\* (Release, Clear).
THEOREM ProcedureHelperNoLeak == Spec => []NoLeak
  <1>1. IInv => NoLeak
    BY DEF IInv, Owned, NoLeak
  <1> QED
    BY ProcedureHelperInvariant, <1>1, PTL
=============================================================================
