-------------------------- MODULE ConnTableProofs --------------------------
(***************************************************************************)
(* Proofs about ConnTable for any number of connections and IO threads,    *)
(* any assignment of the ones to the others, any rand() and any time.      *)
(*                                                                         *)
(* NoStaleEntry needs to know which connection a callback works for and    *)
(* how far it has come (Callbacks, Numbered), and that a connection has no *)
(* entry before its insertion (Entered).  SerialTable needs that callbacks *)
(* that do not overlap cannot collide in the map (Alone), and that what    *)
(* the look at the map has shown is then still true at the insertion and   *)
(* at the erasure (Kept).                                                  *)
(***************************************************************************)
EXTENDS ConnTable, TLAPS

-----------------------------------------------------------------------------
(* The inductive invariant *)

\* The callback of a connection that came up, that of one that went down, and where
\* the first has a number.
UpAt == {"srand", "rand", "find", "finding", "context", "inserting"}
DownAt == {"erase", "erasing"}
NumberedAt == {"find", "finding", "context", "inserting"}

\* A thread in a callback works for a connection of its own.
Callbacks ==
    \A t \in IOThreads :
       /\ pc[t] = "idle" => conn[t] = None
       /\ pc[t] # "idle" => conn[t] \in Conns /\ Home[conn[t]] = t
       /\ pc[t] \in UpAt => link[conn[t]] = "up"
       /\ pc[t] \in DownAt => link[conn[t]] = "down"

\* Who has a number, and where.
Numbered ==
    /\ \A t \in IOThreads :
          /\ pc[t] \in NumberedAt => dnid[t] \in Dnids
          /\ pc[t] = "inserting" => context[conn[t]] = dnid[t]
          /\ pc[t] \in DownAt => context[conn[t]] \in Dnids
    /\ \A c \in Conns : Settled(c) => context[c] \in Dnids

\* A connection has no entry before its insertion, also after a collision.
Entered ==
    /\ \A d \in Dnids : connections[d] # None => link[connections[d]] # "new"
    /\ \A t \in IOThreads : pc[t] \in UpAt => \A d \in Dnids : connections[d] # conn[t]

\* The number of a Pet without a connection is not even generated.
Valid == NeverInvalid /\ \A t \in IOThreads : dnid[t] # InvalidDnid

\* Callbacks that do not overlap do not collide.
Alone ==
    serial = "yes" => /\ raced = "no"
                      /\ \A t, u \in IOThreads : pc[t] # "idle" /\ pc[u] # "idle" => t = u

\* A number that was free is free at the insertion; the entry that is erased is one's own.
Kept ==
    serial = "yes" => \A t \in IOThreads :
       /\ pc[t] \in {"context", "inserting"} => connections[dnid[t]] = None
       /\ pc[t] \in DownAt => connections[context[conn[t]]] = conn[t]

IInv == TypeOK /\ Callbacks /\ Numbered /\ Entered /\ Valid /\ Alone /\ Kept /\ NoStaleEntry /\ SerialTable

-----------------------------------------------------------------------------
(* Numbers *)

\* What GreateDnid puts together is a DNID and not the invalid one: the low half stops
\* one short of the range.
LEMMA NewDnidFacts ==
    ASSUME NEW time \in Nat, NEW r \in Nat
    PROVE  NewDnid(time, r) \in Dnids /\ NewDnid(time, r) # InvalidDnid
<1> USE ConnTableAssumption
<1> DEFINE hi == time % HALF
           lo == r % (HALF - 1)
<1>1. hi \in 0..(HALF - 1) /\ lo \in 0..(HALF - 2)
  OBVIOUS
<1>2. NewDnid(time, r) = hi * HALF + lo
  BY DEF NewDnid, Low16
<1> HIDE DEF hi, lo
<1>3. hi * HALF \in Nat /\ hi * HALF <= (HALF - 1) * HALF
  BY <1>1
<1>4. (HALF - 1) * HALF = HALF * HALF - HALF /\ HALF * HALF \in Nat
  OBVIOUS
<1> QED
  BY <1>1, <1>2 DEF Dnids, InvalidDnid

\* None is not a DNID.
LEMMA NoneFacts == None \notin Dnids /\ None \notin Conns /\ None # InvalidDnid
<1> USE ConnTableAssumption
<1>1. Dnids \subseteq Nat /\ InvalidDnid \in Nat
  <2>1. HALF * HALF \in Nat /\ HALF * HALF >= 1
    OBVIOUS
  <2> QED
    BY DEF Dnids, InvalidDnid
<1> QED
  BY <1>1

\* A collision loses entries, and adds none.
LEMMA OutcomeFacts ==
    ASSUME NEW m \in [Dnids -> Conns \cup {None}], NEW x \in Outcome(m)
    PROVE  /\ x \in [Dnids -> Conns \cup {None}]
           /\ raced = "no" => x = m
           /\ \A d \in Dnids : x[d] # None => x[d] = m[d]
  BY DEF Outcome

-----------------------------------------------------------------------------
(* A connection comes up *)

\* A connection that is new has no entry.
LEMMA ConnUpStep ==
    ASSUME IInv, NEW t \in IOThreads, NEW c \in Conns, ConnUp(t, c)
    PROVE  IInv'
<1> USE ConnTableAssumption, NoneFacts
<1>1. /\ pc[t] = "idle" /\ Home[c] = t /\ link[c] = "new"
      /\ pc' = [pc EXCEPT ![t] = "srand"]
      /\ conn' = [conn EXCEPT ![t] = c]
      /\ link' = [link EXCEPT ![c] = "up"]
      /\ serial' = IF \E u \in IOThreads : pc[u] # "idle" THEN "no" ELSE serial
  BY DEF ConnUp, Callback
<1>2. /\ context' = context /\ connections' = connections /\ dnid' = dnid /\ now' = now
      /\ seed' = seed /\ calls' = calls /\ raced' = raced
  BY DEF ConnUp, randVars
<1>3. TypeOK'
  BY <1>1, <1>2 DEF IInv, TypeOK
<1>4. Callbacks'
  BY <1>1 DEF IInv, TypeOK, Callbacks, DownAt
<1>5. Numbered'
  BY <1>1, <1>2 DEF IInv, TypeOK, Numbered, Settled, DownAt, NumberedAt
<1>6. Entered'
  BY <1>1, <1>2 DEF IInv, TypeOK, Entered
<1>7. Valid'
  BY <1>2 DEF IInv, Valid, NeverInvalid
<1>8. Alone'
  BY <1>1, <1>2 DEF IInv, Alone
<1>9. Kept'
  BY <1>1 DEF Kept, DownAt
<1>10. NoStaleEntry'
  BY <1>1, <1>2 DEF IInv, Callbacks, NoStaleEntry
<1>11. SerialTable'
  BY <1>1, <1>2 DEF IInv, TypeOK, Callbacks, SerialTable, Settled
<1> QED
  BY <1>3, <1>4, <1>5, <1>6, <1>7, <1>8, <1>9, <1>10, <1>11 DEF IInv

\* srand() changes only the generator.
LEMMA SrandStep ==
    ASSUME IInv, NEW t \in IOThreads, Srand(t)
    PROVE  IInv'
<1> USE ConnTableAssumption, NoneFacts
<1>1. /\ pc[t] = "srand"
      /\ pc' = [pc EXCEPT ![t] = "rand"]
      /\ seed' = now /\ calls' = 0
  BY DEF Srand
<1>2. /\ link' = link /\ context' = context /\ connections' = connections /\ conn' = conn
      /\ dnid' = dnid /\ now' = now /\ raced' = raced /\ serial' = serial
  BY DEF Srand
<1>3. TypeOK'
  BY <1>1, <1>2 DEF IInv, TypeOK
<1>4. Callbacks'
  BY <1>1, <1>2 DEF IInv, Callbacks, UpAt, DownAt
<1>5. Numbered'
  BY <1>1, <1>2 DEF IInv, Numbered, Settled, DownAt, NumberedAt
<1>6. Entered'
  BY <1>1, <1>2 DEF IInv, Entered, UpAt
<1>7. Valid'
  BY <1>2 DEF IInv, Valid, NeverInvalid
<1>8. Alone'
  BY <1>1, <1>2 DEF IInv, Alone
<1>9. Kept'
  BY <1>1, <1>2 DEF IInv, Kept, DownAt
<1>10. NoStaleEntry'
  BY <1>2 DEF IInv, NoStaleEntry
<1>11. SerialTable'
  BY <1>2 DEF IInv, SerialTable, Settled
<1> QED
  BY <1>3, <1>4, <1>5, <1>6, <1>7, <1>8, <1>9, <1>10, <1>11 DEF IInv

\* A candidate is a number that may be given.
LEMMA CandidateStep ==
    ASSUME IInv, NEW t \in IOThreads, Candidate(t)
    PROVE  IInv'
<1> USE ConnTableAssumption, NoneFacts
<1>1. /\ pc[t] = "rand"
      /\ pc' = [pc EXCEPT ![t] = "find"]
      /\ dnid' = [dnid EXCEPT ![t] = NewDnid(now, Rand[<<seed, calls>>])]
      /\ calls' = (calls + 1) % RandLen
  BY DEF Candidate, AfterRand
<1>2. /\ link' = link /\ context' = context /\ connections' = connections /\ conn' = conn
      /\ now' = now /\ seed' = seed /\ raced' = raced /\ serial' = serial
  BY DEF Candidate
<1>3. now \in Nat /\ Rand[<<seed, calls>>] \in Nat
  BY DEF IInv, TypeOK
<1>4. NewDnid(now, Rand[<<seed, calls>>]) \in Dnids /\ NewDnid(now, Rand[<<seed, calls>>]) # InvalidDnid
  BY <1>3, NewDnidFacts
<1>5. calls' \in 0..(RandLen - 1)
  <2>1. calls + 1 \in Int
    BY DEF IInv, TypeOK
  <2> QED
    BY <1>1, <2>1
<1>6. TypeOK'
  BY <1>1, <1>2, <1>4 DEF IInv, TypeOK
<1>7. Callbacks'
  BY <1>1, <1>2 DEF IInv, Callbacks, UpAt, DownAt
<1>8. Numbered'
  BY <1>1, <1>2, <1>4 DEF IInv, TypeOK, Numbered, Settled, DownAt
<1>9. Entered'
  BY <1>1, <1>2 DEF IInv, Entered, UpAt
<1>10. Valid'
  BY <1>1, <1>2, <1>4 DEF IInv, Valid, NeverInvalid
<1>11. Alone'
  BY <1>1, <1>2 DEF IInv, Alone
<1>12. Kept'
  BY <1>1, <1>2 DEF IInv, Kept, DownAt
<1>13. NoStaleEntry'
  BY <1>2 DEF IInv, NoStaleEntry
<1>14. SerialTable'
  BY <1>2 DEF IInv, SerialTable, Settled
<1> QED
  BY <1>6, <1>7, <1>8, <1>9, <1>10, <1>11, <1>12, <1>13, <1>14 DEF IInv

\* A look at the map begins.
LEMMA FindBeginStep ==
    ASSUME IInv, NEW t \in IOThreads, FindBegin(t)
    PROVE  IInv'
<1> USE ConnTableAssumption, NoneFacts
<1>1. /\ pc[t] = "find"
      /\ pc' = [pc EXCEPT ![t] = "finding"]
      /\ raced' = IF \E u \in IOThreads \ {t} : pc[u] \in Writing THEN "yes" ELSE raced
  BY DEF FindBegin, Begin
<1>2. /\ link' = link /\ context' = context /\ connections' = connections /\ conn' = conn
      /\ dnid' = dnid /\ now' = now /\ seed' = seed /\ calls' = calls /\ serial' = serial
  BY DEF FindBegin, randVars
<1>3. TypeOK'
  BY <1>1, <1>2 DEF IInv, TypeOK
<1>4. Callbacks'
  BY <1>1, <1>2 DEF IInv, Callbacks, UpAt, DownAt
<1>5. Numbered'
  BY <1>1, <1>2 DEF IInv, Numbered, Settled, DownAt, NumberedAt
<1>6. Entered'
  BY <1>1, <1>2 DEF IInv, Entered, UpAt
<1>7. Valid'
  BY <1>2 DEF IInv, Valid, NeverInvalid
<1>8. Alone'
  BY <1>1, <1>2 DEF IInv, Alone, Writing
<1>9. Kept'
  BY <1>1, <1>2 DEF IInv, Kept, DownAt
<1>10. NoStaleEntry'
  BY <1>1, <1>2 DEF IInv, NoStaleEntry
<1>11. SerialTable'
  BY <1>2 DEF IInv, SerialTable, Settled
<1> QED
  BY <1>3, <1>4, <1>5, <1>6, <1>7, <1>8, <1>9, <1>10, <1>11 DEF IInv

\* Without a collision, the number that leaves the loop is free.
LEMMA FindEndStep ==
    ASSUME IInv, NEW t \in IOThreads, FindEnd(t)
    PROVE  IInv'
<1> USE ConnTableAssumption, NoneFacts
<1>1. /\ pc[t] = "finding"
      /\ \/ pc' = [pc EXCEPT ![t] = "rand"]
         \/ pc' = [pc EXCEPT ![t] = "context"] /\ (raced = "no" => connections[dnid[t]] = None)
  BY DEF FindEnd, Free
<1>2. /\ link' = link /\ context' = context /\ connections' = connections /\ conn' = conn
      /\ dnid' = dnid /\ now' = now /\ seed' = seed /\ calls' = calls /\ raced' = raced
      /\ serial' = serial
  BY DEF FindEnd, randVars
<1>3. TypeOK'
  BY <1>1, <1>2 DEF IInv, TypeOK
<1>4. Callbacks'
  BY <1>1, <1>2 DEF IInv, TypeOK, Callbacks, UpAt, DownAt
<1>5. Numbered'
  BY <1>1, <1>2 DEF IInv, TypeOK, Numbered, Settled, DownAt, NumberedAt
<1>6. Entered'
  BY <1>1, <1>2 DEF IInv, TypeOK, Entered, UpAt
<1>7. Valid'
  BY <1>2 DEF IInv, Valid, NeverInvalid
<1>8. Alone'
  BY <1>1, <1>2 DEF IInv, TypeOK, Alone
<1>9. Kept'
  BY <1>1, <1>2 DEF IInv, TypeOK, Alone, Kept, DownAt
<1>10. NoStaleEntry'
  BY <1>2 DEF IInv, NoStaleEntry
<1>11. SerialTable'
  BY <1>2 DEF IInv, SerialTable, Settled
<1> QED
  BY <1>3, <1>4, <1>5, <1>6, <1>7, <1>8, <1>9, <1>10, <1>11 DEF IInv

\* The context is set before the entry is there.
LEMMA SetContextStep ==
    ASSUME IInv, NEW t \in IOThreads, SetContext(t)
    PROVE  IInv'
<1> USE ConnTableAssumption, NoneFacts
<1>1. /\ pc[t] = "context"
      /\ pc' = [pc EXCEPT ![t] = "inserting"]
      /\ raced' = IF \E u \in IOThreads \ {t} : pc[u] \in (Reading \cup Writing) THEN "yes" ELSE raced
      /\ context' = [context EXCEPT ![conn[t]] = dnid[t]]
  BY DEF SetContext, Begin, WithContext
<1>2. /\ link' = link /\ connections' = connections /\ conn' = conn /\ dnid' = dnid
      /\ now' = now /\ seed' = seed /\ calls' = calls /\ serial' = serial
  BY DEF SetContext, randVars
<1>3. TypeOK'
  BY <1>1, <1>2 DEF IInv, TypeOK, Callbacks
<1>4. Callbacks'
  BY <1>1, <1>2 DEF IInv, Callbacks, UpAt, DownAt
<1>5. Numbered'
  BY <1>1, <1>2 DEF IInv, TypeOK, Callbacks, Numbered, Settled, NumberedAt
<1>6. Entered'
  BY <1>1, <1>2 DEF IInv, Entered, UpAt
<1>7. Valid'
  BY <1>1, <1>2 DEF IInv, Valid, NeverInvalid
<1>8. Alone'
  BY <1>1, <1>2 DEF IInv, Alone, Reading, Writing
<1>9. Kept'
  BY <1>1, <1>2 DEF IInv, Kept, Callbacks, DownAt
<1>10. NoStaleEntry'
  BY <1>1, <1>2 DEF IInv, Entered, NoStaleEntry, UpAt
<1>11. SerialTable'
  BY <1>1, <1>2 DEF IInv, Callbacks, SerialTable, Settled
<1> QED
  BY <1>3, <1>4, <1>5, <1>6, <1>7, <1>8, <1>9, <1>10, <1>11 DEF IInv

\* The entry is that of a connection which is up and has its number.
LEMMA InsertEndStep ==
    ASSUME IInv, NEW t \in IOThreads, InsertEnd(t)
    PROVE  IInv'
<1> USE ConnTableAssumption, NoneFacts
<1>1. /\ pc[t] = "inserting"
      /\ pc' = [pc EXCEPT ![t] = "idle"]
      /\ conn' = [conn EXCEPT ![t] = None] /\ dnid' = [dnid EXCEPT ![t] = None]
      /\ connections' \in Outcome([connections EXCEPT ![dnid[t]] = conn[t]])
  BY DEF InsertEnd, Return
<1>2. /\ link' = link /\ context' = context /\ now' = now /\ seed' = seed
      /\ calls' = calls /\ raced' = raced /\ serial' = serial
  BY DEF InsertEnd, randVars
<1>3. conn[t] \in Conns /\ Home[conn[t]] = t /\ link[conn[t]] = "up" /\ dnid[t] \in Dnids
      /\ context[conn[t]] = dnid[t]
  BY <1>1 DEF IInv, Callbacks, Numbered, UpAt, NumberedAt
<1>4. /\ connections' \in [Dnids -> Conns \cup {None}]
      /\ raced = "no" => connections' = [connections EXCEPT ![dnid[t]] = conn[t]]
      /\ \A d \in Dnids : connections'[d] # None =>
            connections'[d] = [connections EXCEPT ![dnid[t]] = conn[t]][d]
  <2> DEFINE m == [connections EXCEPT ![dnid[t]] = conn[t]]
  <2>1. m \in [Dnids -> Conns \cup {None}]
    BY <1>3 DEF IInv, TypeOK
  <2>2. connections' \in Outcome(m)
    BY <1>1
  <2> HIDE DEF m
  <2>3. /\ connections' \in [Dnids -> Conns \cup {None}]
        /\ raced = "no" => connections' = m
        /\ \A d \in Dnids : connections'[d] # None => connections'[d] = m[d]
    BY <2>1, <2>2, OutcomeFacts
  <2> QED
    BY <2>3 DEF m
<1>5. TypeOK'
  BY <1>1, <1>2, <1>3, <1>4 DEF IInv, TypeOK, Numbered, Settled
<1>6. Callbacks'
  BY <1>1, <1>2 DEF IInv, TypeOK, Callbacks, UpAt, DownAt
<1>7. Numbered'
  BY <1>1, <1>2 DEF IInv, TypeOK, Numbered, Settled, DownAt, NumberedAt
<1>8. Entered'
  BY <1>1, <1>2, <1>4 DEF IInv, TypeOK, Callbacks, Entered, UpAt
<1>9. Valid'
  BY <1>1, <1>2 DEF IInv, Valid, NeverInvalid
<1>10. Alone'
  BY <1>1, <1>2 DEF IInv, Alone
<1>11. Kept'
  BY <1>1, <1>2 DEF IInv, TypeOK, Alone, Kept, DownAt
<1>12. NoStaleEntry'
  BY <1>1, <1>2, <1>3, <1>4 DEF IInv, NoStaleEntry
<1>13. SerialTable'
  <2> SUFFICES ASSUME serial = "yes", NEW c \in Conns, Settled(c)'
               PROVE  connections'[context[c]] = c
    BY <1>2 DEF SerialTable
  <2>1. raced = "no" /\ connections' = [connections EXCEPT ![dnid[t]] = conn[t]]
    BY <1>4 DEF IInv, Alone
  <2>2. CASE c = conn[t]
    BY <1>3, <2>1, <2>2 DEF IInv, TypeOK
  <2>3. CASE c # conn[t]
    <3>1. Settled(c)
      BY <1>1, <1>2, <2>3 DEF Settled
    <3>2. connections[context[c]] = c /\ connections[dnid[t]] = None /\ context[c] \in Dnids
      BY <1>1, <3>1 DEF IInv, SerialTable, Kept, Numbered
    <3> QED
      BY <2>1, <3>2
  <2> QED
    BY <2>2, <2>3
<1> QED
  BY <1>5, <1>6, <1>7, <1>8, <1>9, <1>10, <1>11, <1>12, <1>13 DEF IInv

-----------------------------------------------------------------------------
(* A connection goes down *)

\* The callback of a connection that went down finds its number in its context.
LEMMA ConnDownStep ==
    ASSUME IInv, NEW t \in IOThreads, NEW c \in Conns, ConnDown(t, c)
    PROVE  IInv'
<1> USE ConnTableAssumption, NoneFacts
<1>1. /\ pc[t] = "idle" /\ Home[c] = t /\ link[c] = "up"
      /\ pc' = [pc EXCEPT ![t] = "erase"]
      /\ conn' = [conn EXCEPT ![t] = c]
      /\ link' = [link EXCEPT ![c] = "down"]
      /\ serial' = IF \E u \in IOThreads : pc[u] # "idle" THEN "no" ELSE serial
  BY DEF ConnDown, Callback
<1>2. /\ context' = context /\ connections' = connections /\ dnid' = dnid /\ now' = now
      /\ seed' = seed /\ calls' = calls /\ raced' = raced
  BY DEF ConnDown, randVars
<1>3. TypeOK'
  BY <1>1, <1>2 DEF IInv, TypeOK
<1>4. Callbacks'
  BY <1>1 DEF IInv, TypeOK, Callbacks, UpAt
<1>5. Numbered'
  BY <1>1, <1>2 DEF IInv, TypeOK, Numbered, Settled, NumberedAt
<1>6. Entered'
  BY <1>1, <1>2 DEF IInv, Entered, UpAt
<1>7. Valid'
  BY <1>2 DEF IInv, Valid, NeverInvalid
<1>8. Alone'
  BY <1>1, <1>2 DEF IInv, Alone
<1>9. Kept'
  BY <1>1, <1>2 DEF IInv, TypeOK, Kept, Callbacks, SerialTable, Settled
<1>10. NoStaleEntry'
  BY <1>1, <1>2 DEF IInv, TypeOK, Callbacks, NoStaleEntry
<1>11. SerialTable'
  BY <1>1, <1>2 DEF IInv, Callbacks, SerialTable, Settled
<1> QED
  BY <1>3, <1>4, <1>5, <1>6, <1>7, <1>8, <1>9, <1>10, <1>11 DEF IInv

\* The erasure begins.
LEMMA EraseBeginStep ==
    ASSUME IInv, NEW t \in IOThreads, EraseBegin(t)
    PROVE  IInv'
<1> USE ConnTableAssumption, NoneFacts
<1>1. /\ pc[t] = "erase"
      /\ pc' = [pc EXCEPT ![t] = "erasing"]
      /\ raced' = IF \E u \in IOThreads \ {t} : pc[u] \in (Reading \cup Writing) THEN "yes" ELSE raced
  BY DEF EraseBegin, Begin
<1>2. /\ link' = link /\ context' = context /\ connections' = connections /\ conn' = conn
      /\ dnid' = dnid /\ now' = now /\ seed' = seed /\ calls' = calls /\ serial' = serial
  BY DEF EraseBegin, randVars
<1>3. TypeOK'
  BY <1>1, <1>2 DEF IInv, TypeOK
<1>4. Callbacks'
  BY <1>1, <1>2 DEF IInv, Callbacks, UpAt, DownAt
<1>5. Numbered'
  BY <1>1, <1>2 DEF IInv, Numbered, Settled, DownAt, NumberedAt
<1>6. Entered'
  BY <1>1, <1>2 DEF IInv, Entered, UpAt
<1>7. Valid'
  BY <1>2 DEF IInv, Valid, NeverInvalid
<1>8. Alone'
  BY <1>1, <1>2 DEF IInv, Alone, Reading, Writing
<1>9. Kept'
  BY <1>1, <1>2 DEF IInv, Kept, DownAt
<1>10. NoStaleEntry'
  BY <1>1, <1>2 DEF IInv, NoStaleEntry
<1>11. SerialTable'
  BY <1>2 DEF IInv, SerialTable, Settled
<1> QED
  BY <1>3, <1>4, <1>5, <1>6, <1>7, <1>8, <1>9, <1>10, <1>11 DEF IInv

\* Without a collision, the one entry of the connection is the one under its number.
LEMMA EraseEndStep ==
    ASSUME IInv, NEW t \in IOThreads, EraseEnd(t)
    PROVE  IInv'
<1> USE ConnTableAssumption, NoneFacts
<1>1. /\ pc[t] = "erasing"
      /\ pc' = [pc EXCEPT ![t] = "idle"]
      /\ conn' = [conn EXCEPT ![t] = None] /\ dnid' = [dnid EXCEPT ![t] = None]
      /\ connections' \in Outcome([connections EXCEPT ![context[conn[t]]] = None])
  BY DEF EraseEnd, Erased, Return
<1>2. /\ link' = link /\ context' = context /\ now' = now /\ seed' = seed
      /\ calls' = calls /\ raced' = raced /\ serial' = serial
  BY DEF EraseEnd, randVars
<1>3. conn[t] \in Conns /\ Home[conn[t]] = t /\ link[conn[t]] = "down" /\ context[conn[t]] \in Dnids
  BY <1>1 DEF IInv, Callbacks, Numbered, DownAt
<1>4. /\ connections' \in [Dnids -> Conns \cup {None}]
      /\ raced = "no" => connections' = [connections EXCEPT ![context[conn[t]]] = None]
      /\ \A d \in Dnids : connections'[d] # None => connections'[d] = connections[d]
  <2> DEFINE m == [connections EXCEPT ![context[conn[t]]] = None]
  <2>1. m \in [Dnids -> Conns \cup {None}] /\ \A d \in Dnids : m[d] \in {None, connections[d]}
    BY DEF IInv, TypeOK
  <2>2. connections' \in Outcome(m)
    BY <1>1
  <2> HIDE DEF m
  <2>3. /\ connections' \in [Dnids -> Conns \cup {None}]
        /\ raced = "no" => connections' = m
        /\ \A d \in Dnids : connections'[d] # None => connections'[d] = m[d]
    BY <2>1, <2>2, OutcomeFacts
  <2>4. \A d \in Dnids : connections'[d] # None => connections'[d] = connections[d]
    BY <2>1, <2>3
  <2> QED
    BY <2>3, <2>4 DEF m
<1>5. TypeOK'
  BY <1>1, <1>2, <1>3, <1>4 DEF IInv, TypeOK, Numbered, Settled
<1>6. Callbacks'
  BY <1>1, <1>2 DEF IInv, TypeOK, Callbacks, UpAt, DownAt
<1>7. Numbered'
  BY <1>1, <1>2 DEF IInv, TypeOK, Numbered, Settled, DownAt, NumberedAt
<1>8. Entered'
  BY <1>1, <1>2, <1>4 DEF IInv, Callbacks, Entered, UpAt
<1>9. Valid'
  BY <1>1, <1>2 DEF IInv, Valid, NeverInvalid
<1>10. Alone'
  BY <1>1, <1>2 DEF IInv, Alone
<1>11. Kept'
  BY <1>1, <1>2 DEF IInv, TypeOK, Alone, Kept, DownAt
<1>12. NoStaleEntry'
  BY <1>1, <1>2, <1>4 DEF IInv, NoStaleEntry
<1>13. SerialTable'
  <2> SUFFICES ASSUME serial = "yes", NEW c \in Conns, Settled(c)'
               PROVE  connections'[context[c]] = c
    BY <1>2 DEF SerialTable
  <2>1. raced = "no" /\ connections' = [connections EXCEPT ![context[conn[t]]] = None]
    BY <1>4 DEF IInv, Alone
  <2>2. c # conn[t] /\ Settled(c)
    BY <1>1, <1>2, <1>3 DEF Settled
  <2>3. /\ connections[context[c]] = c /\ context[c] \in Dnids
        /\ connections[context[conn[t]]] = conn[t]
    BY <1>1, <2>2 DEF IInv, SerialTable, Kept, Numbered, DownAt
  <2> QED
    BY <2>1, <2>2, <2>3
<1> QED
  BY <1>5, <1>6, <1>7, <1>8, <1>9, <1>10, <1>11, <1>12, <1>13 DEF IInv

\* Time passes.
LEMMA TickStep ==
    ASSUME IInv, Tick
    PROVE  IInv'
<1> USE ConnTableAssumption
<1>1. /\ now' \in FirstTime..MaxTime
      /\ link' = link /\ context' = context /\ connections' = connections /\ pc' = pc /\ conn' = conn
      /\ dnid' = dnid /\ seed' = seed /\ calls' = calls /\ raced' = raced /\ serial' = serial
  BY DEF Tick, randVars, IInv, TypeOK
<1> QED
  BY <1>1 DEF IInv, TypeOK, Callbacks, Numbered, Settled, Entered, Valid, NeverInvalid, Alone,
     Kept, NoStaleEntry, SerialTable

-----------------------------------------------------------------------------
(* The theorems *)

\* The invariant holds at the start, and every step keeps it.
THEOREM ConnTableInvariant == Spec => []IInv
<1>1. Init => IInv
  <2> SUFFICES ASSUME Init PROVE IInv
    OBVIOUS
  <2> USE ConnTableAssumption, NoneFacts DEF Init
  <2>1. TypeOK
    BY DEF TypeOK
  <2>2. Callbacks /\ Numbered /\ Entered
    BY DEF Callbacks, Numbered, Entered, Settled, UpAt, DownAt, NumberedAt
  <2>3. Valid /\ Alone /\ Kept
    BY DEF Valid, NeverInvalid, Alone, Kept, DownAt
  <2>4. NoStaleEntry /\ SerialTable
    BY DEF NoStaleEntry, SerialTable, Settled
  <2> QED
    BY <2>1, <2>2, <2>3, <2>4 DEF IInv
<1>2. IInv /\ [Next]_vars => IInv'
  <2> SUFFICES ASSUME IInv, [Next]_vars PROVE IInv'
    OBVIOUS
  <2>1. ASSUME NEW t \in IOThreads, NEW c \in Conns, ConnUp(t, c) \/ ConnDown(t, c) PROVE IInv'
    BY <2>1, ConnUpStep, ConnDownStep
  <2>2. ASSUME NEW t \in IOThreads, onConnection(t) PROVE IInv'
    <3>1. CASE Srand(t) \/ Candidate(t) \/ FindBegin(t) \/ FindEnd(t)
      BY <3>1, SrandStep, CandidateStep, FindBeginStep, FindEndStep
    <3>2. CASE SetContext(t) \/ InsertEnd(t)
      BY <3>2, SetContextStep, InsertEndStep
    <3>3. CASE EraseBegin(t) \/ EraseEnd(t)
      BY <3>3, EraseBeginStep, EraseEndStep
    <3> QED
      BY <2>2, <3>1, <3>2, <3>3 DEF onConnection
  <2>3. CASE Tick
    BY <2>3, TickStep
  <2>4. CASE UNCHANGED vars
    BY <2>4 DEF vars, randVars, IInv, TypeOK, Callbacks, Numbered, Settled, Entered, Valid,
       NeverInvalid, Alone, Kept, NoStaleEntry, SerialTable
  <2> QED
    BY <2>1, <2>2, <2>3, <2>4 DEF Next
<1> QED
  BY <1>1, <1>2, PTL DEF Spec

\* As long as no two accesses to the map have collided, every entry is that of a
\* connection which will still erase it, for any interleaving of the callbacks.
THEOREM ConnTableNoStaleEntry == Spec => []NoStaleEntry
<1>1. IInv => NoStaleEntry
  BY DEF IInv
<1> QED
  BY <1>1, ConnTableInvariant, PTL

\* As long as callbacks do not overlap, every connection that is up is found under its
\* number, whatever rand() and time() return.
THEOREM ConnTableSerialTable == Spec => []SerialTable
<1>1. IInv => SerialTable
  BY DEF IInv
<1> QED
  BY <1>1, ConnTableInvariant, PTL

\* GreateDnid never returns the DNID of a Pet without a connection, for any range of the
\* halves, any time and any rand(), and also after a collision in the map.
THEOREM ConnTableNeverInvalid == Spec => []NeverInvalid
<1>1. IInv => NeverInvalid
  BY DEF IInv, Valid
<1> QED
  BY <1>1, ConnTableInvariant, PTL
=============================================================================
