----------------------------- MODULE ByteQueue -----------------------------
(***************************************************************************)
(* What muduo::net::Buffer promises: a sequence of bytes that grows and    *)
(* shrinks at both ends and whose answers depend on these bytes alone.     *)
(* Nothing is said of the vector, the indexes or the room in front.        *)
(***************************************************************************)
EXTENDS Integers, Sequences

CONSTANTS Data,       (* what can be put in at a time                      *)
          Patterns,   (* what can be looked for                            *)
          Value(_)    (* the integer that some bytes stand for             *)

VARIABLES content,  (* the bytes that can be read                          *)
          answer    (* what the last call returned: nothing, bytes, a
                       number or the outcome of a comparison               *)

vars == <<content, answer>>

\* Where `pattern` first occurs at or after offset `from`; -1: nowhere.
FirstAt(from, pattern) ==
    LET hits == {i \in from..(Len(content) - Len(pattern)) :
                    SubSeq(content, i + 1, i + Len(pattern)) = pattern}
    IN  IF hits = {} THEN -1 ELSE CHOOSE i \in hits : \A j \in hits : i <= j

Init == content = <<>> /\ answer = <<>>

\* How many bytes have been put in may be told.
Put(data) == content' = content \o data /\ answer' \in {<<>>, <<Len(data)>>}

PutFront(data) == content' = data \o content /\ answer' = <<>>

Left(n) == SubSeq(content, n + 1, Len(content))

\* The first n bytes are read, as they are or as an integer, and may stay.
Get(n) ==
    /\ n <= Len(content)
    /\ answer' \in {SubSeq(content, 1, n), <<Value(SubSeq(content, 1, n))>>}
    /\ content' \in {content, Left(n)}

\* Any part of the content may be looked at.
Look(m, n) ==
    /\ m + n <= Len(content)
    /\ answer' = SubSeq(content, m + 1, Len(content) - n)
    /\ UNCHANGED content

Drop(n) == n <= Len(content) /\ content' = Left(n) /\ answer' = <<>>

Unput(n) == n <= Len(content) /\ content' = SubSeq(content, 1, Len(content) - n) /\ answer' = <<>>

Find(from, pattern) == answer' = <<FirstAt(from, pattern)>> /\ UNCHANGED content

\* The lexicographic order: s has the smaller byte where they first differ, or ends
\* there.
Before(s, t) ==
    \E k \in 0..Len(s) :
        /\ k < Len(t) /\ SubSeq(s, 1, k) = SubSeq(t, 1, k)
        /\ k = Len(s) \/ s[k + 1] < t[k + 1]

Bit(P) == IF P THEN 1 ELSE 0

\* The content is compared with x: the sign, the four orders, equality, and whether
\* x is what it begins with.
Compare(x) ==
    LET less == Before(content, x)
        greater == Before(x, content)
    IN  /\ answer' = <<IF less THEN -1 ELSE IF greater THEN 1 ELSE 0,
                       Bit(less), Bit(~greater), Bit(~less), Bit(greater), Bit(content = x),
                       Bit(\E n \in 0..Len(content) : SubSeq(content, 1, n) = x)>>
        /\ UNCHANGED content

Next ==
    \/ \E data \in Data : Put(data) \/ PutFront(data) \/ Compare(data)
    \/ \E n \in 0..Len(content) :
          \/ Get(n) \/ Drop(n) \/ Unput(n)
          \/ \E pattern \in Patterns : Find(n, pattern)
          \/ \E m \in 0..(Len(content) - n) : Look(m, n)

Spec == Init /\ [][Next]_vars
=============================================================================
