------------------------------ MODULE Buffer ------------------------------
(***************************************************************************)
(* muduo::net::Buffer (Buffer.h): the input buffer that Codec::onMessage   *)
(* reads frames from and the one in which Codec::SendMsg builds a frame,   *)
(* with StringPiece, the view of its content, and BufferOutputStream.      *)
(*                                                                         *)
(*      0  <=  reader  <=  writer  <=  size                                *)
(*      prependable | readable | writable                                  *)
(*                                                                         *)
(* Bytes outside reader..writer-1 are stale and are kept in the model: an  *)
(* operation that looked at them would be seen to.                         *)
(***************************************************************************)
EXTENDS Integers, Sequences, FiniteSets, SequencesExt

CONSTANTS Base,           (* values of a byte: 256                         *)
          Widths,         (* sizes of the integers: 1, 2, 4, 8             *)
          kCheapPrepend, kInitialSize,
          kBlock,         (* 4096: what BufferOutputStream asks for        *)
          CR, LF,         (* '\r' and '\n'                                 *)
          MaxSize,        (* bound: size of the vector                     *)
          MaxLen          (* bound: bytes appended or prepended at a time  *)

ASSUME BufferAssumption ==
    /\ Base \in Nat /\ Base % 2 = 0 /\ Base > 0
    /\ kCheapPrepend \in Nat /\ kInitialSize \in Nat /\ kBlock \in Nat /\ MaxSize \in Nat /\ MaxLen \in Nat
    /\ Widths \subseteq 1..MaxLen
    /\ kCheapPrepend + kInitialSize <= MaxSize
    /\ CR \in 0..(Base - 1) /\ LF \in 0..(Base - 1) /\ CR # LF

Byte == 0..(Base - 1)

VARIABLES buf,      (* buffer_ (its size and its bytes) and the two indexes  *)
          answer    (* what the last call returned                           *)

bufferVars == <<buf, answer>>

-----------------------------------------------------------------------------
(* The helpers of the class, on a buffer b *)

readableBytes(b) == b.writer - b.reader
writableBytes(b) == b.size - b.writer
prependableBytes(b) == b.reader

\* StringPiece: the n bytes from index i on.
Slice(b, i, n) == [k \in 1..n |-> b.bytes[i + k - 1]]

\* toStringPiece()
Content(b) == Slice(b, b.reader, readableBytes(b))

\* b with `data` stored from index i on.
Stored(b, i, data) ==
    [b EXCEPT !.bytes = [k \in 0..(b.size - 1) |->
        IF k \in i..(i + Len(data) - 1) THEN data[k - i + 1] ELSE b.bytes[k]]]

\* buffer_.resize(n): the new bytes are 0.
Resized(b, n) ==
    [b EXCEPT !.size = n,
              !.bytes = [k \in 0..(n - 1) |-> IF k < b.size THEN b.bytes[k] ELSE 0]]

\* Buffer(): a fresh one.
Fresh == [size |-> kCheapPrepend + kInitialSize,
          bytes |-> [k \in 0..(kCheapPrepend + kInitialSize - 1) |-> 0],
          reader |-> kCheapPrepend, writer |-> kCheapPrepend]

\* Does the content have to stay where it is?  Mutant: the free bytes in front are
\* not counted.
TightNoFront(b, len) == writableBytes(b) < len + kCheapPrepend
Tight(b, len) == writableBytes(b) + prependableBytes(b) < len + kCheapPrepend

\* The content goes to the front of the vector.  Mutant: all the way, with no room
\* left for a header.
MovedFar(b) == [Stored(b, 0, Content(b)) EXCEPT !.reader = 0, !.writer = readableBytes(b)]
Moved(b) ==
    [Stored(b, kCheapPrepend, Content(b)) EXCEPT
        !.reader = kCheapPrepend, !.writer = kCheapPrepend + readableBytes(b)]

makeSpace(b, len) == IF Tight(b, len) THEN Resized(b, b.writer + len) ELSE Moved(b)

ensureWritableBytes(b, len) == IF writableBytes(b) < len THEN makeSpace(b, len) ELSE b

hasWritten(b, len) == [b EXCEPT !.writer = @ + len]

Appended(b, data) ==
    LET e == ensureWritableBytes(b, Len(data))
    IN  hasWritten(Stored(e, e.writer, data), Len(data))

\* retrieveAll().
AllRetrieved(b) == [b EXCEPT !.reader = kCheapPrepend, !.writer = kCheapPrepend]

Retrieved(b, len) ==
    IF len < readableBytes(b) THEN [b EXCEPT !.reader = @ + len] ELSE AllRetrieved(b)

Prepended(b, data) == [Stored(b, b.reader - Len(data), data) EXCEPT !.reader = @ - Len(data)]

-----------------------------------------------------------------------------
(* Integers in network byte order *)

Ints(w) == (-(Base^w \div 2))..(Base^w \div 2 - 1)

\* hostToNetworkXX: the bytes of x, the most significant first.
Network(x, w) == [i \in 1..w |-> ((x % Base^w) \div Base^(w - i)) % Base]

\* networkToHostXX: two's complement.
Host(data) ==
    LET u == FoldLeft(LAMBDA n, d : n * Base + d, 0, data)
    IN  IF u >= Base^Len(data) \div 2 THEN u - Base^Len(data) ELSE u

\* The powers of Base are positive: what the proofs need to know of them.
ASSUME PowersAssumption == \A n \in 0..MaxLen : Base^n \in Nat \ {0}

\* TLC finds that each is the inverse of the other, for negative integers too.
ASSUME IntRoundTrip == \A w \in Widths : \A x \in Ints(w) : Host(Network(x, w)) = x

-----------------------------------------------------------------------------
(* StringPiece, for the pieces p and x *)

memcmp(p, x, n) ==
    LET differ == {i \in 1..n : p[i] # x[i]} IN
    IF differ = {} THEN 0 ELSE IF p[Min(differ)] < x[Min(differ)] THEN -1 ELSE 1

\* What both have: length_ < x.length_ ? length_ : x.length_
Common(p, x) == Min({Len(p), Len(x)})

compare(p, x) ==
    LET m == memcmp(p, x, Common(p, x)) IN
    IF m # 0 THEN m ELSE IF Len(p) < Len(x) THEN -1 ELSE IF Len(p) > Len(x) THEN 1 ELSE 0

\* The operators < and <=, and the other two.
Less(p, x) ==
    LET m == memcmp(p, x, Common(p, x)) IN m < 0 \/ (m = 0 /\ Len(p) < Len(x))
LessEqual(p, x) ==
    LET m == memcmp(p, x, Common(p, x)) IN m < 0 \/ (m = 0 /\ Len(p) <= Len(x))
GreaterEqual(p, x) ==
    LET m == memcmp(p, x, Common(p, x)) IN m > 0 \/ (m = 0 /\ Len(p) >= Len(x))
Greater(p, x) ==
    LET m == memcmp(p, x, Common(p, x)) IN m > 0 \/ (m = 0 /\ Len(p) > Len(x))

Equal(p, x) == Len(p) = Len(x) /\ memcmp(p, x, Len(p)) = 0

remove_prefix(p, n) == SubSeq(p, n + 1, Len(p))
remove_suffix(p, n) == SubSeq(p, 1, Len(p) - n)

starts_with(p, x) == Len(p) >= Len(x) /\ memcmp(p, x, Len(x)) = 0

-----------------------------------------------------------------------------
(* The operations *)

\* append(data, len) and append(StringPiece)
append(data) ==
    /\ Appended(buf, data).size <= MaxSize
    /\ buf' = Appended(buf, data)
    /\ answer' = <<>>

AppendInt(x, w) == append(Network(x, w))

\* assert(len <= prependableBytes())
prepend(data) ==
    /\ Len(data) <= prependableBytes(buf)
    /\ buf' = Prepended(buf, data)
    /\ answer' = <<>>

PrependInt(x, w) == prepend(Network(x, w))

\* retrieve, retrieveIntXX, retrieveUntil and retrieveAll
retrieve(len) ==
    /\ len <= readableBytes(buf)
    /\ buf' = Retrieved(buf, len)
    /\ answer' = <<>>

\* retrieveAsString and retrieveAllAsString
retrieveAsString(len) ==
    /\ len <= readableBytes(buf)
    /\ answer' = Slice(buf, buf.reader, len)
    /\ buf' = Retrieved(buf, len)

\* peekIntXX; ReadInt is peek, then retrieve.
PeekInt(w) ==
    /\ readableBytes(buf) >= w
    /\ answer' = <<Host(Slice(buf, buf.reader, w))>>
    /\ UNCHANGED buf

ReadInt(w) ==
    /\ readableBytes(buf) >= w
    /\ answer' = <<Host(Slice(buf, buf.reader, w))>>
    /\ buf' = Retrieved(buf, w)

Unwritten(b, len) == [b EXCEPT !.writer = @ - len]

unwrite(len) ==
    /\ len <= readableBytes(buf)
    /\ buf' = Unwritten(buf, len)
    /\ answer' = <<>>

\* BufferOutputStream: Next hands out a block and counts it as written, `data` is
\* written to it, BackUp gives the rest of it back, and ByteCount is asked.
Output(data) ==
    LET e == ensureWritableBytes(buf, kBlock)
        next == hasWritten(e, writableBytes(e))
    IN  /\ Len(data) <= writableBytes(e) /\ e.size <= MaxSize
        /\ buf' = Unwritten(Stored(next, e.writer, data), writableBytes(e) - Len(data))
        /\ answer' = <<readableBytes(buf') - readableBytes(buf)>>

Bit(P) == IF P THEN 1 ELSE 0

\* toStringPiece() is compared with x, in all ways there are.
Compared(x) ==
    LET p == Content(buf) IN
    /\ answer' = <<compare(p, x), Bit(Less(p, x)), Bit(LessEqual(p, x)), Bit(GreaterEqual(p, x)),
                   Bit(Greater(p, x)), Bit(Equal(p, x)), Bit(starts_with(p, x))>>
    /\ UNCHANGED buf

\* toStringPiece() is cut at both ends and made a string; the buffer does not notice.
Trimmed(m, n) ==
    /\ answer' = remove_suffix(remove_prefix(Content(buf), m), n)
    /\ UNCHANGED buf

\* A fresh buffer takes the content over and is swapped in.
shrink(reserve) ==
    LET other == Appended(ensureWritableBytes(Fresh, readableBytes(buf) + reserve), Content(buf)) IN
    /\ other.size <= MaxSize
    /\ buf' = other
    /\ answer' = <<>>

\* std::search over [start, end), as an offset from peek(); -1 for NULL.  Mutant:
\* the search runs to the end of the vector.
SearchPastEnd(b, start, pattern) ==
    LET hits == {i \in start..(b.size - b.reader - Len(pattern)) :
                    Slice(b, b.reader + i, Len(pattern)) = pattern}
    IN  IF hits = {} THEN -1 ELSE CHOOSE i \in hits : \A j \in hits : i <= j
Search(b, start, pattern) ==
    LET hits == {i \in start..(readableBytes(b) - Len(pattern)) :
                    Slice(b, b.reader + i, Len(pattern)) = pattern}
    IN  IF hits = {} THEN -1 ELSE CHOOSE i \in hits : \A j \in hits : i <= j

findCRLF(start) == answer' = <<Search(buf, start, <<CR, LF>>)>> /\ UNCHANGED buf

findEOL(start) == answer' = <<Search(buf, start, <<LF>>)>> /\ UNCHANGED buf

-----------------------------------------------------------------------------
BufferInit == buf = Fresh /\ answer = <<>>

Data == UNION {[1..n -> Byte] : n \in 0..MaxLen}

BufferNext ==
    \/ \E data \in Data : append(data) \/ prepend(data) \/ Output(data) \/ Compared(data)
    \/ \E w \in Widths : \/ \E x \in Ints(w) : AppendInt(x, w) \/ PrependInt(x, w)
                         \/ PeekInt(w) \/ ReadInt(w)
    \/ \E len \in 0..readableBytes(buf) : \/ retrieve(len) \/ retrieveAsString(len) \/ unwrite(len)
                                          \/ findCRLF(len) \/ findEOL(len)
                                          \/ \E n \in 0..(readableBytes(buf) - len) : Trimmed(len, n)
    \/ \E reserve \in 0..MaxLen : shrink(reserve)

BufferSpec == BufferInit /\ [][BufferNext]_bufferVars

-----------------------------------------------------------------------------
(* Properties *)

\* The type invariant: the layout that the comment at the head of the class draws.
BufferTypeOK ==
    /\ buf.size \in 0..MaxSize
    /\ buf.bytes \in [0..(buf.size - 1) -> Byte]
    /\ 0 <= buf.reader /\ buf.reader <= buf.writer /\ buf.writer <= buf.size

\* Only a prepend uses up the room that is kept in front of the content: whatever
\* else is done to a buffer, a header of kCheapPrepend bytes fits in front of it
\* afterwards if it did before.  Codec::SendMsg relies on it: it appends a body of
\* any size to a fresh buffer and then prepends the length field.
HeaderRoom ==
    [][ \/ \E data \in Data : prepend(data)
        \/ \E w \in Widths : \E x \in Ints(w) : PrependInt(x, w)
        \/ buf'.reader >= kCheapPrepend \/ buf'.reader >= buf.reader ]_bufferVars

\* A long life of appends and retrieves does not make the vector grow: it grows
\* only when content, new bytes (or the block that is asked for) and the room in
\* front do not fit in it.
GrowsOnlyWhenFull ==
    [][ buf'.size > buf.size =>
            \/ \E reserve \in 0..MaxLen : shrink(reserve)
            \/ kCheapPrepend + readableBytes(buf') > buf.size
            \/ /\ \E data \in Data : Output(data)
               /\ kCheapPrepend + readableBytes(buf) + kBlock > buf.size ]_bufferVars

\* The buffer implements the abstract queue of bytes: moving, growing, shrinking
\* and the stale bytes around the content are never seen.
BQ == INSTANCE ByteQueue
        WITH Patterns <- {<<CR, LF>>, <<LF>>}, Value <- Host,
             content <- Content(buf), answer <- answer
ByteQueueSpec == BQ!Spec
=============================================================================
