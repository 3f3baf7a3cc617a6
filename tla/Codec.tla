------------------------------- MODULE Codec -------------------------------
(***************************************************************************)
(* Codec::onMessage (codec.cpp) on one connection.  The peer writes frames *)
(* <length field><body> to a TCP stream; the stream reaches the input      *)
(* Buffer of the connection in pieces of any size; after each piece muduo  *)
(* calls onMessage, whose loop cuts whole frames off the front of the      *)
(* Buffer and gives each one to Dispatcher::PushPack.                      *)
(*                                                                         *)
(* A byte is its position in the stream: the Buffer holds the positions    *)
(* taken .. arrived - 1, and what the codec reads as a length field is a   *)
(* length field only if a frame really starts at the position it reads.    *)
(***************************************************************************)
EXTENDS Integers, Sequences

CONSTANTS HEADMSGLEN,   (* bytes of the length field                       *)
          MAXLEN,       (* 65536: the longest body onMessage accepts       *)
          Lens,         (* length fields (int32) the peer may write        *)
          ReadSizes,    (* how many bytes one read may bring               *)
          MaxFrames     (* bound: frames the peer writes                   *)

ASSUME CodecAssumption ==
    /\ HEADMSGLEN \in Nat \ {0}
    /\ MAXLEN \in Nat
    /\ Lens \subseteq Int
    /\ ReadSizes \subseteq Nat \ {0}
    /\ MaxFrames \in Nat

VARIABLES
    sent,     (* length fields of the frames the peer has written           *)
    off,      (* off[i]: where frame i starts; the last entry is the end    *)
    arrived,  (* bytes appended to the input Buffer so far                  *)
    taken,    (* bytes retrieved from it so far                             *)
    pushedLen, (* packets given to PushPack: their lengths, in order        *)
    pushedAt, (* and where in the stream their bodies were copied from      *)
    pc,       (* "idle": in poll;  "loop": at the head of onMessage's loop  *)
    conn      (* state of the TcpConnection                                 *)

\* What TcpConnection keeps: its input Buffer, and its state_.
connVars == <<arrived, taken, conn>>
vars == <<sent, off, connVars, pushedLen, pushedAt, pc>>

-----------------------------------------------------------------------------
(* Helpers *)

\* The test of onMessage on the length field.  Mutants: no lower bound, and an
\* upper bound that is off by one.
InRangeNoLower(len) == ~(len > MAXLEN)
InRangeStrict(len) == ~(len >= MAXLEN \/ len < 0)
InRange(len) == ~(len > MAXLEN \/ len < 0)

\* Bytes that follow a length field on the wire.
BodyBytes(len) == IF len < 0 THEN 0 ELSE len

\* Bytes the peer has written.
Written == off[Len(off)]

\* buf->readableBytes()
Readable == arrived - taken

\* What the first HEADMSGLEN bytes of the Buffer decode to.  Bytes that are
\* not a length field decode to anything.
Fields(pos) ==
    LET frames == {i \in DOMAIN sent : off[i] = pos}
    IN  IF frames = {} THEN Lens ELSE {sent[i] : i \in frames}

\* Is the whole frame in the Buffer?  Mutant: one byte more is asked for.
HasFrameStrict(len) == Readable > len + HEADMSGLEN
HasFrame(len) == Readable >= len + HEADMSGLEN

\* What the two retrieve calls take off the Buffer.  Mutant: the header stays.
FrameBytesNoHeader(len) == len
FrameBytes(len) == HEADMSGLEN + len

-----------------------------------------------------------------------------
(* The peer and muduo *)

\* The peer frames a message the way Codec::SendMsg does: the length field,
\* then the body.
SendMsg(len) ==
    /\ Len(sent) < MaxFrames
    /\ sent' = Append(sent, len)
    /\ off' = Append(off, Written + HEADMSGLEN + BodyBytes(len))
    /\ UNCHANGED <<arrived, taken, pushedLen, pushedAt, pc, conn>>

\* TcpConnection::handleRead: some bytes arrive, onMessage is called.
HandleRead(n) ==
    /\ pc = "idle" /\ conn # "kDisconnected"
    /\ arrived + n <= Written
    /\ arrived' = arrived + n
    /\ pc' = "loop"
    /\ UNCHANGED <<sent, off, taken, pushedLen, pushedAt, conn>>

\* The connection goes down between two reads, whatever is still under way.
HandleClose ==
    /\ pc = "idle" /\ conn # "kDisconnected"
    /\ conn' = "kDisconnected"
    /\ UNCHANGED <<sent, off, arrived, taken, pushedLen, pushedAt, pc>>

-----------------------------------------------------------------------------
(* Codec::onMessage, one action per way through the body of its loop *)

\* The loop ends: not even a whole length field is there.
HalfHeader ==
    /\ pc = "loop"
    /\ Readable < HEADMSGLEN
    /\ pc' = "idle"
    /\ UNCHANGED <<sent, off, arrived, taken, pushedLen, pushedAt, conn>>

\* Mutant: the invalid length field is skipped.
RejectLengthSkips(len) ==
    /\ pc = "loop"
    /\ Readable >= HEADMSGLEN
    /\ ~InRange(len)
    /\ conn' = "kDisconnecting"
    /\ taken' = taken + HEADMSGLEN
    /\ pc' = "idle"
    /\ UNCHANGED <<sent, off, arrived, pushedLen, pushedAt>>

\* Invalid length: shut the connection down and leave the bytes where they are.
RejectLength(len) ==
    /\ pc = "loop"
    /\ Readable >= HEADMSGLEN
    /\ ~InRange(len)
    /\ conn' = "kDisconnecting"
    /\ pc' = "idle"
    /\ UNCHANGED <<sent, off, arrived, taken, pushedLen, pushedAt>>

\* A whole frame: retrieve the header, copy the body into a packet, push the
\* packet, retrieve the body, and look for the next frame.
PushFrame(len) ==
    /\ pc = "loop"
    /\ Readable >= HEADMSGLEN
    /\ InRange(len)
    /\ HasFrame(len)
    /\ pushedLen' = Append(pushedLen, len)
    /\ pushedAt' = Append(pushedAt, taken + HEADMSGLEN)
    /\ taken' = taken + FrameBytes(len)
    /\ UNCHANGED <<sent, off, arrived, pc, conn>>

\* Mutant: the loop is not left.
HalfFrameNoBreak(len) ==
    /\ pc = "loop"
    /\ Readable >= HEADMSGLEN
    /\ InRange(len)
    /\ ~HasFrame(len)
    /\ UNCHANGED vars

\* A length field whose body is not complete yet: wait for more bytes.
HalfFrame(len) ==
    /\ pc = "loop"
    /\ Readable >= HEADMSGLEN
    /\ InRange(len)
    /\ ~HasFrame(len)
    /\ pc' = "idle"
    /\ UNCHANGED <<sent, off, arrived, taken, pushedLen, pushedAt, conn>>

onMessage ==
    \/ HalfHeader
    \/ \E len \in Fields(taken) :
           RejectLength(len) \/ PushFrame(len) \/ HalfFrame(len)

-----------------------------------------------------------------------------
Init ==
    /\ sent = <<>> /\ off = <<0>>
    /\ arrived = 0 /\ taken = 0
    /\ pushedLen = <<>> /\ pushedAt = <<>>
    /\ pc = "idle"
    /\ conn = "kConnected"

Next ==
    \/ \E len \in Lens : SendMsg(len)
    \/ \E n \in ReadSizes : HandleRead(n)
    \/ HandleClose
    \/ onMessage

\* onMessage runs to its end once it is called.
Spec == Init /\ [][Next]_vars /\ WF_vars(onMessage)

-----------------------------------------------------------------------------
(* Properties *)

\* The type invariant.
TypeOK ==
    /\ sent \in Seq(Int) /\ off \in Seq(Nat)
    /\ Len(off) = Len(sent) + 1
    /\ arrived \in Nat /\ taken \in Nat
    /\ pushedLen \in Seq(Nat) /\ pushedAt \in Seq(Nat)
    /\ Len(pushedAt) = Len(pushedLen)
    /\ pc \in {"idle", "loop"}
    /\ conn \in {"kConnected", "kDisconnecting", "kDisconnected"}

\* However the stream is cut into reads, the i-th packet given to PushPack is
\* the body of the i-th frame the peer wrote: no byte of it is missing, added
\* or taken from a neighbour, and no length field is read out of place.
Reassembly ==
    /\ Len(pushedLen) <= Len(sent)
    /\ \A i \in 1..Len(pushedLen) :
        pushedLen[i] = sent[i] /\ pushedAt[i] = off[i] + HEADMSGLEN

\* The frame the codec has to find next.
NextFrame == Len(pushedLen) + 1

\* When onMessage has returned, no complete acceptable frame is left behind in
\* the Buffer: it would stay there until more bytes happen to arrive.
NothingLeftBehind ==
    pc = "idle" /\ NextFrame <= Len(sent) /\ InRange(sent[NextFrame])
        => arrived < off[NextFrame + 1]

\* A connection whose peer sent an invalid length is finished: reads still
\* call onMessage (shutdown only closes the sending side), but no later byte
\* of the stream is ever taken for a packet.
RefusedForGood == [][conn # "kConnected" => pushedLen' = pushedLen]_vars

\* Every call of onMessage returns, also on frames with an empty body.
OnMessageReturns == pc = "loop" ~> pc = "idle"

\* The codec implements the frame channel.
FC == INSTANCE FrameChannel
        WITH got <- pushedLen,
             status <- CASE conn = "kConnected" -> "open"
                         [] conn = "kDisconnecting" -> "refused"
                         [] conn = "kDisconnected" -> "closed"
FrameChannelSpec == FC!Spec

=============================================================================
