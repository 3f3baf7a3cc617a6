---------------------------- MODULE CodecProofs ----------------------------
(***************************************************************************)
(* Proofs about Codec for every stream, every way to cut it into reads and *)
(* every value of the two limits.                                          *)
(*                                                                         *)
(* Reassembly is not inductive: that the next packet is right depends on   *)
(* the codec standing at the start of a frame, which Position says, and on *)
(* no other frame starting there, which Offsets says.                      *)
(***************************************************************************)
EXTENDS Codec, TLAPS

-----------------------------------------------------------------------------
(* The inductive invariant *)

\* Where the frames lie on the wire.
Offsets ==
    /\ off[1] = 0
    /\ \A i \in 1..Len(sent) : off[i+1] = off[i] + HEADMSGLEN + BodyBytes(sent[i])
    /\ \A i, j \in 1..Len(off) : i < j => off[i] < off[j]

\* The codec stands at the start of the first frame it has not pushed.
Position ==
    /\ Len(pushedLen) <= Len(sent)
    /\ taken = off[NextFrame]
    /\ taken <= arrived
    /\ arrived <= Written

\* A connection that is being shut stands at an unacceptable frame, and muduo
\* calls onMessage for no connection that is gone.
Shut ==
    /\ conn = "kDisconnecting" => NextFrame <= Len(sent) /\ ~InRange(sent[NextFrame])
    /\ pc = "loop" => conn # "kDisconnected"

IInv == TypeOK /\ Offsets /\ Position /\ Reassembly /\ NothingLeftBehind /\ Shut

-----------------------------------------------------------------------------
\* What the lemmas below need of TypeOK, element by element.
LEMMA Elements ==
    ASSUME TypeOK
    PROVE  /\ Len(sent) \in Nat /\ Len(pushedLen) \in Nat
           /\ Len(off) = Len(sent) + 1 /\ Len(pushedAt) = Len(pushedLen)
           /\ DOMAIN sent = 1..Len(sent)
           /\ \A i \in 1..Len(sent) : sent[i] \in Int
           /\ \A i \in 1..Len(off) : off[i] \in Nat
           /\ arrived \in Nat /\ taken \in Nat
           /\ Written \in Nat
<1>1. /\ Len(sent) \in Nat /\ Len(pushedLen) \in Nat
      /\ Len(off) = Len(sent) + 1 /\ Len(pushedAt) = Len(pushedLen)
      /\ DOMAIN sent = 1..Len(sent)
      /\ arrived \in Nat /\ taken \in Nat
  BY DEF TypeOK
<1>2. /\ \A i \in 1..Len(sent) : sent[i] \in Int
      /\ \A i \in 1..Len(off) : off[i] \in Nat
  <2>1. sent \in Seq(Int) /\ off \in Seq(Nat)
    BY DEF TypeOK
  <2> QED
    BY <2>1
<1>3. Len(off) \in 1..Len(off)
  BY <1>1
<1> QED
  BY <1>1, <1>2, <1>3 DEF Written

\* The length field that onMessage reads is that of the first frame not yet
\* pushed, and that frame's end is where the frame after it starts.
LEMMA FieldIsNext ==
    ASSUME TypeOK, Offsets, Position, Readable >= HEADMSGLEN,
           NEW len \in Fields(taken)
    PROVE  /\ NextFrame \in 1..Len(sent)
           /\ len = sent[NextFrame]
           /\ len \in Int
           /\ off[NextFrame + 1] = taken + HEADMSGLEN + BodyBytes(len)
<1>1. NextFrame \in 1..Len(sent)
  BY CodecAssumption, Elements DEF Offsets, Position, Readable, NextFrame, Written
<1>2. ASSUME NEW i \in DOMAIN sent, off[i] = taken
      PROVE  i = NextFrame
  <2>1. i \in 1..Len(off) /\ NextFrame \in 1..Len(off)
    BY <1>1, Elements
  <2>2. ~(i < NextFrame) /\ ~(NextFrame < i)
    BY <1>2, <2>1, Elements DEF Offsets, Position
  <2> QED
    BY <2>1, <2>2
<1>3. {i \in DOMAIN sent : off[i] = taken} = {NextFrame}
  BY <1>1, <1>2, Elements DEF Position
<1>4. len = sent[NextFrame]
  BY <1>3 DEF Fields
<1> QED
  BY <1>1, <1>4, Elements DEF Offsets, Position

\* onMessage pushes the frame it stands at and moves to the next boundary.
LEMMA PushFrameStep ==
    ASSUME IInv, NEW len \in Fields(taken), PushFrame(len)
    PROVE  IInv'
<1> USE CodecAssumption
<1>1. /\ NextFrame \in 1..Len(sent)
      /\ len = sent[NextFrame]
      /\ len \in Nat
      /\ InRange(len)
      /\ off[NextFrame + 1] = taken + HEADMSGLEN + len
  BY FieldIsNext DEF IInv, PushFrame, InRange, BodyBytes
<1>2. pushedLen' = Append(pushedLen, len) /\ pushedAt' = Append(pushedAt, taken + HEADMSGLEN)
  BY DEF PushFrame
<1>3. taken' = taken + HEADMSGLEN + len
  BY <1>1, Elements DEF PushFrame, FrameBytes, IInv
<1>4. sent' = sent /\ off' = off /\ arrived' = arrived /\ pc' = pc /\ conn' = conn /\ pc = "loop"
  BY DEF PushFrame
<1>5. /\ pushedLen' \in Seq(Nat) /\ pushedAt' \in Seq(Nat)
      /\ Len(pushedLen') = Len(pushedLen) + 1
      /\ Len(pushedAt') = Len(pushedAt) + 1
      /\ \A i \in 1..Len(pushedLen) : pushedLen'[i] = pushedLen[i] /\ pushedAt'[i] = pushedAt[i]
      /\ pushedLen'[NextFrame] = len
      /\ pushedAt'[NextFrame] = taken + HEADMSGLEN
      /\ NextFrame' = NextFrame + 1
  <2>1. taken + HEADMSGLEN \in Nat
    BY Elements DEF IInv
  <2>2. NextFrame = Len(pushedLen) + 1 /\ NextFrame = Len(pushedAt) + 1
    BY DEF IInv, TypeOK, NextFrame
  <2>3. /\ pushedLen \in Seq(Nat) /\ pushedAt \in Seq(Nat) /\ Len(pushedAt) = Len(pushedLen)
    BY DEF IInv, TypeOK
  <2>4. /\ pushedLen' \in Seq(Nat) /\ Len(pushedLen') = Len(pushedLen) + 1
        /\ \A i \in 1..Len(pushedLen) : pushedLen'[i] = pushedLen[i]
        /\ pushedLen'[NextFrame] = len
    BY <1>1, <1>2, <2>2, <2>3
  <2>5. /\ pushedAt' \in Seq(Nat) /\ Len(pushedAt') = Len(pushedAt) + 1
        /\ \A i \in 1..Len(pushedAt) : pushedAt'[i] = pushedAt[i]
        /\ pushedAt'[NextFrame] = taken + HEADMSGLEN
    BY <1>2, <2>1, <2>2, <2>3
  <2>6. NextFrame' = NextFrame + 1
    BY <2>4 DEF NextFrame
  <2> QED
    BY <2>3, <2>4, <2>5, <2>6
<1>6. TypeOK'
  <2>1. taken' \in Nat
    BY <1>1, <1>3, Elements DEF IInv
  <2> QED
    BY <1>4, <1>5, <2>1 DEF IInv, TypeOK
<1>7. Offsets'
  BY <1>4 DEF IInv, Offsets
<1>8. Position'
  <2>1. taken' <= arrived'
    <3>1. arrived - taken >= len + HEADMSGLEN
      BY DEF PushFrame, Readable, HasFrame
    <3>2. taken \in Nat /\ arrived \in Nat /\ len \in Int /\ HEADMSGLEN \in Nat
      BY <1>1, CodecAssumption, Elements DEF IInv
    <3>3. taken + HEADMSGLEN + len <= arrived
      BY <3>1, <3>2
    <3> QED
      BY <1>3, <1>4, <3>3
  <2>2. Len(pushedLen') <= Len(sent') /\ taken' = off'[NextFrame']
    BY <1>1, <1>3, <1>4, <1>5, Elements DEF IInv, NextFrame
  <2>3. arrived' <= Written'
    BY <1>4 DEF IInv, Position, Written
  <2> QED
    BY <2>1, <2>2, <2>3 DEF Position
<1>9. Reassembly'
  <2>1. ASSUME NEW i \in 1..Len(pushedLen')
        PROVE  pushedLen'[i] = sent'[i] /\ pushedAt'[i] = off'[i] + HEADMSGLEN
    <3>1. CASE i = NextFrame
      BY <1>1, <1>4, <1>5, <3>1 DEF IInv, Position
    <3>2. CASE i # NextFrame
      <4>1. i \in 1..Len(pushedLen)
        BY <1>5, <3>2, Elements DEF IInv, NextFrame
      <4> QED
        BY <1>4, <1>5, <4>1 DEF IInv, Reassembly
    <3> QED
      BY <3>1, <3>2
  <2> QED
    BY <1>8, <2>1 DEF Reassembly, Position
<1>10. NothingLeftBehind' /\ Shut'
  BY <1>1, <1>4 DEF IInv, Shut, NothingLeftBehind
<1> QED
  BY <1>6, <1>7, <1>8, <1>9, <1>10 DEF IInv

\* The peer writes behind everything the codec has seen.
LEMMA SendMsgStep ==
    ASSUME IInv, NEW len \in Lens, SendMsg(len)
    PROVE  IInv'
<1> USE CodecAssumption
<1> DEFINE end == Written + HEADMSGLEN + BodyBytes(len)
<1>1. len \in Int /\ BodyBytes(len) \in Nat
  BY DEF BodyBytes
<1>2. end \in Nat /\ end > Written
  BY <1>1, Elements DEF IInv
<1>3. sent' = Append(sent, len) /\ off' = Append(off, end)
  BY DEF SendMsg
<1>4. /\ arrived' = arrived /\ taken' = taken /\ pc' = pc /\ conn' = conn
      /\ pushedLen' = pushedLen /\ pushedAt' = pushedAt /\ NextFrame' = NextFrame
  BY DEF SendMsg, NextFrame
<1>5. Written = off[Len(sent) + 1]
  BY DEF IInv, TypeOK, Written
<1> HIDE DEF end
<1>6. /\ Len(sent') = Len(sent) + 1
      /\ Len(off') = Len(off) + 1
      /\ sent' \in Seq(Int) /\ off' \in Seq(Nat)
      /\ \A i \in 1..Len(sent) : sent'[i] = sent[i]
      /\ \A i \in 1..Len(off) : off'[i] = off[i]
      /\ sent'[Len(sent) + 1] = len
      /\ off'[Len(off) + 1] = end
  BY <1>1, <1>2, <1>3 DEF IInv, TypeOK
<1>7. Written' = end
  BY <1>6 DEF Written, IInv, TypeOK
<1>8. TypeOK'
  BY <1>4, <1>6 DEF IInv, TypeOK
<1>9. Offsets'
  <2>1. off'[1] = 0
    BY <1>6, Elements DEF IInv, Offsets
  <2>2. ASSUME NEW i \in 1..Len(sent')
        PROVE  off'[i+1] = off'[i] + HEADMSGLEN + BodyBytes(sent'[i])
    <3>1. CASE i \in 1..Len(sent)
      <4>1. i \in 1..Len(off) /\ i + 1 \in 1..Len(off)
        BY <3>1, Elements DEF IInv
      <4> QED
        BY <1>6, <3>1, <4>1 DEF IInv, Offsets
    <3>2. CASE i = Len(sent) + 1
      <4>1. i \in 1..Len(off) /\ i = Len(off) /\ i + 1 = Len(off) + 1
        BY <3>2, Elements DEF IInv
      <4> QED
        BY <1>5, <1>6, <3>2, <4>1 DEF end
    <3> QED
      BY <1>6, <3>1, <3>2, Elements DEF IInv
  <2>3. ASSUME NEW i \in 1..Len(off'), NEW j \in 1..Len(off'), i < j
        PROVE  off'[i] < off'[j]
    <3>1. i \in 1..Len(off)
      BY <1>6, <2>3, Elements DEF IInv
    <3>2. CASE j \in 1..Len(off)
      BY <1>6, <2>3, <3>1, <3>2 DEF IInv, Offsets
    <3>3. CASE j = Len(off) + 1
      <4>1. off[i] <= Written
        <5>1. CASE i = Len(off)
          BY <5>1, Elements DEF IInv, Written
        <5>2. CASE i < Len(off)
          BY <3>1, <5>2, Elements DEF IInv, Written, Offsets
        <5> QED
          BY <3>1, <5>1, <5>2, Elements DEF IInv
      <4>2. off'[i] = off[i] /\ off'[j] = end
        BY <1>6, <3>1, <3>3, Zenon
      <4>3. off[i] \in Nat /\ Written \in Nat
        BY <3>1, Elements DEF IInv
      <4> QED
        BY <1>2, <4>1, <4>2, <4>3
    <3> QED
      BY <1>6, <3>2, <3>3, Elements DEF IInv
  <2> QED
    BY <2>1, <2>2, <2>3 DEF Offsets, BodyBytes
<1>10. Position'
  <2>1. NextFrame \in 1..Len(off)
    BY Elements DEF IInv, Position, NextFrame
  <2>2. arrived' <= Written'
    BY <1>2, <1>4, <1>7, Elements DEF IInv, Position
  <2>3. Len(pushedLen') <= Len(sent')
    BY <1>4, <1>6, Elements DEF IInv, Position
  <2> QED
    BY <1>4, <1>6, <2>1, <2>2, <2>3 DEF IInv, Position
<1>11. Reassembly'
  <2>1. ASSUME NEW i \in 1..Len(pushedLen)
        PROVE  pushedLen[i] = sent'[i] /\ pushedAt[i] = off'[i] + HEADMSGLEN
    <3>1. i \in 1..Len(sent) /\ i \in 1..Len(off)
      BY Elements DEF IInv, Position
    <3>2. sent'[i] = sent[i] /\ off'[i] = off[i]
      BY <1>6, <3>1
    <3>3. pushedLen[i] = sent[i] /\ pushedAt[i] = off[i] + HEADMSGLEN
      BY <2>1 DEF IInv, Reassembly
    <3> QED
      BY <3>2, <3>3
  <2> QED
    BY <1>4, <1>10, <2>1 DEF Reassembly, Position
<1>12. NothingLeftBehind'
  <2>1. CASE NextFrame <= Len(sent)
    <3>1. NextFrame \in 1..Len(sent) /\ NextFrame + 1 \in 1..Len(off)
      BY <2>1, Elements DEF IInv, NextFrame
    <3>2. sent'[NextFrame] = sent[NextFrame] /\ off'[NextFrame + 1] = off[NextFrame + 1]
      BY <1>6, <3>1
    <3> QED
      BY <1>4, <2>1, <3>2 DEF IInv, NothingLeftBehind, InRange
  <2>2. CASE NextFrame = Len(sent) + 1
    <3>1. off'[NextFrame + 1] = end
      BY <1>6, <2>2, Elements DEF IInv
    <3> QED
      BY <1>2, <1>4, <3>1, Elements DEF IInv, NothingLeftBehind, Position
  <2> QED
    BY <2>1, <2>2, Elements DEF IInv, Position, NextFrame
<1>13. Shut'
  <2>1. CASE NextFrame \in 1..Len(sent)
    BY <1>4, <1>6, <2>1, Elements DEF IInv, Shut, InRange
  <2>2. CASE NextFrame \notin 1..Len(sent)
    BY <1>4, <2>2, Elements DEF IInv, Shut, NextFrame
  <2> QED
    BY <2>1, <2>2
<1> QED
  BY <1>8, <1>9, <1>10, <1>11, <1>12, <1>13 DEF IInv

\* The steps that leave the frames and the packets alone.
LEMMA SameFrames ==
    ASSUME IInv, sent' = sent, off' = off, pushedLen' = pushedLen, pushedAt' = pushedAt,
           taken' = taken
    PROVE  /\ Offsets' /\ Reassembly'
           /\ NextFrame' = NextFrame /\ Written' = Written
           /\ \A len : InRange(len)' = InRange(len)
  BY DEF IInv, Offsets, Reassembly, NextFrame, Written, InRange

\* A return of onMessage leaves no complete acceptable frame behind.
LEMMA LoopExit ==
    ASSUME IInv, HalfHeader \/ \E len \in Fields(taken) : RejectLength(len) \/ HalfFrame(len)
    PROVE  NothingLeftBehind'
<1> USE CodecAssumption
<1>1. CASE HalfHeader
  <2>1. ASSUME NextFrame <= Len(sent) PROVE arrived < off[NextFrame + 1]
    <3>1. NextFrame \in 1..Len(sent) /\ NextFrame \in 1..Len(off) /\ NextFrame + 1 \in 1..Len(off)
      BY <2>1, Elements DEF IInv, NextFrame
    <3>2. off[NextFrame + 1] = off[NextFrame] + HEADMSGLEN + BodyBytes(sent[NextFrame])
      BY <3>1 DEF IInv, Offsets
    <3>3. BodyBytes(sent[NextFrame]) \in Nat
      BY <3>1, Elements DEF IInv, BodyBytes
    <3> QED
      BY <1>1, <3>2, <3>3, Elements DEF IInv, Position, HalfHeader, Readable
  <2> QED
    BY <1>1, <2>1 DEF HalfHeader, NothingLeftBehind, NextFrame, InRange
<1>2. ASSUME NEW len \in Fields(taken), RejectLength(len) PROVE NothingLeftBehind'
  <2>1. len = sent[NextFrame] /\ ~InRange(len)
    BY <1>2, FieldIsNext DEF IInv, RejectLength
  <2> QED
    BY <1>2, <2>1 DEF RejectLength, NothingLeftBehind, NextFrame, InRange
<1>3. ASSUME NEW len \in Fields(taken), HalfFrame(len) PROVE NothingLeftBehind'
  <2>1. /\ len \in Nat /\ ~HasFrame(len)
        /\ off[NextFrame + 1] = taken + HEADMSGLEN + len
    BY <1>3, FieldIsNext DEF IInv, HalfFrame, InRange, BodyBytes
  <2>2. arrived < off[NextFrame + 1]
    BY <2>1, Elements DEF IInv, HasFrame, Readable
  <2> QED
    BY <1>3, <2>2 DEF HalfFrame, NothingLeftBehind, NextFrame, InRange
<1> QED
  BY <1>1, <1>2, <1>3

\* The invariant is inductive.
LEMMA Inductive == IInv /\ [Next]_vars => IInv'
<1> SUFFICES ASSUME IInv, [Next]_vars PROVE IInv'
  OBVIOUS
<1> USE CodecAssumption
<1>1. ASSUME NEW len \in Lens, SendMsg(len) PROVE IInv'
  BY <1>1, SendMsgStep
<1>2. ASSUME NEW n \in ReadSizes, HandleRead(n) PROVE IInv'
  <2>1. TypeOK'
    BY <1>2 DEF HandleRead, IInv, TypeOK
  <2>2. Offsets' /\ Reassembly' /\ NextFrame' = NextFrame /\ Written' = Written
    BY <1>2, SameFrames DEF HandleRead
  <2>3. Position'
    BY <1>2, <2>2, Elements DEF HandleRead, IInv, Position
  <2>4. NothingLeftBehind' /\ Shut'
    BY <1>2, <2>2 DEF HandleRead, IInv, NothingLeftBehind, Shut, InRange
  <2> QED
    BY <2>1, <2>2, <2>3, <2>4 DEF IInv
<1>3. CASE HandleClose
  <2>1. TypeOK' /\ Offsets' /\ Reassembly' /\ NextFrame' = NextFrame /\ Written' = Written
    BY <1>3, SameFrames DEF HandleClose, IInv, TypeOK
  <2>2. Position' /\ NothingLeftBehind' /\ Shut'
    BY <1>3, <2>1 DEF HandleClose, IInv, Position, NothingLeftBehind, Shut, InRange
  <2> QED
    BY <2>1, <2>2 DEF IInv
<1>4. CASE HalfHeader
  <2>1. TypeOK' /\ Offsets' /\ Reassembly' /\ NextFrame' = NextFrame /\ Written' = Written
    BY <1>4, SameFrames DEF HalfHeader, IInv, TypeOK
  <2>2. Position' /\ Shut'
    BY <1>4, <2>1 DEF HalfHeader, IInv, Position, Shut, InRange
  <2> QED
    BY <1>4, <2>1, <2>2, LoopExit DEF IInv
<1>5. ASSUME NEW len \in Fields(taken), RejectLength(len) PROVE IInv'
  <2>1. NextFrame \in 1..Len(sent) /\ len = sent[NextFrame] /\ ~InRange(len)
    BY <1>5, FieldIsNext DEF IInv, RejectLength
  <2>2. TypeOK' /\ Offsets' /\ Reassembly' /\ NextFrame' = NextFrame /\ Written' = Written
    BY <1>5, SameFrames DEF RejectLength, IInv, TypeOK
  <2>3. Position'
    BY <1>5, <2>2 DEF RejectLength, IInv, Position
  <2>4. Shut'
    BY <1>5, <2>1, <2>2 DEF RejectLength, IInv, Shut, InRange
  <2>5. NothingLeftBehind'
    BY <1>5, LoopExit
  <2> QED
    BY <2>2, <2>3, <2>4, <2>5 DEF IInv
<1>6. ASSUME NEW len \in Fields(taken), PushFrame(len) PROVE IInv'
  BY <1>6, PushFrameStep
<1>7. ASSUME NEW len \in Fields(taken), HalfFrame(len) PROVE IInv'
  <2>1. TypeOK' /\ Offsets' /\ Reassembly' /\ NextFrame' = NextFrame /\ Written' = Written
    BY <1>7, SameFrames DEF HalfFrame, IInv, TypeOK
  <2>2. Position' /\ Shut'
    BY <1>7, <2>1 DEF HalfFrame, IInv, Position, Shut, InRange
  <2>3. NothingLeftBehind'
    BY <1>7, LoopExit
  <2> QED
    BY <2>1, <2>2, <2>3 DEF IInv
<1>8. CASE UNCHANGED vars
  BY <1>8 DEF vars, connVars, IInv, TypeOK, Offsets, Position, NextFrame, Written,
              Reassembly, NothingLeftBehind, Shut, InRange
<1> QED
  BY <1>1, <1>2, <1>3, <1>4, <1>5, <1>6, <1>7, <1>8 DEF Next, onMessage

LEMMA Initial == Init => IInv
  BY CodecAssumption DEF Init, IInv, TypeOK, Offsets, Position, NextFrame, Written,
         Reassembly, NothingLeftBehind, Shut

LEMMA Invariance == Spec => []IInv
  BY Initial, Inductive, PTL DEF Spec

-----------------------------------------------------------------------------
(* The theorems *)

\* The variables of Codec keep their types on every stream.
THEOREM CodecTypeOK == Spec => []TypeOK
<1>1. IInv => TypeOK
  BY DEF IInv
<1> QED
  BY <1>1, Invariance, PTL

\* onMessage cuts every stream at its frame boundaries: the i-th packet it gives
\* to PushPack is the body of the i-th frame, however the bytes arrived.
THEOREM CodecReassembly == Spec => []Reassembly
<1>1. IInv => Reassembly
  BY DEF IInv
<1> QED
  BY <1>1, Invariance, PTL

\* Whenever onMessage has returned, no complete acceptable frame waits in the
\* input Buffer.
THEOREM CodecNothingLeftBehind == Spec => []NothingLeftBehind
<1>1. IInv => NothingLeftBehind
  BY DEF IInv
<1> QED
  BY <1>1, Invariance, PTL

\* After onMessage has refused a length field, no step makes another packet of
\* this connection, although reads still call it.
THEOREM CodecRefusedForGood == Spec => RefusedForGood
<1>1. IInv /\ [Next]_vars => [conn # "kConnected" => pushedLen' = pushedLen]_vars
  <2> SUFFICES ASSUME IInv, Next, conn # "kConnected" PROVE pushedLen' = pushedLen
    BY DEF vars, connVars
  <2>1. ASSUME NEW len \in Fields(taken), PushFrame(len) PROVE FALSE
    <3>1. len = sent[NextFrame] /\ InRange(len) /\ pc = "loop"
      BY <2>1, FieldIsNext DEF IInv, PushFrame
    <3>2. conn = "kDisconnecting"
      BY <3>1 DEF IInv, TypeOK, Shut
    <3> QED
      BY <3>1, <3>2 DEF IInv, Shut
  <2> QED
    BY <2>1 DEF Next, onMessage, SendMsg, HandleRead, HandleClose, HalfHeader,
                RejectLength, HalfFrame
<1> QED
  BY <1>1, Invariance, PTL DEF Spec, RefusedForGood

\* The codec implements the frame channel: bytes, reads and the Buffer are
\* invisible from PushPack.
THEOREM CodecImplementsFrameChannel == Spec => FrameChannelSpec
<1>1. Init => FC!Init
  BY DEF Init, FC!Init
<1>2. IInv /\ [Next]_vars => [FC!Next]_(FC!vars)
  <2> SUFFICES ASSUME IInv, [Next]_vars PROVE [FC!Next]_(FC!vars)
    OBVIOUS
  <2>1. ASSUME NEW len \in Lens, SendMsg(len) PROVE FC!Write(len)
    BY <2>1 DEF SendMsg, FC!Write
  <2>2. ASSUME NEW n \in ReadSizes, HandleRead(n) PROVE UNCHANGED FC!vars
    BY <2>2 DEF HandleRead, FC!vars
  <2>3. CASE HandleClose
    BY <2>3 DEF HandleClose, FC!Next, FC!Close
  <2>4. CASE HalfHeader
    BY <2>4 DEF HalfHeader, FC!vars
  <2>5. ASSUME NEW len \in Fields(taken), RejectLength(len) PROVE FC!Refuse
    <3>1. NextFrame \in 1..Len(sent) /\ len = sent[NextFrame] /\ len \in Int
      BY <2>5, FieldIsNext DEF IInv, RejectLength
    <3>2. ~FC!InRange(len)
      BY <2>5, <3>1, CodecAssumption DEF RejectLength, InRange, FC!InRange
    <3>3. Len(pushedLen) < Len(sent)
      BY <3>1, Elements DEF IInv, NextFrame
    <3>4. conn # "kDisconnected" /\ conn' = "kDisconnecting" /\ sent' = sent /\ pushedLen' = pushedLen
      BY <2>5 DEF RejectLength, IInv, Shut
    <3> QED
      BY <3>1, <3>2, <3>3, <3>4 DEF FC!Refuse, NextFrame, IInv, TypeOK
  <2>6. ASSUME NEW len \in Fields(taken), PushFrame(len) PROVE FC!HandOver
    <3>1. NextFrame \in 1..Len(sent) /\ len = sent[NextFrame] /\ len \in Int
      BY <2>6, FieldIsNext DEF IInv, PushFrame
    <3>2. FC!InRange(len)
      BY <2>6, <3>1, CodecAssumption DEF PushFrame, InRange, FC!InRange
    <3>3. Len(pushedLen) < Len(sent)
      BY <3>1, Elements DEF IInv, NextFrame
    <3>4. conn = "kConnected"
      BY <2>6, <3>1 DEF PushFrame, IInv, TypeOK, Shut
    <3> QED
      BY <2>6, <3>1, <3>2, <3>3, <3>4 DEF PushFrame, FC!HandOver, NextFrame
  <2>7. ASSUME NEW len \in Fields(taken), HalfFrame(len) PROVE UNCHANGED FC!vars
    BY <2>7 DEF HalfFrame, FC!vars
  <2>8. CASE UNCHANGED vars
    BY <2>8 DEF vars, connVars, FC!vars
  <2> QED
    BY <2>1, <2>2, <2>3, <2>4, <2>5, <2>6, <2>7, <2>8 DEF Next, onMessage, FC!Next
<1> QED
  BY <1>1, <1>2, Invariance, PTL DEF Spec, FC!Spec, FrameChannelSpec
=============================================================================
