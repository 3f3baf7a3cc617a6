---------------------------- MODULE FrameChannel ----------------------------
(***************************************************************************)
(* What Codec promises for one connection: the frames the peer wrote are   *)
(* handed over whole, once, and in the order they were written, up to the  *)
(* first frame whose length field is out of range; that frame, or a close, *)
(* ends the conversation.  Nothing is said of bytes, buffers or reads.     *)
(***************************************************************************)
EXTENDS Integers, Sequences

CONSTANTS Lens,     (* the int32 length fields a peer may write            *)
          MAXLEN    (* the longest body the codec accepts                  *)

VARIABLES sent,     (* length fields of the frames written, in order       *)
          got,      (* lengths of the frames handed over, in order         *)
          status    (* "open", "refused" or "closed"                       *)

vars == <<sent, got, status>>

InRange(len) == 0 <= len /\ len <= MAXLEN

Init == sent = <<>> /\ got = <<>> /\ status = "open"

Write(len) == sent' = Append(sent, len) /\ UNCHANGED <<got, status>>

HandOver ==
    /\ status = "open"
    /\ Len(got) < Len(sent)
    /\ InRange(sent[Len(got) + 1])
    /\ got' = Append(got, sent[Len(got) + 1])
    /\ UNCHANGED <<sent, status>>

Refuse ==
    /\ status # "closed"
    /\ Len(got) < Len(sent)
    /\ ~InRange(sent[Len(got) + 1])
    /\ status' = "refused"
    /\ UNCHANGED <<sent, got>>

Close == status' = "closed" /\ UNCHANGED <<sent, got>>

Next == (\E len \in Lens : Write(len)) \/ HandOver \/ Refuse \/ Close

Spec == Init /\ [][Next]_vars
=============================================================================
