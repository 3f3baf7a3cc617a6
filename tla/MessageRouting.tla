--------------------------- MODULE MessageRouting ---------------------------
(***************************************************************************)
(* From a message structure of NetMsg to the branch of PetsManager that    *)
(* its two protocol bytes select, and on to Pet::OnNetLoginMsg, which      *)
(* parses the text of a login (Pet.cpp).  SMessage::_protocol selects the  *)
(* handler that InitServer bound, the _protocol of the base message the    *)
(* branch of its switch.                                                   *)
(*                                                                         *)
(* Codec::onMessage copies exactly the bytes of the frame to the heap, and *)
(* no handler is told how many they are: a frame that is too short, or a   *)
(* text without its terminating NUL, is read on into whatever follows it,  *)
(* which is `beyond`.                                                      *)
(***************************************************************************)
EXTENDS Integers, Sequences, FiniteSets

CONSTANTS Bytes,        (* the values of a byte: 0..255                    *)
          MaxText,      (* bound: length of a text                         *)
          MaxBeyond     (* bound: bytes behind the frame, before a NUL     *)

ASSUME MessageRoutingAssumption ==
    Bytes \subseteq Nat /\ MaxText \in Nat /\ MaxBeyond \in Nat \ {0, 1}

\* SMessage: the first byte.
LOGIN == 100
MOVE == 101
CHAT == 102

\* The enums of SLoginBaseMsg, SChatBaseMsg and SMoveBaseMsg: the second byte.
LoginEnum == [login |-> 0, register |-> 1, setinfo |-> 2, getinfo |-> 3]
ChatEnum == [whisper |-> 0, broadcast |-> 1, system |-> 2, room |-> 3]
MoveEnum == [move |-> 0, position |-> 1, jump |-> 2]

\* What the constructors of a message write: that of its base message the first
\* byte, its own the second.  Mutant: both write the _protocol of SMessage.
ProtocolSame(base, own) == <<own, 0>>
Protocol(base, own) == <<base, own>>

\* The declared messages, by name.
LoginMsg == [login |-> Protocol(LOGIN, LoginEnum.login), register |-> Protocol(LOGIN, LoginEnum.login)]
ChatMsg == [n \in DOMAIN ChatEnum |-> Protocol(CHAT, ChatEnum[n])]
MoveMsg == [move |-> Protocol(MOVE, MoveEnum.move)]

\* The text of SQLoginMsg and SQRegisterMsg: account & password.
NUL == 0
AMP == 38
Strings(n) == UNION {[1..k -> Bytes] : k \in 0..n}

VARIABLES
    hpc,      (* "idle", "dispatch", "switch", "parse", "split", "parsed",
                 "return", "dead" (an exception) or "trapped"              *)
    msg,      (* the family and the name of the message that the frame is;
                 of the family "short": it has not even its two bytes      *)
    frame,    (* the bytes of the frame                                    *)
    beyond,   (* what follows them on the heap                             *)
    branch,   (* the branch that runs                                      *)
    str, strs, res    (* Parse: its argument and its variables             *)

packVars == <<msg, frame, beyond>>
parseVars == <<str, strs, res>>
routingVars == <<hpc, packVars, branch, parseVars>>

\* A message by its name.
Msg(family, name) == [family |-> family, name |-> name]
NoMsg == Msg("none", "none")

-----------------------------------------------------------------------------
(* The client, the codec and the dispatcher *)

\* Byte i of the message as a handler reads it.
At(i) == (frame \o beyond)[i]

\* A frame arrives and is copied.
Packet(m, bytes) ==
    /\ hpc = "idle"
    /\ msg' = m /\ frame' = bytes
    /\ beyond' \in {b \o <<NUL>> : b \in [1..MaxBeyond -> Bytes]}
    /\ branch' = "none" /\ str' = <<>> /\ strs' = <<>> /\ res' = <<>>
    /\ hpc' = "dispatch"

Send ==
    \/ \E n \in DOMAIN LoginMsg, text \in Strings(MaxText) : Packet(Msg("login", n), LoginMsg[n] \o text)
    \/ \E n \in DOMAIN ChatMsg : Packet(Msg("chat", n), ChatMsg[n])
    \/ \E n \in DOMAIN MoveMsg : Packet(Msg("move", n), MoveMsg[n])
    \/ \E k \in 0..1 : Packet(Msg("short", "none"), SubSeq(LoginMsg.login, 1, k))

\* DispatchMsg calls what is bound to the first byte; nothing is, it throws.
DispatchMsg ==
    /\ hpc = "dispatch"
    /\ hpc' = IF At(1) \in {LOGIN, MOVE, CHAT} THEN "switch" ELSE "dead"
    /\ UNCHANGED <<packVars, branch, parseVars>>

-----------------------------------------------------------------------------
(* PetsManager *)

\* A handler whose switch has the cases of `enum`; the default does nothing.
Switch(base, enum) ==
    /\ hpc = "switch" /\ At(1) = base
    /\ branch' = IF \E n \in DOMAIN enum : enum[n] = At(2)
                 THEN CHOOSE n \in DOMAIN enum : enum[n] = At(2) ELSE "default"
    /\ hpc' = IF base = LOGIN /\ branch' = "login" THEN "parse" ELSE "return"
    /\ UNCHANGED <<packVars, parseVars>>

OnDispatchLoginMsg == Switch(LOGIN, LoginEnum)
OnDispatchChatMsg == Switch(CHAT, ChatEnum)
OnDispatchMoveMsg == Switch(MOVE, MoveEnum)

-----------------------------------------------------------------------------
(* Pet::OnNetLoginMsg and Pet::Parse, called with a null Pet and no member used *)

\* The std::string that is made of pMsg->str: up to the first NUL.  Mutant: all
\* there is.
TextWhole(s) == SubSeq(s, 1, Len(s) - 1)
Text(s) == SubSeq(s, 1, (CHOOSE i \in DOMAIN s : s[i] = NUL /\ \A j \in 1..(i - 1) : s[j] # NUL) - 1)

\* Mutant: the delimiter is not put at the end.
WithDelimiterNot(s) == s
\* std::string strs = str + delimiter
WithDelimiter(s) == s \o <<AMP>>

ParseBegin ==
    /\ hpc = "parse"
    /\ str' = Text(SubSeq(frame \o beyond, 3, Len(frame \o beyond)))
    /\ strs' = IF Len(str') <= 1 THEN <<>> ELSE WithDelimiter(str')
    /\ hpc' = IF Len(str') <= 1 THEN "parsed" ELSE "split"
    /\ UNCHANGED <<packVars, branch, res>>

\* int step = delimiter.size()
Step == 1

\* One round of the loop: cut off what is in front of the next delimiter.
ParseSplit ==
    /\ hpc = "split"
    /\ \E i \in DOMAIN strs :
          /\ strs[i] = AMP /\ \A j \in 1..(i - 1) : strs[j] # AMP
          /\ res' = Append(res, SubSeq(strs, 1, i - 1))
          /\ strs' = SubSeq(strs, i + Step, Len(strs))
    /\ UNCHANGED <<hpc, packVars, branch, str>>

\* Parse has no return statement behind its loop.  A compiler that has built res in
\* the place of the result (gcc) returns it none the less; one that puts a trap
\* there (clang) ends the process.
ParseEnd ==
    /\ hpc = "split" /\ \A i \in DOMAIN strs : strs[i] # AMP
    /\ hpc' \in {"parsed", "trapped"}
    /\ UNCHANGED <<packVars, branch, parseVars>>

\* Two parts are an account and a password, which at this commit only go to the log;
\* anything else is ignored.
OnNetLoginMsg ==
    /\ hpc = "parsed"
    /\ hpc' = "return"
    /\ UNCHANGED <<packVars, branch, parseVars>>

Return ==
    /\ hpc = "return"
    /\ hpc' = "idle" /\ msg' = NoMsg /\ frame' = <<>> /\ beyond' = <<>> /\ branch' = "none"
    /\ str' = <<>> /\ strs' = <<>> /\ res' = <<>>

-----------------------------------------------------------------------------
RoutingInit ==
    /\ hpc = "idle" /\ msg = NoMsg /\ frame = <<>> /\ beyond = <<>> /\ branch = "none"
    /\ str = <<>> /\ strs = <<>> /\ res = <<>>

Handler ==
    \/ DispatchMsg \/ OnDispatchLoginMsg \/ OnDispatchChatMsg \/ OnDispatchMoveMsg
    \/ ParseBegin \/ ParseSplit \/ ParseEnd \/ OnNetLoginMsg \/ Return

RoutingNext == Send \/ Handler

RoutingSpec == RoutingInit /\ [][RoutingNext]_routingVars

-----------------------------------------------------------------------------
(* Properties *)

\* The separators in front of position i of s, and the place where s is cut for the
\* k-th time: its k-th separator, or behind its end.
Before(s, i) == Cardinality({j \in 1..(i - 1) : s[j] = AMP})
CutAt(s, k, i) == (i = Len(s) + 1 \/ s[i] = AMP) /\ Before(s, i) = k - 1
Cut(s, k) == IF k = 0 THEN 0 ELSE CHOOSE i \in 1..(Len(s) + 1) : CutAt(s, k, i)

\* The reference: the pieces of s between its separators, in order.
Pieces(s) ==
    [k \in 1..(Before(s, Len(s) + 1) + 1) |-> SubSeq(s, Cut(s, k - 1) + 1, Cut(s, k) - 1)]

\* Parse returns the pieces between the separators, the empty ones at both ends
\* and between two separators included; of a string of one byte or none, nothing.
ParseSplits == hpc = "parsed" => res = IF Len(str) <= 1 THEN <<>> ELSE Pieces(str)

\* The bytes of s in front of its first NUL; all of them if it has none.
UpToNul(s) ==
    SubSeq(s, 1, CHOOSE n \in 0..Len(s) :
                    (\A i \in 1..n : s[i] # NUL) /\ (n = Len(s) \/ s[n + 1] = NUL))

\* Where the account of a login comes from.  A text that has its NUL is parsed as it was
\* sent, whatever follows it.  One that has none goes on into the heap: if it has its
\* separator the account is still the one that was sent, and what follows it goes to
\* the password; if it has not, the account itself goes on, up to the first separator
\* or NUL on the heap.
AccountOrigin ==
    hpc = "parsed" /\ Len(frame) >= 2 =>
        LET sent == SubSeq(frame, 3, Len(frame))
            own == UpToNul(sent)
            heap == IF own = sent THEN UpToNul(beyond) ELSE <<>>
        IN  /\ str = own \o heap
            /\ Len(str) > 1 =>
                  res[1] = IF \E i \in DOMAIN own : own[i] = AMP
                           THEN Pieces(own)[1] ELSE own \o Pieces(heap)[1]

\* The case that is written for a message; for a SRegisterMsg, which is declared with
\* the byte of a login, that of a login.
CaseFor(m) == IF m.name = "register" THEN "login" ELSE m.name

\* A message that a constructor has made reaches the handler of its family and, in its
\* switch, the case that is written for it: no dispatch of a declared message throws
\* and none falls into a default.  A SRegisterMsg is the exception (LoginMsg.hpp:44):
\* it runs the case of a login, and the case of a registration is never run.
RoutedToCase ==
    msg.family \in {"login", "chat", "move"} =>
        /\ hpc # "dead"
        /\ hpc \notin {"dispatch", "switch"} => branch = CaseFor(msg)
=============================================================================
