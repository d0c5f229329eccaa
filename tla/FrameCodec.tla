----------------------------- MODULE FrameCodec -----------------------------
(***************************************************************************)
(* The wire framing and the packet view of src/tests/integration/icb.py.  *)
(* A payload is a sequence of byte values (naturals 0..255); strings are  *)
(* their ASCII bytes.  Everything here is a pure operator: the state      *)
(* machines that use the codec are ClientStream.         *)
(***************************************************************************)
EXTENDS Naturals, Sequences, SequencesExt

NUL == 0            \* trailing terminator b"\x00"
SEP == 1            \* ICB_SEP = b"\x01"                            (l. 17)
MaxFramePayload == 255

\* ASCII bytes of the type letters and of the literal b"login".
Ch_a == 97
Ch_b == 98
Ch_h == 104
Ch_j == 106
LoginWord == <<108, 111, 103, 105, 110>>

IsByte(n) == n \in 0..255

(***************************************************************************)
(* send_frame: refuse a payload over 255 bytes before writing anything,   *)
(* else one length byte then the payload.                                 *)
(***************************************************************************)
SendFrameOk(p) == ~(Len(p) > 255)

EncodeFrame(p) == <<Len(p)>> \o p

(***************************************************************************)
(* recv_frame over a stream that holds a whole frame: the first byte is   *)
(* the length, the next that many bytes the payload.                      *)
(***************************************************************************)
DecodeFrame(bytes) == SubSeq(bytes, 2, 1 + bytes[1])

\* _strip_trailing_nul: drop ONE trailing NUL if there is one.
StripTrailingNul(p) == IF p # <<>> /\ Last(p) = NUL THEN Front(p) ELSE p

\* Packet.ptype: the first payload byte (recv_packet, l. 111).
PType(p) == p[1]

\* Packet.body: payload without trailing NUL, then without the type byte.
Body(p) ==
    LET q == StripTrailingNul(p)
    IN  IF Len(q) >= 1 THEN Tail(q) ELSE <<>>

(***************************************************************************)
(* bytes.split(ICB_SEP): the pieces between separators, left to right;    *)
(* a body with k separators gives k+1 pieces, empty ones included.        *)
(***************************************************************************)
RECURSIVE SplitOn(_, _)
SplitOn(b, sep) ==
    IF \E i \in 1..Len(b) : b[i] = sep
    THEN LET i == CHOOSE i \in 1..Len(b) :
                       b[i] = sep /\ \A j \in 1..(i - 1) : b[j] # sep
         IN  <<SubSeq(b, 1, i - 1)>> \o SplitOn(SubSeq(b, i + 1, Len(b)), sep)
    ELSE <<b>>

\* Packet.fields: an empty body has no fields, never one empty field.
Fields(p) ==
    LET b == Body(p)
    IN  IF b = <<>> THEN <<>> ELSE SplitOn(b, SEP)

\* ICB_SEP.join(fs)
JoinSep(fs) ==
    IF fs = <<>> THEN <<>>
    ELSE FoldLeft(LAMBDA acc, f : acc \o <<SEP>> \o f, Head(fs), Tail(fs))

(***************************************************************************)
(* The payloads the client's command helpers build.  send_login appends   *)
(* a separator after the password field, then the NUL.                    *)
(***************************************************************************)
LoginPayload(loginid, nick, group, password) ==
    <<Ch_a>> \o JoinSep(<<loginid, nick, group, LoginWord, password>>)
             \o <<SEP>> \o <<NUL>>

CmdPayload(cmd, args) == <<Ch_h>> \o cmd \o <<SEP>> \o args \o <<NUL>>

OpenPayload(msg) == <<Ch_b>> \o msg \o <<NUL>>
=============================================================================
