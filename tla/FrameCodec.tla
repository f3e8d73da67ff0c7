----------------------------- MODULE FrameCodec -----------------------------
(***************************************************************************)
(* protocol/frame.py on real bytes: a frame is "t", type,                  *)
(* length, sequence number, body and a CRC over all of it.                 *)
(*                                                                         *)
(* The CRC is a parameter, so that what is said of the framing rests on    *)
(* what a checksum has to do and not on how this one is computed (Crc).    *)
(***************************************************************************)
EXTENDS Integers, Sequences, SequencesExt

CONSTANT Checksum(_)  \* crc8 of a sequence of bytes

Byte == 0..255

HeaderStart == 116                                  \* "t"
FrameTypes == [command |-> 67, response |-> 82, message |-> 77]     \* "C", "R", "M"
HeaderLen == 4
EndOfSession == <<43, 43, 43>>                      \* "+++"

-----------------------------------------------------------------------------
(* frame.py *)

Frame(type, sequence, body) == [type |-> type, sequence |-> sequence, body |-> body]

Encodes(f) == Len(f.body) + HeaderLen + 1 <= 255 /\ f.sequence \in Byte

WithoutCrc(f) == <<HeaderStart, f.type, Len(f.body) + HeaderLen + 1, f.sequence>> \o f.body

\* encode_frame, for what Encodes allows.
EncodeFrame(f) == Append(WithoutCrc(f), Checksum(WithoutCrc(f)))

Decoded(f, n) == [frame |-> {f}, consumed |-> n]
Misses(n) == [frame |-> {}, consumed |-> n]
NeedsMore == Misses(0)

\* Three bytes can be the end of the session; the mutant waits for a whole
\* header first.
MayBeEndWithHeader(buf) == Len(buf) >= HeaderLen /\ SubSeq(buf, 1, 3) = EndOfSession
MayBeEnd(buf) == Len(buf) >= 3 /\ SubSeq(buf, 1, 3) = EndOfSession

\* The mutant takes any CRC as good.
CrcHoldsAlways(bytes) == TRUE
CrcHolds(bytes) == Last(bytes) = Checksum(Front(bytes))

\* _inspect_leading: the frame, if there is one, and the bytes consumed.
InspectLeading(buf) ==
    IF MayBeEnd(buf) THEN Misses(3)
    ELSE IF Len(buf) < HeaderLen THEN NeedsMore
    ELSE IF buf[1] # HeaderStart \/ buf[3] < HeaderLen + 1 THEN Misses(1)
    ELSE IF Len(buf) < buf[3] THEN NeedsMore
    ELSE LET bytes == SubSeq(buf, 1, buf[3])
             known == \E t \in DOMAIN FrameTypes : FrameTypes[t] = buf[2]
         IN  IF CrcHolds(bytes) /\ known
             THEN Decoded(Frame(buf[2], buf[4], SubSeq(bytes, HeaderLen + 1, buf[3] - 1)), buf[3])
             ELSE Misses(1)
=============================================================================
