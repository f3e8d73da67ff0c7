---------------------------- MODULE MCFrameStream ----------------------------
(***************************************************************************)
(* FrameStream with a reply without a body and an event whose body looks   *)
(* like the start of a frame and like an end of the session.               *)
(***************************************************************************)
EXTENDS FrameStream, Crc, FiniteSets

MCFrames == {Frame(82, 116, <<>>), Frame(77, 43, <<43, 43, 43, 116>>)}
MCStrays == {82}

\* Why the CRC keeps ChecksumAssumption for frames of any length: a turn of
\* its loop sends different bytes to different values, and different values
\* on to different values, so a difference once made is never lost.
ASSUME TurnsApart ==
    \A c \in Byte :
        /\ Cardinality({Turn(c, b) : b \in Byte}) = 256
        /\ Cardinality({Turn(b, c) : b \in Byte}) = 256
=============================================================================
