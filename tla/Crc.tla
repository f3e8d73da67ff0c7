--------------------------------- MODULE Crc ---------------------------------
(***************************************************************************)
(* protocol/crc.py: polynomial 0x185, start 0xFF, not reflected.           *)
(***************************************************************************)
EXTENDS Integers, Sequences, SequencesExt, Bitwise

\* Functions, whose arguments TLC evaluates once, and a sequence, which it
\* evaluates once and for all.
Round == [crc \in 0..255 |-> IF crc >= 128 THEN ((2 * crc) ^^ 133) % 256 ELSE 2 * crc]

EightRounds ==
    <<>> \o [i \in 1..256 |-> FoldLeft(LAMBDA c, n : Round[c], i - 1, <<1, 2, 3, 4, 5, 6, 7, 8>>)]

\* One turn of the loop over the bytes.
Turn(crc, b) == EightRounds[(crc ^^ b) + 1]

Crc8(bytes) ==
    LET next == [crc \in 0..255, b \in 0..255 |-> Turn(crc, b)]
    IN  FoldLeft(LAMBDA crc, b : next[crc, b], 255, bytes)
=============================================================================
