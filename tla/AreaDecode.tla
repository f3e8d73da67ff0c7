----------------------------- MODULE AreaDecode -----------------------------
(***************************************************************************)
(* How the two readings of the house's arm state become payloads:          *)
(*   - a live AREA push carries one state byte (mqtt_payload_for_area_state)*)
(*   - GetAreaFlags returns a bitmap, one row per flag, one bit per area   *)
(*     (decode_area_ha_state)                                              *)
(* and how the installer's Part-Arm labels tie panel slots to arm modes in *)
(* both directions (config.Settings).  Pure operators, no state.           *)
(*                                                                         *)
(* A byte of the bitmap is the set of its bits that are 1, a bitmap a      *)
(* sequence of bytes.                                                      *)
(***************************************************************************)
EXTENDS AlarmPayload, Integers, Sequences

CONSTANT Unused  \* the label of a Part-Arm slot nothing is assigned to

ASSUME UnusedAssumption == Unused \notin Modes \cup {NoMode}

NoByte == -1     \* None where a mode byte is expected
Slots == 1..3

-----------------------------------------------------------------------------
(* Part-Arm labels *)

Labelings == [Slots -> PartModes \cup {Unused}]

\* Validation refuses one mode on two slots.
UniqueLabels(labels) ==
    \A s, t \in Slots : labels[s] = labels[t] /\ labels[s] # Unused => s = t

SlotsOf(labels, m) == {s \in Slots : labels[s] = m}

\* The mode byte of SETAREAARM for a mode: the first slot that carries it.
\* The mutant counts slots from 0.
ModeByteFromZero(labels, m) ==
    IF m = Away THEN 0
    ELSE IF SlotsOf(labels, m) = {} THEN NoByte
    ELSE (CHOOSE s \in SlotsOf(labels, m) : \A t \in SlotsOf(labels, m) : s <= t) - 1

ModeByteFor(labels, m) ==
    IF m = Away THEN 0
    ELSE IF SlotsOf(labels, m) = {} THEN NoByte
    ELSE CHOOSE s \in SlotsOf(labels, m) : \A t \in SlotsOf(labels, m) : s <= t

ModeOfSlot(labels, slot) ==
    IF labels[slot] \in {Unused, Away} THEN NoMode ELSE labels[slot]

\* An unlabelled slot shows as a full arm, never as disarmed.
PartArmPayload(labels, slot) ==
    IF ModeOfSlot(labels, slot) = NoMode THEN Armed(Away)
    ELSE Armed(ModeOfSlot(labels, slot))

-----------------------------------------------------------------------------
(* Live AREA pushes *)

PartArmByte == 6..7                       \* byte 6 is slot 1, byte 7 is slot 2
LiveByte == 0..7

\* The mutant takes byte 6 for slot 2.
LivePayloadShifted(byte, labels) ==
    CASE byte \in PartArmByte -> PartArmPayload(labels, byte - 4)
      [] byte = 0 -> Disarmed
      [] byte \in {1, 4} -> Arming
      [] byte = 2 -> Pending
      [] byte = 3 -> Armed(Away)
      [] byte = 5 -> Triggered
      [] OTHER -> NoPayload

LivePayload(byte, labels) ==
    CASE byte \in PartArmByte -> PartArmPayload(labels, byte - 5)
      [] byte = 0 -> Disarmed
      [] byte \in {1, 4} -> Arming
      [] byte = 2 -> Pending
      [] byte = 3 -> Armed(Away)
      [] byte = 5 -> Triggered
      [] OTHER -> NoPayload

-----------------------------------------------------------------------------
(* The area-flags bitmap *)

FlagAlarm == 0
FlagArmed == 21
FlagFullArmed == 22
FlagPartArmed == 23
FlagForceArmed == 26
FlagPartArm(slot) == 49 + slot

HouseArea == 1

\* Areas the panel has for its zone count; 0 where AREA_MAP has no entry.
AreasFor(zoneCount) ==
    CASE zoneCount \in {12, 24} -> 2
      [] zoneCount \in {48, 64} -> 4
      [] zoneCount = 88 -> 8
      [] zoneCount = 168 -> 16
      [] zoneCount = 640 -> 64
      [] OTHER -> 0

\* Bytes of a bitmap row.
AreaSizeFor(zoneCount) == (AreasFor(zoneCount) + 7) \div 8

\* A row that the reply cuts short reads as unset; rows are little-endian.
\* The mutant counts bits from 1.
FlagBitFromOne(flags, flag, areaSize, area) ==
    /\ (flag + 1) * areaSize <= Len(flags)
    /\ area % 8 \in flags[flag * areaSize + (area - 1) \div 8 + 1]

FlagBit(flags, flag, areaSize, area) ==
    /\ (flag + 1) * areaSize <= Len(flags)
    /\ (area - 1) % 8 \in flags[flag * areaSize + (area - 1) \div 8 + 1]

DecodeArea(flags, areaSize, area, labels) ==
    LET Set(flag) == FlagBit(flags, flag, areaSize, area)
        parts == {s \in Slots : Set(FlagPartArm(s))}
    IN  IF Set(FlagAlarm) THEN Triggered
        ELSE IF \A f \in {FlagArmed, FlagFullArmed, FlagPartArmed, FlagForceArmed} : ~Set(f)
             THEN Disarmed
        ELSE IF parts = {} THEN Armed(Away)
        ELSE PartArmPayload(labels, CHOOSE s \in parts : \A t \in parts : s <= t)
=============================================================================
