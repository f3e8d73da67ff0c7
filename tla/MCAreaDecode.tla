---------------------------- MODULE MCAreaDecode ----------------------------
(***************************************************************************)
(* AreaDecode against a reference panel: two areas that arm, alarm and     *)
(* unset, whose state the panel reports both as a live AREA byte and as    *)
(* rows of the flags bitmap.                                               *)
(***************************************************************************)
EXTENDS AreaDecode, FiniteSets

CONSTANT ZoneCounts   \* panel models whose bitmap layout is checked

\* The ones AREA_MAP has an entry for: any other count raises ProtocolError.
ASSUME ZoneCountsAssumption == \A n \in ZoneCounts : AreasFor(n) > 0

VARIABLES
    labels,     \* the installer's Part-Arm labels
    zoneCount,  \* the panel model
    area        \* what each of areas 1 and 2 is doing

vars == <<labels, zoneCount, area>>

AreaStates == {"unset", "armed", "full", "force", "alarm", "part1", "part2", "part3"}
PartSlot(st) == CASE st = "part1" -> 1 [] st = "part2" -> 2 [] st = "part3" -> 3

\* The flags a panel area shows in a state.
FlagsOf(st) ==
    CASE st = "unset" -> {}
      [] st = "armed" -> {FlagArmed}
      [] st = "full" -> {FlagArmed, FlagFullArmed}
      [] st = "force" -> {FlagForceArmed}
      [] st = "alarm" -> {FlagAlarm, FlagArmed, FlagPartArmed, FlagPartArm(2)}
      [] OTHER -> {FlagPartArmed, FlagPartArm(PartSlot(st))}

\* The byte of its AREA push; slot 3 has none.
ByteOf(st) ==
    CASE st = "unset" -> 0
      [] st \in {"armed", "full", "force"} -> 3
      [] st = "alarm" -> 5
      [] st = "part1" -> 6
      [] st = "part2" -> 7
      [] OTHER -> NoByte

FlagCount == 72
Size == AreaSizeFor(zoneCount)
IsSet(flag, a) == a \in DOMAIN area /\ flag \in FlagsOf(area[a])

\* The reply of GetAreaFlags: byte k of row f holds areas 8k+1 to 8k+8
\* (the empty prefix makes the value a tuple rather than a function to call).
Bitmap ==
    <<>> \o [i \in 1..FlagCount * Size |->
        LET flag == (i - 1) \div Size
            k == (i - 1) % Size
        IN  {bit \in 0..7 : IsSet(flag, 8 * k + bit + 1)}]

Init ==
    /\ labels \in {l \in Labelings : UniqueLabels(l)}
    /\ zoneCount \in ZoneCounts
    /\ area = [a \in 1..2 |-> "unset"]

Change(a, st) ==
    /\ area[a] # st
    /\ area' = [area EXCEPT ![a] = st]
    /\ UNCHANGED <<labels, zoneCount>>

Next == \E a \in DOMAIN area, st \in AreaStates : Change(a, st)
Spec == Init /\ [][Next]_vars

-----------------------------------------------------------------------------
House == DecodeArea(Bitmap, Size, HouseArea, labels)

\* Reading one flag of one area from the bitmap never sees a neighbouring
\* area or flag, for both row widths (flag_bit).
BitmapReadsBack ==
    LET bitmap == Bitmap IN
    \A f \in {FlagAlarm, FlagArmed, FlagFullArmed, FlagPartArmed, FlagForceArmed}
                \cup {FlagPartArm(s) : s \in Slots},
       a \in 1..AreasFor(zoneCount) :
        FlagBit(bitmap, f, Size, a) <=> IsSet(f, a)

\* The two independent readings of one house state give one payload, so a
\* poll after a push finds nothing to correct.
ReadingsAgree ==
    ByteOf(area[HouseArea]) # NoByte =>
        House = LivePayload(ByteOf(area[HouseArea]), labels)

\* The house states an accepted mode byte leads to.
SettlesIn(byte) ==
    CASE byte = 0 -> {"armed", "full", "force"}
      [] byte \in Slots -> {<<"part1", "part2", "part3">>[byte]}
      [] OTHER -> {}

\* A house that settles in the mode an ARM tap asked for is shown in that
\* mode: mode byte out, Part-Arm slot back in, under every labelling.
ArmRoundTrip ==
    LET house == House
    IN  \A m \in Modes :
            area[HouseArea] \in SettlesIn(ModeByteFor(labels, m)) => house = Armed(m)

\* The trust poll settles: a payload it published is not published again by
\* the next poll, and a house that alarms is never shown as armed by it.
PollSettles ==
    LET house == House
    IN  \A shown \in Payloads :
            LET after == IF PollMayReplace(shown, house) THEN house ELSE shown
            IN  /\ ~PollMayReplace(after, house)
                /\ house = Triggered => after = Triggered
                /\ shown \in Transient \cup {Triggered} => ~IsArmed(after)
=============================================================================
