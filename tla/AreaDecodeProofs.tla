--------------------------- MODULE AreaDecodeProofs ---------------------------
(***************************************************************************)
(* For every Part-Arm labelling, every set of part-arm modes and every     *)
(* panel model in AREA_MAP: the bitmap reads back, and both readings of    *)
(* the house agree with the mode that was asked for.                       *)
(***************************************************************************)
EXTENDS MCAreaDecode, SequenceTheorems, TLAPS

-----------------------------------------------------------------------------
(* The layout of the bitmap *)

LEMMA RowWidths ==
    ASSUME NEW n \in ZoneCounts
    PROVE  /\ AreaSizeFor(n) \in {1, 2, 8} /\ AreasFor(n) \in {2, 4, 8, 16, 64}
           /\ AreasFor(n) <= 8 * AreaSizeFor(n)
<1>1. AreasFor(n) # 0 => AreasFor(n) \in {2, 4, 8, 16, 64}
  BY DEF AreasFor
<1>2. AreasFor(n) \in {2, 4, 8, 16, 64}
  <2>1. AreasFor(n) # 0
    BY ZoneCountsAssumption
  <2> QED
    BY <1>1, <2>1
<1>3. \A k \in {2, 4, 8, 16, 64} : (k + 7) \div 8 \in {1, 2, 8} /\ k <= 8 * ((k + 7) \div 8)
  OBVIOUS
<1> QED
  BY <1>2, <1>3 DEF AreaSizeFor

\* Where byte q of row f is, and which row and byte it is read back as.
LEMMA RowPlace ==
    ASSUME NEW w \in {1, 2, 8}, NEW f \in 0..71, NEW q \in 0..(w - 1)
    PROVE  /\ f * w + q + 1 \in 1..(72 * w)
           /\ (f * w + q + 1 - 1) \div w = f /\ (f * w + q + 1 - 1) % w = q
           /\ (f + 1) * w <= 72 * w
<1>1. CASE w = 1
  BY <1>1
<1>2. CASE w = 2
  BY <1>2
<1>3. CASE w = 8
  BY <1>3
<1> QED
  BY <1>1, <1>2, <1>3

\* Which byte and bit of a row an area has.
LEMMA AreaPlace ==
    ASSUME NEW w \in {1, 2, 8}, NEW a \in 1..(8 * w)
    PROVE  /\ (a - 1) % 8 \in 0..7 /\ (a - 1) \div 8 \in 0..(w - 1)
           /\ 8 * ((a - 1) \div 8) + ((a - 1) % 8) + 1 = a
<1>1. a - 1 \in Nat /\ w \in Nat /\ a - 1 < 8 * w
  <2>1. \A n \in Nat : \A b \in 1..(8 * n) : b - 1 \in Nat /\ b - 1 < 8 * n
    OBVIOUS
  <2> QED
    BY <2>1
<1>2. PICK q \in Nat, r \in 0..7 : a - 1 = 8 * q + r /\ q = (a - 1) \div 8 /\ r = (a - 1) % 8
  <2>1. ASSUME NEW x \in Nat
        PROVE  \E q \in Nat, r \in 0..7 : x = 8 * q + r /\ q = x \div 8 /\ r = x % 8
    OBVIOUS
  <2> QED
    BY <1>1, <2>1
<1>3. q \in 0..(w - 1) /\ 8 * q + r + 1 = a
  BY <1>1, <1>2
<1> QED
  BY <1>2, <1>3

\* The bitmap, byte by byte.
LEMMA BitmapBytes ==
    ASSUME Size \in {1, 2, 8}
    PROVE  /\ Len(Bitmap) = 72 * Size
           /\ \A i \in 1..(72 * Size) :
                  Bitmap[i] = {bit \in 0..7 : IsSet((i - 1) \div Size, 8 * ((i - 1) % Size) + bit + 1)}
<1> DEFINE N == 72 * Size
           Row(i) == {bit \in 0..7 : IsSet((i - 1) \div Size, 8 * ((i - 1) % Size) + bit + 1)}
           rows == [i \in 1..N |-> Row(i)]
<1>1. N \in Nat
  OBVIOUS
<1>2. Bitmap = <<>> \o rows
  BY DEF Bitmap, FlagCount
<1> HIDE DEF N
<1>3. \A i \in 1..N : Row(i) \in SUBSET (0..7)
  OBVIOUS
<1> HIDE DEF Row
<1>4. rows \in Seq(SUBSET (0..7))
  BY <1>1, <1>3
<1>5. <<>> \o rows = rows
  BY <1>4, ConcatEmptySeq
<1>6. Len(rows) = N /\ \A i \in 1..N : rows[i] = Row(i)
  BY <1>1, <1>4
<1> QED
  BY <1>2, <1>5, <1>6 DEF N, Row

-----------------------------------------------------------------------------
(* The invariant, and the theorem about the layout *)

Inv == labels \in Labelings /\ zoneCount \in ZoneCounts /\ area \in [1..2 -> AreaStates]

LEMMA InvHolds == Spec => []Inv
<1>1. Init => Inv
  BY DEF Init, Inv, AreaStates
<1>2. Inv /\ [Next]_vars => Inv'
  BY DEF Inv, Next, Change, vars
<1> QED
  BY <1>1, <1>2, PTL DEF Spec

FlagsRead ==
    {FlagAlarm, FlagArmed, FlagFullArmed, FlagPartArmed, FlagForceArmed} \cup {FlagPartArm(s) : s \in Slots}

LEMMA FlagsInRange == FlagsRead \subseteq 0..71
BY DEF FlagsRead, FlagAlarm, FlagArmed, FlagFullArmed, FlagPartArmed, FlagForceArmed, FlagPartArm, Slots

LEMMA ReadsBack ==
    ASSUME Inv, NEW f \in 0..71, NEW a \in 1..AreasFor(zoneCount)
    PROVE  FlagBit(Bitmap, f, Size, a) <=> IsSet(f, a)
<1> DEFINE q == (a - 1) \div 8
           r == (a - 1) % 8
           i == f * Size + q + 1
<1>1. Size \in {1, 2, 8} /\ AreasFor(zoneCount) \in Nat /\ AreasFor(zoneCount) <= 8 * Size
  BY RowWidths DEF Inv, Size
<1>2. a \in 1..(8 * Size)
  BY <1>1
<1>3. r \in 0..7 /\ q \in 0..(Size - 1) /\ 8 * q + r + 1 = a
  BY <1>1, <1>2, AreaPlace
<1> HIDE DEF q, r
<1>4. i \in 1..(72 * Size) /\ (i - 1) \div Size = f /\ (i - 1) % Size = q /\ (f + 1) * Size <= 72 * Size
  BY <1>1, <1>3, RowPlace
<1> HIDE DEF i
<1>5. Len(Bitmap) = 72 * Size /\ Bitmap[i] = {bit \in 0..7 : IsSet(f, 8 * q + bit + 1)}
  BY <1>1, <1>4, BitmapBytes
<1>6. FlagBit(Bitmap, f, Size, a) <=> r \in Bitmap[i]
  BY <1>4, <1>5 DEF FlagBit, q, r, i
<1> QED
  BY <1>3, <1>5, <1>6

\* In the bitmap of every panel model, reading one flag of one area gives
\* that flag of that area, whatever its neighbours are doing (flag_bit).
THEOREM FlagsReadBack == Spec => []BitmapReadsBack
<1>1. Inv => BitmapReadsBack
  <2> SUFFICES ASSUME Inv, NEW f \in FlagsRead, NEW a \in 1..AreasFor(zoneCount)
               PROVE  FlagBit(Bitmap, f, Size, a) <=> IsSet(f, a)
    BY DEF BitmapReadsBack, FlagsRead
  <2> QED
    BY FlagsInRange, ReadsBack
<1> QED
  BY <1>1, InvHolds, PTL

-----------------------------------------------------------------------------
(* What the house is decoded as *)

LEMMA LeastSlot ==
    ASSUME NEW S \in SUBSET Slots, S # {}
    PROVE  (CHOOSE s \in S : \A t \in S : s <= t) \in S
<1>1. \E s \in S : \A t \in S : s <= t
  <2>1. CASE 1 \in S
    BY <2>1 DEF Slots
  <2>2. CASE 1 \notin S /\ 2 \in S
    BY <2>2 DEF Slots
  <2>3. CASE 1 \notin S /\ 2 \notin S
    <3>1. \A t \in S : t = 3
      BY <2>3 DEF Slots
    <3> QED
      BY <3>1
  <2> QED
    BY <2>1, <2>2, <2>3
<1> QED
  BY <1>1

\* The flags of the house are read as they are set.
LEMMA HouseFlags ==
    ASSUME Inv
    PROVE  \A f \in FlagsRead : FlagBit(Bitmap, f, Size, HouseArea) <=> f \in FlagsOf(area[HouseArea])
<1>1. HouseArea \in 1..AreasFor(zoneCount)
  BY RowWidths DEF Inv, HouseArea
<1>2. \A f : IsSet(f, HouseArea) <=> f \in FlagsOf(area[HouseArea])
  BY DEF IsSet, HouseArea, Inv
<1> QED
  BY <1>1, <1>2, FlagsInRange, ReadsBack

HouseAs(st) ==
    CASE st = "unset" -> Disarmed
      [] st \in {"armed", "full", "force"} -> Armed(Away)
      [] st = "alarm" -> Triggered
      [] OTHER -> PartArmPayload(labels, PartSlot(st))

LEMMA HouseDecoded ==
    ASSUME Inv
    PROVE  House = HouseAs(area[HouseArea])
<1> DEFINE st == area[HouseArea]
           On(f) == FlagBit(Bitmap, f, Size, HouseArea)
           Any == {FlagArmed, FlagFullArmed, FlagPartArmed, FlagForceArmed}
           parts == {s \in Slots : On(FlagPartArm(s))}
           least == CHOOSE s \in parts : \A t \in parts : s <= t
<1>1. House = IF On(FlagAlarm) THEN Triggered
              ELSE IF \A f \in Any : ~On(f) THEN Disarmed
              ELSE IF parts = {} THEN Armed(Away)
              ELSE PartArmPayload(labels, least)
  BY DEF House, DecodeArea
<1>2. \A f \in FlagsRead : On(f) <=> f \in FlagsOf(st)
  BY HouseFlags
<1>3. FlagAlarm \in FlagsRead /\ Any \subseteq FlagsRead /\ \A s \in Slots : FlagPartArm(s) \in FlagsRead
  BY DEF FlagsRead
<1>4. parts \subseteq Slots /\ (parts # {} => least \in parts)
  BY LeastSlot
<1> HIDE DEF least, On
<1>5. parts = {s \in Slots : FlagPartArm(s) \in FlagsOf(st)}
  BY <1>2, <1>3
<1>6. On(FlagAlarm) <=> FlagAlarm \in FlagsOf(st)
  BY <1>2, <1>3
<1>7. (\A f \in Any : ~On(f)) <=> Any \cap FlagsOf(st) = {}
  BY <1>2, <1>3
<1> HIDE DEF parts, Any
<1> USE DEF FlagsOf, FlagAlarm, FlagArmed, FlagFullArmed, FlagPartArmed, FlagForceArmed, FlagPartArm, Slots
<1>8. CASE st = "unset"
  BY <1>1, <1>6, <1>7, <1>8 DEF HouseAs, Any
<1>9. CASE st \in {"armed", "full", "force"}
  <2>1. parts = {} /\ Any \cap FlagsOf(st) # {} /\ FlagAlarm \notin FlagsOf(st)
    BY <1>5, <1>9 DEF Any
  <2> QED
    BY <1>1, <1>6, <1>7, <1>9, <2>1 DEF HouseAs
<1>10. CASE st = "alarm"
  BY <1>1, <1>6, <1>10 DEF HouseAs
<1>11. CASE st \in {"part1", "part2", "part3"}
  <2>1. PartSlot(st) \in Slots
    BY <1>11 DEF PartSlot
  <2>2. FlagsOf(st) = {FlagPartArmed, FlagPartArm(PartSlot(st))}
    BY <1>11
  <2>3. parts = {PartSlot(st)}
    BY <1>5, <2>1, <2>2
  <2>4. least = PartSlot(st)
    BY <1>4, <2>3
  <2>5. FlagAlarm \notin FlagsOf(st) /\ Any \cap FlagsOf(st) # {}
    BY <2>1, <2>2 DEF Any
  <2> QED
    BY <1>1, <1>6, <1>7, <1>11, <2>3, <2>4, <2>5 DEF HouseAs
<1> QED
  BY <1>8, <1>9, <1>10, <1>11 DEF Inv, AreaStates, HouseArea

-----------------------------------------------------------------------------
(* The payloads *)

\* Whatever the panel does, the AREA byte of a house and its flags are
\* decoded to one payload, for the states that have such a byte.
THEOREM OneHouseOnePayload == Spec => []ReadingsAgree
<1>1. Inv => ReadingsAgree
  <2> SUFFICES ASSUME Inv, ByteOf(area[HouseArea]) # NoByte
               PROVE  HouseAs(area[HouseArea]) = LivePayload(ByteOf(area[HouseArea]), labels)
    BY HouseDecoded DEF ReadingsAgree
  <2> DEFINE st == area[HouseArea]
  <2> USE DEF ByteOf, LivePayload, HouseAs, PartArmByte, NoByte
  <2>1. CASE st = "unset"
    BY <2>1
  <2>2. CASE st \in {"armed", "full", "force"}
    BY <2>2
  <2>3. CASE st = "alarm"
    BY <2>3
  <2>4. CASE st = "part1"
    BY <2>4 DEF PartSlot
  <2>5. CASE st = "part2"
    BY <2>5 DEF PartSlot
  <2>6. CASE st = "part3"
    BY <2>6
  <2> QED
    BY <2>1, <2>2, <2>3, <2>4, <2>5, <2>6 DEF Inv, AreaStates, HouseArea
<1> QED
  BY <1>1, InvHolds, PTL

\* What carries a mode and what a mode byte settles in.
LEMMA SettlesInPart ==
    ASSUME NEW s \in Slots, NEW st \in SettlesIn(s)
    PROVE  st \in {"part1", "part2", "part3"} /\ PartSlot(st) = s
<1>1. CASE s = 1
  BY <1>1 DEF SettlesIn, Slots, PartSlot
<1>2. CASE s = 2
  BY <1>2 DEF SettlesIn, Slots, PartSlot
<1>3. CASE s = 3
  BY <1>3 DEF SettlesIn, Slots, PartSlot
<1> QED
  BY <1>1, <1>2, <1>3 DEF Slots

\* The house an arm in a mode settled in is decoded as that mode, whatever
\* slots the installer gave the modes: mode_byte_for and the Part-Arm decode
\* are inverses.
THEOREM ModeComesBack == Spec => []ArmRoundTrip
<1>1. Inv => ArmRoundTrip
  <2> SUFFICES ASSUME Inv, NEW m \in Modes, area[HouseArea] \in SettlesIn(ModeByteFor(labels, m))
               PROVE  House = Armed(m)
    BY DEF ArmRoundTrip
  <2> DEFINE st == area[HouseArea]
  <2>1. House = HouseAs(st)
    BY HouseDecoded
  <2>2. CASE m = Away
    <3>1. st \in {"armed", "full", "force"}
      <4>1. ModeByteFor(labels, m) = 0
        BY <2>2 DEF ModeByteFor
      <4>2. SettlesIn(0) = {"armed", "full", "force"}
        BY DEF SettlesIn, Slots
      <4> QED
        BY <4>1, <4>2
    <3> QED
      BY <2>1, <2>2, <3>1 DEF HouseAs
  <2>3. CASE m # Away /\ SlotsOf(labels, m) = {}
    <3>1. SettlesIn(ModeByteFor(labels, m)) = {}
      BY <2>3 DEF ModeByteFor, SettlesIn, NoByte, Slots
    <3> QED
      BY <3>1
  <2>4. CASE m # Away /\ SlotsOf(labels, m) # {}
    <3> DEFINE S == SlotsOf(labels, m)
    <3>1. S \in SUBSET Slots /\ ModeByteFor(labels, m) = CHOOSE s \in S : \A t \in S : s <= t
      BY <2>4 DEF SlotsOf, ModeByteFor
    <3>2. PICK s \in S : ModeByteFor(labels, m) = s
      BY <2>4, <3>1, LeastSlot
    <3>3. s \in Slots /\ labels[s] = m
      BY <3>2 DEF SlotsOf
    <3>4. st \in {"part1", "part2", "part3"} /\ PartSlot(st) = s
      BY <3>2, <3>3, SettlesInPart
    <3>5. HouseAs(st) = PartArmPayload(labels, s)
      BY <3>4 DEF HouseAs
    <3>6. m \notin {Unused, Away, NoMode}
      BY <2>4, UnusedAssumption, ModesAssumption DEF Modes
    <3>7. PartArmPayload(labels, s) = Armed(m)
      BY <3>3, <3>6 DEF PartArmPayload, ModeOfSlot
    <3> QED
      BY <2>1, <3>5, <3>7
  <2> QED
    BY <2>2, <2>3, <2>4
<1> QED
  BY <1>1, InvHolds, PTL

\* What the trust poll published it does not publish again, it never leaves
\* an alarm unseen, and it never shows an entry or an alarm as armed.
THEOREM ThePollSettles == Spec => []PollSettles
<1>1. PollSettles
  <2> SUFFICES ASSUME NEW shown \in Payloads
               PROVE  LET after == IF PollMayReplace(shown, House) THEN House ELSE shown
                      IN  /\ ~PollMayReplace(after, House)
                          /\ House = Triggered => after = Triggered
                          /\ shown \in Transient \cup {Triggered} => ~IsArmed(after)
    BY DEF PollSettles
  <2> DEFINE after == IF PollMayReplace(shown, House) THEN House ELSE shown
  <2>1. ~IsArmed(Triggered) /\ ~IsArmed(Arming) /\ ~IsArmed(Pending) /\ Triggered \notin Transient
    BY DEF IsArmed, Triggered, Arming, Pending, Unarmed, Transient
  <2>2. ~PollMayReplace(after, House)
    BY DEF PollMayReplace, MayReplaceLive
  <2>3. House = Triggered => after = Triggered
    BY <2>1 DEF PollMayReplace, MayReplaceLive
  <2>4. shown \in Transient \cup {Triggered} => ~IsArmed(after)
    BY <2>1 DEF PollMayReplace, MayReplaceLive, Transient
  <2> QED
    BY <2>2, <2>3, <2>4
<1> QED
  BY <1>1, PTL
=============================================================================
