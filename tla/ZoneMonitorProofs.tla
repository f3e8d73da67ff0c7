-------------------------- MODULE ZoneMonitorProofs --------------------------
(***************************************************************************)
(* For any panel, buffer and number of changes, polls and faults: what     *)
(* Home Assistant shows of the zones, and that no way into triggered goes  *)
(* without its attributes.                                                 *)
(***************************************************************************)
EXTENDS ZoneMonitor, TLAPS

USE ZonesAssumption, StatusesAssumption, BoundsAssumption, ModesAssumption

LoginPcs == {"zones", "flags", "subscribe", "settle"}

\* Where the task can be with a frame in hand, and with pushes on the way.
Placed ==
    /\ pc = "frame" => frame # <<>>
    /\ pc \notin {"frame", "poll"} => frame = <<>>
    /\ ~Subscribed => stream = <<>>

-----------------------------------------------------------------------------
LEMMA Put ==
    ASSUME NEW S, NEW w \in Seq(S), NEW e \in S
    PROVE  /\ Append(w, e) \in Seq(S)
           /\ Len(Append(w, e)) = Len(w) + 1 /\ Len(w) \in Nat
           /\ \A i \in 1..Len(Append(w, e)) : Append(w, e)[i] = IF i = Len(w) + 1 THEN e ELSE w[i]
OBVIOUS

LEMMA Take ==
    ASSUME NEW S, NEW w \in Seq(S), w # <<>>
    PROVE  /\ Head(w) = w[1] /\ Head(w) \in S /\ Tail(w) \in Seq(S)
           /\ Len(w) \in Nat \ {0} /\ Len(Tail(w)) = Len(w) - 1
           /\ \A i \in 1..Len(Tail(w)) : Tail(w)[i] = w[i + 1] /\ i + 1 \in 1..Len(w)
OBVIOUS

LEMMA PayloadsNamed ==
    /\ {Disarmed, Arming, Pending, Triggered, Armed(Away)} \subseteq Payloads
    /\ Payloads \subseteq MaybePayload /\ NoPayload \in MaybePayload
    /\ Disarmed # Triggered /\ NoPayload # Triggered
    /\ \A p \in Payloads : CoerceAfterDisarm(p) \in Payloads
BY DEF Disarmed, Arming, Pending, Triggered, Armed, Unarmed, Payloads, MaybePayload, NoPayload, UnarmedKinds,
       Modes, CoerceAfterDisarm

LEMMA HousesNamed ==
    ASSUME NEW h \in Payloads
    PROVE  FlagsViews(h) \subseteq Payloads /\ HouseNext(h) \subseteq Payloads
BY PayloadsNamed DEF FlagsViews, HouseNext

LEMMA PushesNamed ==
    /\ LogPush \in Pushes
    /\ \A z \in Zones, s \in Statuses : ZonePush(z, s) \in Pushes
BY DEF Pushes, LogPush, ZonePush

LEMMA AreaPushed ==
    ASSUME opened \in Zones \cup {NoZone}, since \in Nat, NEW p \in Payloads
    PROVE  AreaPush(p) \in Pushes
BY DEF Pushes, AreaPush

-----------------------------------------------------------------------------
(* Type correctness, with Placed *)

PanelTyped == zone \in [Zones -> Statuses] /\ house \in Payloads

PlacesTyped ==
    /\ pc \in {"down", "zones", "flags", "subscribe", "settle", "idle", "frame", "poll"}
    /\ frame = <<>> \/ \E f \in Pushes : frame = <<f>>
    /\ stream \in Seq(Pushes)

PayloadsTyped == prev \in MaybePayload /\ next \in MaybePayload /\ payload \in MaybePayload

ShownTyped == shown \in [InUse -> {"0", "1"}] /\ missed \subseteq Zones

BufferTyped ==
    /\ buf \in Seq(Pushes) /\ Len(buf) <= BufferLen
    /\ attrs \in Zones \cup {NoZone}

HistoryTyped ==
    /\ opened \in Zones \cup {NoZone} /\ cause \in Zones \cup {NoZone}
    /\ since \in Nat
    /\ taken \in BOOLEAN /\ excused \in BOOLEAN

BoundsTyped == changes \in Nat /\ reads \in Nat /\ faults \in Nat

LEMMA Parts ==
    TypeOK <=> /\ PanelTyped /\ PlacesTyped /\ PayloadsTyped /\ ShownTyped
               /\ BufferTyped /\ HistoryTyped /\ BoundsTyped
BY DEF TypeOK, PanelTyped, PlacesTyped, PayloadsTyped, ShownTyped, BufferTyped, HistoryTyped, BoundsTyped

TInv == TypeOK /\ Placed

LEMMA InitTyped == Init => TInv
<1> SUFFICES ASSUME Init PROVE TInv
  OBVIOUS
<1>1. PanelTyped /\ PlacesTyped /\ PayloadsTyped
  BY PayloadsNamed DEF Init, PanelTyped, PlacesTyped, PayloadsTyped
<1>2. ShownTyped
  BY DEF Init, ShownTyped
<1>3. BufferTyped
  BY DEF Init, BufferTyped
<1>4. HistoryTyped /\ BoundsTyped
  BY DEF Init, HistoryTyped, BoundsTyped
<1>5. Placed
  BY DEF Init, Placed, Subscribed
<1> QED
  BY <1>1, <1>2, <1>3, <1>4, <1>5, Parts DEF TInv

\* The actions by name, with the parameters of ZoneChanges.
LEMMA Steps ==
    ASSUME [Next]_vars
    PROVE  \/ \E z \in Zones, s \in Statuses : ZoneChanges(z, s)
           \/ Logs \/ HouseChanges
           \/ LogsIn \/ ReadsZones \/ ReadsFlags \/ Subscribes \/ Settles
           \/ Receives \/ PollStarts \/ PollReplies \/ HandlesZone \/ HandlesLog \/ HandlesArea
           \/ Disarms \/ LoginFails \/ SessionEnds \/ Restarts \/ PollFails \/ AreaFails
           \/ UNCHANGED vars
BY DEF Next, Panel, Login, Listens

LEMMA NextPanel == PanelTyped /\ [Next]_vars => PanelTyped'
<1> SUFFICES ASSUME PanelTyped, [Next]_vars PROVE PanelTyped'
  OBVIOUS
<1> USE DEF PanelTyped, panel
<1>1. CASE \E z \in Zones, s \in Statuses : ZoneChanges(z, s)
  BY <1>1 DEF ZoneChanges
<1>2. CASE HouseChanges
  BY <1>2, HousesNamed DEF HouseChanges
<1>3. CASE Disarms
  BY <1>3, PayloadsNamed DEF Disarms
<1>4. CASE Logs \/ LogsIn \/ ReadsZones \/ ReadsFlags \/ Subscribes \/ Settles
  BY <1>4 DEF Logs, LogsIn, ReadsZones, ReadsFlags, Subscribes, Settles
<1>5. CASE Receives \/ PollStarts \/ PollReplies \/ HandlesZone \/ HandlesLog \/ HandlesArea
  BY <1>5 DEF Receives, PollStarts, PollReplies, HandlesZone, HandlesLog, HandlesArea
<1>6. CASE LoginFails \/ SessionEnds \/ Restarts \/ PollFails \/ AreaFails \/ UNCHANGED vars
  BY <1>6 DEF LoginFails, SessionEnds, Restarts, PollFails, AreaFails, vars
<1> QED
  BY <1>1, <1>2, <1>3, <1>4, <1>5, <1>6, Steps

LEMMA PushTyped ==
    ASSUME stream \in Seq(Pushes), NEW f \in Pushes, Push(f)
    PROVE  stream' \in Seq(Pushes) /\ (~Subscribed => stream' = stream)
BY Put DEF Push

LEMMA NextPlaces == TInv /\ [Next]_vars => PlacesTyped' /\ Placed'
<1> SUFFICES ASSUME TInv, [Next]_vars PROVE PlacesTyped' /\ Placed'
  OBVIOUS
<1>0. PlacesTyped /\ Placed /\ PanelTyped /\ HistoryTyped
  BY Parts DEF TInv
<1> USE DEF Placed, Subscribed, listen
<1>1. CASE \E z \in Zones, s \in Statuses : ZoneChanges(z, s)
  BY <1>0, <1>1, PushTyped, PushesNamed DEF ZoneChanges, PlacesTyped
<1>2. CASE Logs
  BY <1>0, <1>2, PushTyped, PushesNamed DEF Logs, PlacesTyped
<1>3. CASE HouseChanges
  <2>1. AreaPush(house') \in Pushes
    <3>1. house' \in Payloads
      BY <1>0, <1>3, HousesNamed DEF HouseChanges, PanelTyped
    <3> QED
      BY <1>0, <3>1, AreaPushed DEF HistoryTyped
  <2> QED
    BY <1>0, <1>3, <2>1, PushTyped DEF HouseChanges, PlacesTyped
<1>4. CASE Disarms
  <2>1. AreaPush(Disarmed) \in Pushes
    BY <1>0, AreaPushed, PayloadsNamed DEF HistoryTyped
  <2>2. stream' \in Seq(Pushes) /\ (~Subscribed => stream' = stream)
    BY <1>0, <1>4, <2>1, PushTyped DEF Disarms, PlacesTyped
  <2> QED
    BY <1>0, <1>4, <2>2 DEF Disarms, PlacesTyped
<1>5. CASE LogsIn \/ ReadsZones \/ ReadsFlags \/ Subscribes \/ Settles
  BY <1>0, <1>5 DEF LogsIn, ReadsZones, ReadsFlags, Subscribes, Settles, PlacesTyped
<1>6. CASE Receives
  <2>1. Head(stream) \in Pushes /\ Tail(stream) \in Seq(Pushes)
    BY <1>0, <1>6, Take DEF Receives, PlacesTyped
  <2> QED
    BY <1>0, <1>6, <2>1 DEF Receives, PlacesTyped
<1>7. CASE PollStarts \/ PollReplies \/ PollFails
  BY <1>0, <1>7 DEF PollStarts, PollReplies, PollFails, AfterPoll, PlacesTyped
<1>8. CASE HandlesZone \/ HandlesLog \/ HandlesArea \/ AreaFails
  BY <1>0, <1>8 DEF HandlesZone, HandlesLog, HandlesArea, AreaFails, Handled, InHand, PlacesTyped
<1>9. CASE LoginFails \/ SessionEnds \/ Restarts
  <2>1. CASE LoginFails
    BY <1>0, <2>1 DEF LoginFails, SessionGone, PlacesTyped
  <2>2. CASE SessionEnds \/ Restarts
    <3>1. pc' = "down" /\ stream' = <<>> /\ frame' = <<>>
      BY <2>2 DEF SessionEnds, Restarts, SessionGone
    <3> QED
      BY <3>1 DEF PlacesTyped
  <2> QED
    BY <1>9, <2>1, <2>2
<1>10. CASE UNCHANGED vars
  BY <1>0, <1>10 DEF vars, PlacesTyped
<1> QED
  BY <1>1, <1>2, <1>3, <1>4, <1>5, <1>6, <1>7, <1>8, <1>9, <1>10, Steps

LEMMA PollReadTyped ==
    TInv => FlagsViews(house) \subseteq MaybePayload
BY Parts, HousesNamed, PayloadsNamed DEF TInv, PanelTyped

LEMMA NextPayloads == TInv /\ [Next]_vars => PayloadsTyped'
<1> SUFFICES ASSUME TInv, [Next]_vars PROVE PayloadsTyped'
  OBVIOUS
<1>0. PayloadsTyped /\ PlacesTyped /\ Placed /\ PanelTyped
  BY Parts DEF TInv
<1> USE DEF PayloadsTyped, listen
<1>1. CASE (\E z \in Zones, s \in Statuses : ZoneChanges(z, s)) \/ Logs \/ HouseChanges
  BY <1>0, <1>1 DEF ZoneChanges, Logs, HouseChanges
<1>2. CASE LogsIn \/ ReadsZones \/ Subscribes
  BY <1>0, <1>2 DEF LogsIn, ReadsZones, Subscribes
<1>3. CASE ReadsFlags
  BY <1>0, <1>3, PollReadTyped DEF ReadsFlags
<1>4. CASE Settles
  BY <1>0, <1>4 DEF Settles, Stores
<1>5. CASE Receives \/ PollStarts \/ PollFails \/ HandlesZone \/ HandlesLog \/ AreaFails
  BY <1>0, <1>5 DEF Receives, PollStarts, PollFails, HandlesZone, HandlesLog, AreaFails
<1>6. CASE PollReplies
  BY <1>0, <1>6, PollReadTyped DEF PollReplies, Stores
<1>7. CASE HandlesArea
  <2>1. frame[1] \in Pushes /\ frame[1].kind = "area"
    BY <1>0, <1>7 DEF HandlesArea, InHand, PlacesTyped, Placed
  <2>2. frame[1].payload \in Payloads
    BY <2>1 DEF Pushes, LogPush
  <2> QED
    BY <1>0, <1>7, <2>2, PayloadsNamed DEF HandlesArea, Stores
<1>8. CASE Disarms
  <2>1. \A seen \in {Disarmed} \cup FlagsViews(house) : CoerceAfterDisarm(seen) \in MaybePayload
    BY <1>0, HousesNamed, PayloadsNamed DEF PanelTyped
  <2> QED
    BY <1>0, <1>8, <2>1, PayloadsNamed DEF Disarms
<1>9. CASE LoginFails \/ SessionEnds \/ Restarts \/ UNCHANGED vars
  BY <1>0, <1>9, PayloadsNamed DEF LoginFails, SessionEnds, Restarts, vars
<1> QED
  BY <1>1, <1>2, <1>3, <1>4, <1>5, <1>6, <1>7, <1>8, <1>9, Steps

LEMMA NextShown == TInv /\ [Next]_vars => ShownTyped'
<1> SUFFICES ASSUME TInv, [Next]_vars PROVE ShownTyped'
  OBVIOUS
<1>0. ShownTyped /\ PlacesTyped /\ Placed
  BY Parts DEF TInv
<1> USE DEF ShownTyped
<1>1. CASE \E z \in Zones, s \in Statuses : ZoneChanges(z, s)
  BY <1>0, <1>1 DEF ZoneChanges
<1>2. CASE ReadsZones
  BY <1>0, <1>2 DEF ReadsZones, SnapshotShown, Reading
<1>3. CASE LoginFails
  BY <1>0, <1>3 DEF LoginFails, SnapshotShown, Reading, SessionGone
<1>4. CASE HandlesZone
  BY <1>0, <1>4 DEF HandlesZone, Reading
<1>5. CASE Logs \/ HouseChanges \/ LogsIn \/ ReadsFlags \/ Subscribes
  BY <1>0, <1>5 DEF Logs, HouseChanges, LogsIn, ReadsFlags, Subscribes, history
<1>6. CASE Settles \/ Receives \/ PollStarts \/ PollReplies \/ HandlesLog \/ HandlesArea \/ Disarms
  BY <1>0, <1>6 DEF Settles, Receives, PollStarts, PollReplies, HandlesLog, HandlesArea, Disarms, history
<1>7. CASE SessionEnds \/ Restarts \/ PollFails \/ AreaFails \/ UNCHANGED vars
  BY <1>0, <1>7 DEF SessionEnds, Restarts, SessionGone, PollFails, AreaFails, vars, history
<1> QED
  BY <1>1, <1>2, <1>3, <1>4, <1>5, <1>6, <1>7, Steps

\* The deque keeps its length.
LEMMA Recorded ==
    ASSUME BufferTyped, NEW e \in Pushes, Record(e)
    PROVE  buf' \in Seq(Pushes) /\ Len(buf') <= BufferLen
<1>1. CASE Len(buf) = BufferLen
  <2>1. buf \in Seq(Pushes) /\ buf # <<>>
    BY <1>1 DEF BufferTyped
  <2>2. Tail(buf) \in Seq(Pushes) /\ Len(Tail(buf)) = BufferLen - 1
    BY <1>1, <2>1, Take
  <2>3. buf' = Append(Tail(buf), e)
    BY <1>1 DEF Record
  <2> QED
    BY <2>2, <2>3, Put
<1>2. CASE Len(buf) # BufferLen
  <2>1. buf' = Append(buf, e) /\ buf \in Seq(Pushes) /\ Len(buf) <= BufferLen
    BY <1>2 DEF Record, BufferTyped
  <2> QED
    BY <1>2, <2>1, Put
<1> QED
  BY <1>1, <1>2

LEMMA InitiatingTyped == BufferTyped => InitiatingZone \in Zones \cup {NoZone}
<1> SUFFICES ASSUME BufferTyped, NEW i, Newest(i)
             PROVE  buf[CHOOSE j \in OpenEvents : Newest(j)].zone \in Zones
  BY DEF InitiatingZone
<1> DEFINE j == CHOOSE k \in OpenEvents : Newest(k)
<1>1. j \in OpenEvents
  BY DEF Newest
<1>2. buf[j] \in Pushes /\ buf[j].kind = "zone"
  BY <1>1 DEF OpenEvents, BufferTyped
<1> QED
  BY <1>2 DEF Pushes, LogPush

LEMMA SnapshotTyped ==
    ASSUME TInv, NEW previous, NEW new, SnapshotIfEntering(previous, new)
    PROVE  attrs' \in Zones \cup {NoZone} /\ taken' \in BOOLEAN /\ excused' \in BOOLEAN /\ faults' \in Nat
<1>0. BufferTyped /\ HistoryTyped /\ BoundsTyped
  BY Parts DEF TInv
<1>1. CASE Publishes
  BY <1>0, <1>1, InitiatingTyped DEF Publishes, HistoryTyped, BoundsTyped
<1>2. CASE FailsToPublish
  BY <1>0, <1>2 DEF FailsToPublish, Misfortune, BufferTyped, HistoryTyped, BoundsTyped
<1>3. CASE ~Enters(previous, new)
  <2>1. UNCHANGED <<attrs, faults>> /\ taken' \in BOOLEAN /\ excused' \in BOOLEAN
    BY <1>3, Zenon DEF SnapshotIfEntering
  <2> QED
    BY <1>0, <2>1 DEF BufferTyped, BoundsTyped
<1> QED
  BY <1>1, <1>2, <1>3 DEF SnapshotIfEntering

LEMMA FrameInHand ==
    ASSUME TInv, NEW k, InHand(k)
    PROVE  frame[1] \in Pushes /\ frame = <<frame[1]>>
BY Parts DEF TInv, PlacesTyped, Placed, InHand

LEMMA NextBuffer == TInv /\ [Next]_vars => BufferTyped'
<1> SUFFICES ASSUME TInv, [Next]_vars PROVE BufferTyped'
  OBVIOUS
<1>0. BufferTyped
  BY Parts DEF TInv
<1> USE DEF BufferTyped
<1>1. CASE Settles
  BY <1>0, <1>1, SnapshotTyped DEF Settles, Stores
<1>2. CASE PollReplies
  BY <1>0, <1>2, SnapshotTyped DEF PollReplies, Stores
<1>3. CASE HandlesArea
  BY <1>0, <1>3, SnapshotTyped DEF HandlesArea, Stores
<1>4. CASE HandlesZone \/ HandlesLog
  <2>1. Record(frame[1]) /\ frame[1] \in Pushes /\ attrs' = attrs
    BY <1>4, FrameInHand DEF HandlesZone, HandlesLog
  <2> QED
    BY <1>0, <2>1, Recorded
<1>5. CASE Restarts
  BY <1>0, <1>5 DEF Restarts
<1>6. CASE (\E z \in Zones, s \in Statuses : ZoneChanges(z, s)) \/ Logs \/ HouseChanges \/ Disarms
  BY <1>0, <1>6 DEF ZoneChanges, Logs, HouseChanges, Disarms
<1>7. CASE LogsIn \/ ReadsZones \/ ReadsFlags \/ Subscribes \/ Receives \/ PollStarts
  BY <1>0, <1>7 DEF LogsIn, ReadsZones, ReadsFlags, Subscribes, Receives, PollStarts
<1>8. CASE LoginFails \/ SessionEnds \/ PollFails \/ AreaFails \/ UNCHANGED vars
  BY <1>0, <1>8 DEF LoginFails, SessionEnds, PollFails, AreaFails, vars
<1> QED
  BY <1>1, <1>2, <1>3, <1>4, <1>5, <1>6, <1>7, <1>8, Steps

LEMMA NextHistory == TInv /\ [Next]_vars => HistoryTyped'
<1> SUFFICES ASSUME TInv, [Next]_vars PROVE HistoryTyped'
  OBVIOUS
<1>0. HistoryTyped /\ PayloadsTyped
  BY Parts DEF TInv
<1> USE DEF HistoryTyped
<1>1. CASE Settles
  <2>1. CASE prev = NoPayload
    <3>1. taken' = FALSE /\ excused' = (next = Triggered) /\ UNCHANGED <<opened, since, cause>>
      BY <1>1, <2>1 DEF Settles
    <3> QED
      BY <1>0, <3>1
  <2>2. CASE prev # NoPayload
    BY <1>0, <1>1, <2>2, SnapshotTyped DEF Settles, Stores
  <2> QED
    BY <2>1, <2>2
<1>2. CASE PollReplies
  BY <1>0, <1>2, SnapshotTyped DEF PollReplies, Stores
<1>3. CASE HandlesArea
  BY <1>0, <1>3, SnapshotTyped DEF HandlesArea, Stores
<1>4. CASE \E z \in Zones, s \in Statuses : ZoneChanges(z, s)
  BY <1>0, <1>4 DEF ZoneChanges
<1>5. CASE Logs
  BY <1>0, <1>5 DEF Logs
<1>6. CASE HouseChanges
  BY <1>0, <1>6 DEF HouseChanges
<1>7. CASE Disarms
  <2>1. taken' = (taken /\ payload' = Triggered) /\ excused' = TRUE /\ UNCHANGED <<opened, since, cause>>
    BY <1>7 DEF Disarms
  <2> QED
    BY <1>0, <2>1
<1>8. CASE LoginFails \/ SessionEnds \/ Restarts
  <2>1. cause' = NoZone /\ UNCHANGED <<opened, since, taken, excused>>
    BY <1>8 DEF LoginFails, SessionEnds, Restarts, SessionGone
  <2> QED
    BY <1>0, <2>1
<1>9. CASE Subscribes
  BY <1>0, <1>9 DEF Subscribes
<1>10. CASE LogsIn \/ ReadsZones \/ ReadsFlags \/ Receives \/ PollStarts \/ PollFails
  BY <1>0, <1>10 DEF LogsIn, ReadsZones, ReadsFlags, Receives, PollStarts, PollFails, history
<1>11. CASE HandlesZone \/ HandlesLog \/ AreaFails \/ UNCHANGED vars
  BY <1>0, <1>11 DEF HandlesZone, HandlesLog, AreaFails, history, vars
<1> QED
  BY <1>1, <1>2, <1>3, <1>4, <1>5, <1>6, <1>7, <1>8, <1>9, <1>10, <1>11, Steps

LEMMA NextBounds == TInv /\ [Next]_vars => BoundsTyped'
<1> SUFFICES ASSUME TInv, [Next]_vars PROVE BoundsTyped'
  OBVIOUS
<1>0. BoundsTyped
  BY Parts DEF TInv
<1> USE DEF BoundsTyped, Happens, Misfortune, bounds
<1>1. CASE Settles
  BY <1>0, <1>1 DEF Settles
<1>2. CASE PollReplies
  BY <1>0, <1>2, SnapshotTyped DEF PollReplies, Stores
<1>3. CASE HandlesArea
  BY <1>0, <1>3, SnapshotTyped DEF HandlesArea, Stores
<1>4. CASE (\E z \in Zones, s \in Statuses : ZoneChanges(z, s)) \/ Logs \/ HouseChanges \/ Disarms
  BY <1>0, <1>4 DEF ZoneChanges, Logs, HouseChanges, Disarms
<1>5. CASE LogsIn \/ ReadsZones \/ ReadsFlags \/ Subscribes \/ Receives \/ PollStarts \/ PollFails
  BY <1>0, <1>5 DEF LogsIn, ReadsZones, ReadsFlags, Subscribes, Receives, PollStarts, PollFails
<1>6. CASE HandlesZone \/ HandlesLog \/ AreaFails
  BY <1>0, <1>6 DEF HandlesZone, HandlesLog, AreaFails
<1>7. CASE LoginFails \/ SessionEnds \/ Restarts \/ UNCHANGED vars
  BY <1>0, <1>7 DEF LoginFails, SessionEnds, Restarts, vars
<1> QED
  BY <1>1, <1>2, <1>3, <1>4, <1>5, <1>6, <1>7, Steps

LEMMA NextTyped == TInv /\ [Next]_vars => TInv'
<1> SUFFICES ASSUME TInv, [Next]_vars PROVE TInv'
  OBVIOUS
<1>1. PanelTyped' /\ PlacesTyped' /\ Placed' /\ PayloadsTyped'
  BY NextPanel, NextPlaces, NextPayloads, Parts DEF TInv
<1>2. ShownTyped' /\ BufferTyped' /\ HistoryTyped' /\ BoundsTyped'
  BY NextShown, NextBuffer, NextHistory, NextBounds
<1>3. TypeOK'
  BY <1>1, <1>2 DEF TypeOK, PanelTyped, PlacesTyped, PayloadsTyped, ShownTyped, BufferTyped, HistoryTyped,
                    BoundsTyped
<1> QED
  BY <1>1, <1>3 DEF TInv

\* Types, and where a frame can be in hand or on its way.
THEOREM Typed == Spec => []TInv
<1>1. Init => TInv
  BY InitTyped
<1>2. TInv /\ [Next]_vars => TInv'
  BY NextTyped
<1> QED
  BY <1>1, <1>2, PTL DEF Spec

\* Every variable keeps its type, the buffer never outgrows its length, and
\* what InitiatingZone makes of it is a zone of the panel or none: nothing but
\* the bounds' assumptions is used.
THEOREM ZonesTyped == Spec => []TypeOK
<1>1. TInv => TypeOK
  BY DEF TInv
<1> QED
  BY <1>1, Typed, PTL

-----------------------------------------------------------------------------
(* No way into triggered without its attributes *)

\* A payload carried over a lost session has its attributes too.
EntryInv ==
    /\ EntryHasSnapshot
    /\ (pc \in LoginPcs \cup {"down"} /\ prev = Triggered) => taken \/ excused

\* What a store leaves behind.
LEMMA StoredWithSnapshot ==
    ASSUME TInv, NEW previous, NEW new, Stores(previous, new),
           previous = Triggered /\ new = Triggered => taken \/ excused
    PROVE  EntryHasSnapshot'
<1>0. taken \in BOOLEAN /\ excused \in BOOLEAN
  BY Parts DEF TInv, HistoryTyped
<1>1. CASE Enters(previous, new)
  BY <1>1 DEF Stores, SnapshotIfEntering, Publishes, FailsToPublish, EntryHasSnapshot
<1>2. CASE ~Enters(previous, new) /\ new = Triggered
  <2>1. previous = Triggered
    BY <1>2 DEF Enters
  <2>2. taken' = taken /\ excused' = excused
    BY <1>0, <1>2 DEF Stores, SnapshotIfEntering
  <2> QED
    BY <1>2, <2>1, <2>2 DEF EntryHasSnapshot
<1>3. CASE new # Triggered
  BY <1>3 DEF Stores, EntryHasSnapshot
<1> QED
  BY <1>1, <1>2, <1>3

LEMMA NextEntry == TInv /\ EntryInv /\ [Next]_vars => EntryInv'
<1> SUFFICES ASSUME TInv, EntryInv, [Next]_vars PROVE EntryInv'
  OBVIOUS
<1> USE DEF LoginPcs
<1>1. CASE Settles
  <2>1. pc' = "idle"
    BY <1>1 DEF Settles
  <2>2. CASE prev = NoPayload
    BY <1>1, <2>1, <2>2 DEF Settles, EntryInv, EntryHasSnapshot
  <2>3. CASE prev # NoPayload
    <3>1. Stores(prev, next) /\ pc = "settle"
      BY <1>1, <2>3 DEF Settles
    <3> QED
      BY <2>1, <3>1, StoredWithSnapshot DEF EntryInv
  <2> QED
    BY <2>2, <2>3
<1>2. CASE PollReplies
  <2>1. pc' \notin LoginPcs \cup {"down"}
    BY <1>2 DEF PollReplies, AfterPoll
  <2>2. PICK decoded \in FlagsViews(house) :
            IF PollMayReplace(prev, decoded) THEN Stores(prev, decoded)
            ELSE UNCHANGED <<payload, attrs, taken, excused, faults>>
    BY <1>2 DEF PollReplies
  <2>3. CASE PollMayReplace(prev, decoded)
    <3>1. decoded # prev
      BY <2>3 DEF PollMayReplace, MayReplaceLive
    <3> QED
      BY <2>1, <2>2, <2>3, <3>1, StoredWithSnapshot DEF EntryInv
  <2>4. CASE ~PollMayReplace(prev, decoded)
    BY <2>1, <2>2, <2>4 DEF EntryInv, EntryHasSnapshot
  <2> QED
    BY <2>3, <2>4
<1>3. CASE HandlesArea
  <2>1. pc' = "idle" /\ Stores(payload, frame[1].payload)
    BY <1>3 DEF HandlesArea, Handled
  <2> QED
    BY <2>1, StoredWithSnapshot DEF EntryInv, EntryHasSnapshot
<1>4. CASE Disarms
  BY <1>4 DEF Disarms, EntryInv, EntryHasSnapshot
<1>5. CASE SessionEnds
  BY <1>5 DEF SessionEnds, SessionGone, EntryInv, EntryHasSnapshot
<1>6. CASE Restarts
  BY <1>6, PayloadsNamed DEF Restarts, EntryInv, EntryHasSnapshot
<1>7. CASE LoginFails
  BY <1>7 DEF LoginFails, SessionGone, EntryInv, EntryHasSnapshot
<1>8. CASE (\E z \in Zones, s \in Statuses : ZoneChanges(z, s)) \/ Logs \/ HouseChanges
  BY <1>8 DEF ZoneChanges, Logs, HouseChanges, listen, EntryInv, EntryHasSnapshot
<1>9. CASE LogsIn \/ ReadsZones \/ ReadsFlags \/ Subscribes
  BY <1>9 DEF LogsIn, ReadsZones, ReadsFlags, Subscribes, history, EntryInv, EntryHasSnapshot
<1>10. CASE Receives \/ PollStarts \/ PollFails
  BY <1>10 DEF Receives, PollStarts, PollFails, AfterPoll, history, EntryInv, EntryHasSnapshot
<1>11. CASE HandlesZone \/ HandlesLog \/ AreaFails
  BY <1>11 DEF HandlesZone, HandlesLog, AreaFails, Handled, history, EntryInv, EntryHasSnapshot
<1>12. CASE UNCHANGED vars
  BY <1>12 DEF vars, listen, history, EntryInv, EntryHasSnapshot
<1> QED
  BY <1>1, <1>2, <1>3, <1>4, <1>5, <1>6, <1>7, <1>8, <1>9, <1>10, <1>11, <1>12, Steps

\* Whichever of the three ways (push, poll, re-login) brings the alarm entity
\* into triggered, its attributes were published, but for the cases the model
\* excuses: the alarm of a start-up, a publish that failed, and the flags read
\* of a disarm.
THEOREM EntrySnapshotTaken == Spec => []EntryHasSnapshot
<1>1. Init => EntryInv
  BY PayloadsNamed DEF Init, EntryInv, EntryHasSnapshot
<1>2. TInv /\ EntryInv /\ [Next]_vars => EntryInv'
  BY NextEntry
<1>3. EntryInv => EntryHasSnapshot
  BY DEF EntryInv
<1> QED
  BY <1>1, <1>2, <1>3, Typed, PTL DEF Spec

-----------------------------------------------------------------------------
(* What is shown of the zones *)

ShownInv ==
    /\ ZonesShown
    /\ pc \in {"flags", "subscribe"} => \A z \in InUse \ missed : shown[z] = Reading(zone[z])

\* A push at the end of the stream is the last word about its zone and
\* changes nothing for another.
LEMMA PushedLast ==
    ASSUME stream \in Seq(Pushes), NEW f \in Pushes, stream' = Append(stream, f), NEW z, OfZone(z, f)
    PROVE  StillComing(z)' /\ LastComing(z, f.status)'
<1>1. /\ Len(stream') = Len(stream) + 1 /\ Len(stream) \in Nat
      /\ stream'[Len(stream) + 1] = f
  BY Put
<1> QED
  BY <1>1 DEF StillComing, LastComing, OfZone

LEMMA PushedOther ==
    ASSUME stream \in Seq(Pushes), NEW f \in Pushes, stream' = Append(stream, f), NEW z, ~OfZone(z, f)
    PROVE  /\ StillComing(z)' <=> StillComing(z)
           /\ \A s : LastComing(z, s) => LastComing(z, s)'
<1>1. /\ Len(stream') = Len(stream) + 1 /\ Len(stream) \in Nat
      /\ \A i \in 1..(Len(stream) + 1) : stream'[i] = IF i = Len(stream) + 1 THEN f ELSE stream[i]
  BY Put
<1>2. StillComing(z)' <=> StillComing(z)
  BY <1>1 DEF StillComing, OfZone
<1>3. ASSUME NEW s, LastComing(z, s) PROVE LastComing(z, s)'
  <2>1. PICK i \in 1..Len(stream) :
            /\ OfZone(z, stream[i]) /\ stream[i].status = s
            /\ \A j \in (i + 1)..Len(stream) : ~OfZone(z, stream[j])
    BY <1>3 DEF LastComing
  <2>2. stream'[i] = stream[i] /\ i \in 1..Len(stream')
    BY <1>1
  <2>3. \A j \in (i + 1)..Len(stream') : ~OfZone(z, stream'[j])
    BY <1>1, <2>1
  <2> QED
    BY <2>1, <2>2, <2>3 DEF LastComing, OfZone
<1> QED
  BY <1>2, <1>3

\* Taking the head leaves the last word where it is, unless it was the head.
LEMMA TakenFirst ==
    ASSUME stream \in Seq(Pushes), stream # <<>>, stream' = Tail(stream), NEW z, NEW s,
           StillComing(z) => LastComing(z, s)
    PROVE  /\ StillComing(z)' => LastComing(z, s)'
           /\ ~StillComing(z)' /\ StillComing(z) => OfZone(z, stream[1]) /\ stream[1].status = s
           /\ OfZone(z, stream[1]) => StillComing(z)
<1>1. /\ Len(stream) \in Nat \ {0} /\ Len(stream') = Len(stream) - 1
      /\ \A i \in 1..Len(stream') : stream'[i] = stream[i + 1] /\ i + 1 \in 1..Len(stream)
  BY Take
<1>2. StillComing(z)' => StillComing(z)
  BY <1>1 DEF StillComing
<1>3. ASSUME StillComing(z)' PROVE LastComing(z, s)'
  <2>1. PICK i \in 1..Len(stream) :
            /\ OfZone(z, stream[i]) /\ stream[i].status = s
            /\ \A j \in (i + 1)..Len(stream) : ~OfZone(z, stream[j])
    BY <1>2, <1>3 DEF LastComing
  <2>2. PICK k \in 1..Len(stream') : OfZone(z, stream[k + 1]) /\ k + 1 \in 1..Len(stream)
    BY <1>1, <1>3 DEF StillComing, OfZone
  <2>3. i - 1 \in 1..Len(stream') /\ stream'[i - 1] = stream[i]
    BY <1>1, <2>1, <2>2
  <2>4. \A j \in ((i - 1) + 1)..Len(stream') : ~OfZone(z, stream'[j])
    BY <1>1, <2>1
  <2> QED
    BY <2>1, <2>3, <2>4 DEF LastComing, OfZone
<1>4. ASSUME ~StillComing(z)', StillComing(z)
      PROVE  OfZone(z, stream[1]) /\ stream[1].status = s
  <2>1. PICK i \in 1..Len(stream) : OfZone(z, stream[i]) /\ stream[i].status = s
    BY <1>4 DEF LastComing
  <2>2. i # 1 => i - 1 \in 1..Len(stream') /\ stream'[i - 1] = stream[i]
    BY <1>1
  <2>3. i = 1
    BY <1>4, <2>1, <2>2 DEF StillComing, OfZone
  <2> QED
    BY <2>1, <2>3
<1>5. OfZone(z, stream[1]) => StillComing(z)
  BY <1>1 DEF StillComing
<1> QED
  BY <1>3, <1>4, <1>5

LEMMA ShownStays ==
    ASSUME ShownInv, UNCHANGED <<zone, stream, shown, missed, frame>>, Subscribed' => Subscribed,
           pc' \in {"flags", "subscribe"} => pc \in {"flags", "subscribe"}
    PROVE  ShownInv'
BY DEF ShownInv, ZonesShown, StillComing, LastComing, OfZone

\* A push about no zone.
LEMMA ShownStaysPushed ==
    ASSUME TInv, ShownInv, NEW f \in Pushes, f.kind # "zone", Push(f) \/ UNCHANGED stream,
           UNCHANGED <<zone, shown, missed, frame, pc>>
    PROVE  ShownInv'
<1>0. stream \in Seq(Pushes)
  BY Parts DEF TInv, PlacesTyped
<1>1. CASE UNCHANGED stream
  BY <1>1, ShownStays DEF Subscribed
<1>2. CASE stream' = Append(stream, f)
  <2>1. \A z : /\ StillComing(z)' <=> StillComing(z)
               /\ \A s : LastComing(z, s) => LastComing(z, s)'
    BY <1>0, <1>2, PushedOther DEF OfZone
  <2> QED
    BY <2>1 DEF ShownInv, ZonesShown, Subscribed, OfZone
<1> QED
  BY <1>1, <1>2 DEF Push

LEMMA ChangeShown ==
    ASSUME TInv, ShownInv, NEW y \in Zones, NEW s \in Statuses, ZoneChanges(y, s)
    PROVE  ShownInv'
<1>0. /\ stream \in Seq(Pushes) /\ zone \in [Zones -> Statuses]
      /\ UNCHANGED <<pc, frame, shown>> /\ InUse \subseteq Zones
      /\ \A z \in Zones : zone'[z] = IF z = y THEN s ELSE zone[z]
  BY Parts DEF TInv, PlacesTyped, PanelTyped, ZoneChanges, listen
<1>1. CASE Subscribed
  <2>1. stream' = Append(stream, ZonePush(y, s)) /\ missed' = missed \ {y}
    BY <1>1 DEF ZoneChanges, Push
  <2>2. StillComing(y)' /\ LastComing(y, s)'
    <3>1. OfZone(y, ZonePush(y, s)) /\ ZonePush(y, s).status = s
      BY DEF OfZone, ZonePush
    <3> QED
      BY <1>0, <2>1, <3>1, PushedLast, PushesNamed
  <2>3. ASSUME NEW z \in InUse, z # y
        PROVE  /\ StillComing(z)' <=> StillComing(z)
               /\ LastComing(z, zone[z]) => LastComing(z, zone[z])'
    <3>1. ~OfZone(z, ZonePush(y, s))
      BY <2>3 DEF OfZone, ZonePush
    <3>2. zone'[z] = zone[z]
      BY <1>0, <2>3
    <3>3. /\ StillComing(z)' <=> StillComing(z)
          /\ \A t : LastComing(z, t) => LastComing(z, t)'
      BY <1>0, <2>1, <3>1, PushedOther, PushesNamed
    <3>4. PICK t : t = zone[z]
      OBVIOUS
    <3>5. LastComing(z, t) => LastComing(z, t)'
      BY <3>3
    <3>6. LastComing(z, zone[z]) => LastComing(z, zone[z])'
      BY <3>2, <3>4, <3>5 DEF LastComing, OfZone
    <3> QED
      BY <3>3, <3>6
  <2>4. ASSUME NEW z \in InUse \ missed', z # y
        PROVE  IF StillComing(z)' THEN LastComing(z, zone[z])'
               ELSE IF frame' # <<>> /\ OfZone(z, frame'[1])
                    THEN frame'[1].status = zone'[z]
                    ELSE shown'[z] = Reading(zone'[z])
    <3>1. z \in InUse \ missed
      BY <2>1, <2>4
    <3> QED
      BY <1>0, <1>1, <2>3, <2>4, <3>1 DEF ShownInv, ZonesShown
  <2>5. zone'[y] = s
    BY <1>0
  <2>6. LastComing(y, zone[y])'
    BY <2>2, <2>5 DEF LastComing, OfZone
  <2> QED
    BY <1>0, <1>1, <2>2, <2>4, <2>6 DEF ShownInv, ZonesShown, Subscribed, OfZone
<1>2. CASE ~Subscribed
  BY <1>0, <1>2 DEF ShownInv, ZonesShown, Subscribed, ZoneChanges
<1> QED
  BY <1>1, <1>2

LEMMA ReceivedShown == TInv /\ ShownInv /\ Receives => ShownInv'
<1> SUFFICES ASSUME TInv, ShownInv, Receives PROVE ShownInv'
  OBVIOUS
<1>0. /\ stream \in Seq(Pushes) /\ stream # <<>> /\ stream' = Tail(stream)
      /\ frame = <<>> /\ frame' = <<stream[1]>> /\ Subscribed /\ pc' = "frame"
      /\ UNCHANGED <<zone, shown, missed>>
  BY Parts, Take DEF TInv, PlacesTyped, Placed, Receives, Subscribed, panel, history
<1>1. ASSUME NEW z \in InUse \ missed'
      PROVE  IF StillComing(z)' THEN LastComing(z, zone[z])'
             ELSE IF frame' # <<>> /\ OfZone(z, frame'[1])
                  THEN frame'[1].status = zone'[z]
                  ELSE shown'[z] = Reading(zone'[z])
  <2>1. /\ StillComing(z) => LastComing(z, zone[z])
        /\ ~StillComing(z) => shown[z] = Reading(zone[z])
    BY <1>0, <1>1 DEF ShownInv, ZonesShown
  <2>2. /\ StillComing(z)' => LastComing(z, zone[z])'
        /\ ~StillComing(z)' /\ StillComing(z) => OfZone(z, stream[1]) /\ stream[1].status = zone[z]
        /\ OfZone(z, stream[1]) => StillComing(z)
    <3>1. PICK s : s = zone[z]
      OBVIOUS
    <3>2. StillComing(z) => LastComing(z, s)
      BY <2>1, <3>1 DEF LastComing, OfZone
    <3>3. /\ StillComing(z)' => LastComing(z, s)'
          /\ ~StillComing(z)' /\ StillComing(z) => OfZone(z, stream[1]) /\ stream[1].status = s
          /\ OfZone(z, stream[1]) => StillComing(z)
      BY <1>0, <3>2, TakenFirst
    <3>4. LastComing(z, s)' => LastComing(z, zone[z])'
      BY <1>0, <3>1 DEF LastComing, OfZone
    <3> QED
      BY <3>1, <3>3, <3>4
  <2>3. frame'[1] = stream[1] /\ frame' # <<>>
    BY <1>0
  <2> QED
    BY <1>0, <2>1, <2>2, <2>3
<1> QED
  BY <1>0, <1>1 DEF ShownInv, ZonesShown, Subscribed, OfZone

LEMMA HandledShown == TInv /\ ShownInv /\ HandlesZone => ShownInv'
<1> SUFFICES ASSUME TInv, ShownInv, HandlesZone PROVE ShownInv'
  OBVIOUS
<1> DEFINE f == frame[1]
<1>0. /\ f.kind = "zone" /\ frame # <<>> /\ Subscribed
      /\ pc' = "idle" /\ frame' = <<>> /\ UNCHANGED <<zone, stream>>
  BY Parts DEF TInv, Placed, HandlesZone, Handled, InHand, Subscribed, panel
<1>1. /\ \A z : StillComing(z)' <=> StillComing(z)
      /\ \A z : LastComing(z, zone[z]) => LastComing(z, zone[z])'
  BY <1>0 DEF StillComing, LastComing, OfZone
<1>2. ASSUME NEW z \in InUse \ missed' PROVE ~StillComing(z) => shown'[z] = Reading(zone[z])
  <2>1. CASE /\ shown' = [w \in InUse |-> IF w = f.zone THEN Reading(f.status) ELSE shown[w]]
             /\ missed' = missed
    BY <1>0, <1>2, <2>1 DEF ShownInv, ZonesShown, OfZone
  <2>2. CASE /\ missed' = IF StillComing(f.zone) THEN missed ELSE missed \cup {f.zone}
             /\ shown' = shown
    BY <1>0, <1>2, <2>2 DEF ShownInv, ZonesShown, OfZone
  <2> QED
    BY <2>1, <2>2 DEF HandlesZone
<1>3. ASSUME NEW z \in InUse \ missed' PROVE StillComing(z) => LastComing(z, zone[z])'
  <2>1. z \in InUse \ missed
    BY <1>3 DEF HandlesZone
  <2> QED
    BY <1>0, <1>1, <2>1 DEF ShownInv, ZonesShown
<1> QED
  BY <1>0, <1>1, <1>2, <1>3 DEF ShownInv, ZonesShown, Subscribed, OfZone

LEMMA NextZones == TInv /\ ShownInv /\ [Next]_vars => ShownInv'
<1> SUFFICES ASSUME TInv, ShownInv, [Next]_vars PROVE ShownInv'
  OBVIOUS
<1>0. Placed /\ PlacesTyped /\ HistoryTyped /\ PanelTyped
  BY Parts DEF TInv
<1>1. CASE \E z \in Zones, s \in Statuses : ZoneChanges(z, s)
  BY <1>1, ChangeShown
<1>2. CASE Logs
  <2>1. LogPush \in Pushes /\ LogPush.kind # "zone"
    BY PushesNamed DEF LogPush
  <2> QED
    BY <1>2, <2>1, ShownStaysPushed DEF Logs, panel, listen
<1>3. CASE HouseChanges
  <2>1. AreaPush(house') \in Pushes
    <3>1. house' \in Payloads
      BY <1>0, <1>3, HousesNamed DEF HouseChanges, PanelTyped
    <3> QED
      BY <1>0, <3>1, AreaPushed DEF HistoryTyped
  <2>2. AreaPush(house').kind # "zone"
    BY DEF AreaPush
  <2> QED
    BY <1>3, <2>1, <2>2, ShownStaysPushed DEF HouseChanges, listen
<1>4. CASE Disarms
  <2>1. AreaPush(Disarmed) \in Pushes /\ AreaPush(Disarmed).kind # "zone"
    BY <1>0, AreaPushed, PayloadsNamed DEF HistoryTyped, AreaPush
  <2> QED
    BY <1>4, <2>1, ShownStaysPushed DEF Disarms, listen
<1>5. CASE Receives
  BY <1>5, ReceivedShown
<1>6. CASE HandlesZone
  BY <1>6, HandledShown
<1>7. CASE HandlesLog \/ HandlesArea \/ AreaFails
  <2>1. /\ frame # <<>> /\ frame[1].kind # "zone" /\ Subscribed /\ pc' = "idle" /\ frame' = <<>>
        /\ UNCHANGED <<zone, stream, shown, missed>>
    BY <1>0, <1>7 DEF HandlesLog, HandlesArea, AreaFails, Handled, InHand, Placed, Subscribed, panel, history
  <2> QED
    BY <2>1 DEF ShownInv, ZonesShown, StillComing, LastComing, OfZone, Subscribed
<1>8. CASE ReadsZones
  BY <1>8 DEF ReadsZones, SnapshotShown, ShownInv, ZonesShown, Subscribed, panel
<1>9. CASE Subscribes
  <2>1. /\ stream = <<>> /\ frame = <<>> /\ pc = "subscribe" /\ pc' = "settle"
        /\ UNCHANGED <<zone, stream, frame, shown, missed>>
    BY <1>0, <1>9 DEF Subscribes, Placed, Subscribed, panel
  <2>2. \A z : ~StillComing(z)'
    BY <2>1 DEF StillComing
  <2> QED
    BY <2>1, <2>2 DEF ShownInv, ZonesShown
<1>10. CASE LoginFails \/ SessionEnds \/ Restarts
  <2>1. pc' = "down"
    BY <1>10 DEF LoginFails, SessionEnds, Restarts, SessionGone
  <2> QED
    BY <2>1 DEF ShownInv, ZonesShown, Subscribed
<1>11. CASE LogsIn \/ ReadsFlags \/ Settles
  BY <1>11, ShownStays DEF LogsIn, ReadsFlags, Settles, Subscribed, panel, history
<1>12. CASE PollStarts \/ PollReplies \/ PollFails
  BY <1>12, ShownStays DEF PollStarts, PollReplies, PollFails, AfterPoll, Subscribed, panel, history
<1>13. CASE UNCHANGED vars
  BY <1>13, ShownStays DEF vars, panel, listen, history, Subscribed
<1> QED
  BY <1>1, <1>2, <1>3, <1>4, <1>5, <1>6, <1>7, <1>8, <1>9, <1>10, <1>11, <1>12, <1>13, Steps

\* What Home Assistant shows of a zone in use is what the panel has, or what
\* the last push on its way says, whatever the order of pushes, polls, failed
\* publishes, lost sessions and restarts.  The zones in missed (changed between
\* the snapshot and the subscription, or a publish that failed) are the only
\* exceptions.
THEOREM ZonesAsPanel == Spec => []ZonesShown
<1>1. Init => ShownInv
  BY DEF Init, ShownInv, ZonesShown, Subscribed
<1>2. TInv /\ ShownInv /\ [Next]_vars => ShownInv'
  BY NextZones
<1>3. ShownInv => ZonesShown
  BY DEF ShownInv
<1> QED
  BY <1>1, <1>2, <1>3, Typed, PTL DEF Spec

-----------------------------------------------------------------------------
(* The zone a snapshot names *)

\* taken is about the alarm that is shown; a restart leaves it behind until
\* the start-up settles.
TakenInv == taken => payload = Triggered \/ (pc \in LoginPcs \cup {"down"} /\ prev = NoPayload)

LEMMA StoredTaken ==
    ASSUME NEW previous, NEW new, Stores(previous, new), taken'
    PROVE  payload' = Triggered
BY DEF Stores, SnapshotIfEntering, Enters

LEMMA NextTaken == TInv /\ TakenInv /\ [Next]_vars => TakenInv'
<1> SUFFICES ASSUME TInv, TakenInv, [Next]_vars, taken' PROVE TakenInv'
  BY DEF TakenInv
<1> USE DEF LoginPcs
<1>1. CASE Settles
  BY <1>1, StoredTaken DEF Settles, TakenInv
<1>2. CASE PollReplies
  <2>1. pc = "poll"
    BY <1>2 DEF PollReplies
  <2> QED
    BY <1>2, <2>1, StoredTaken DEF PollReplies, TakenInv
<1>3. CASE HandlesArea
  BY <1>3, StoredTaken DEF HandlesArea, TakenInv
<1>4. CASE Disarms
  BY <1>4 DEF Disarms, TakenInv
<1>5. CASE SessionEnds
  BY <1>5 DEF SessionEnds, SessionGone, TakenInv
<1>6. CASE Restarts
  BY <1>6 DEF Restarts, SessionGone, TakenInv
<1>7. CASE LoginFails
  BY <1>7 DEF LoginFails, SessionGone, TakenInv
<1>8. CASE (\E z \in Zones, s \in Statuses : ZoneChanges(z, s)) \/ Logs \/ HouseChanges
  BY <1>8 DEF ZoneChanges, Logs, HouseChanges, listen, TakenInv
<1>9. CASE LogsIn \/ ReadsZones \/ ReadsFlags \/ Subscribes
  BY <1>9 DEF LogsIn, ReadsZones, ReadsFlags, Subscribes, history, TakenInv
<1>10. CASE Receives \/ PollStarts \/ PollFails
  BY <1>10 DEF Receives, PollStarts, PollFails, history, TakenInv
<1>11. CASE HandlesZone \/ HandlesLog \/ AreaFails
  BY <1>11 DEF HandlesZone, HandlesLog, AreaFails, InHand, history, TakenInv
<1>12. CASE UNCHANGED vars
  BY <1>12 DEF vars, listen, history, TakenInv
<1> QED
  BY <1>1, <1>2, <1>3, <1>4, <1>5, <1>6, <1>7, <1>8, <1>9, <1>10, <1>11, <1>12, Steps

Opens(e) == e.kind = "zone" /\ ~Secure(e.status)

\* The buffer's last open zone is z, n events ago, or too long ago for it.
Knows(z, n) ==
    IF n < BufferLen
    THEN /\ n < Len(buf)
         /\ Opens(buf[Len(buf) - n]) /\ buf[Len(buf) - n].zone = z
         /\ \A i \in 0..(n - 1) : ~Opens(buf[Len(buf) - i])
    ELSE \A i \in 0..(Len(buf) - 1) : ~Opens(buf[Len(buf) - i])

\* The deque, counted from its end.
LEMMA FromTheEnd ==
    ASSUME BufferTyped, NEW e \in Pushes, Record(e)
    PROVE  /\ Len(buf) \in Nat /\ Len(buf') \in Nat /\ Len(buf') >= 1
           /\ Len(buf') = IF Len(buf) = BufferLen THEN BufferLen ELSE Len(buf) + 1
           /\ buf'[Len(buf')] = e
           /\ \A i \in 1..(Len(buf') - 1) : buf'[Len(buf') - i] = buf[Len(buf) - (i - 1)]
<1>0. buf \in Seq(Pushes) /\ Len(buf) \in Nat /\ Len(buf) <= BufferLen
  BY DEF BufferTyped
<1>1. CASE Len(buf) = BufferLen
  <2>1. buf # <<>> /\ buf' = Append(Tail(buf), e)
    BY <1>0, <1>1 DEF Record
  <2>2. /\ Tail(buf) \in Seq(Pushes) /\ Len(Tail(buf)) = BufferLen - 1
        /\ \A i \in 1..(BufferLen - 1) : Tail(buf)[i] = buf[i + 1]
    BY <1>0, <1>1, <2>1, Take
  <2>3. /\ Len(buf') = BufferLen /\ buf'[BufferLen] = e
        /\ \A i \in 1..(BufferLen - 1) : buf'[i] = buf[i + 1]
    BY <2>1, <2>2, Put
  <2>4. \A i \in 1..(BufferLen - 1) :
            BufferLen - i \in 1..(BufferLen - 1) /\ BufferLen - i + 1 = BufferLen - (i - 1)
    OBVIOUS
  <2> QED
    BY <1>0, <1>1, <2>3, <2>4
<1>2. CASE Len(buf) # BufferLen
  <2>1. buf' = Append(buf, e)
    BY <1>2 DEF Record
  <2>2. /\ Len(buf') = Len(buf) + 1 /\ buf'[Len(buf) + 1] = e
        /\ \A i \in 1..Len(buf) : buf'[i] = buf[i]
    BY <1>0, <2>1, Put
  <2>3. \A i \in 1..Len(buf) : Len(buf) + 1 - i \in 1..Len(buf) /\ Len(buf) + 1 - i = Len(buf) - (i - 1)
    BY <1>0
  <2> QED
    BY <1>0, <1>2, <2>2, <2>3
<1> QED
  BY <1>1, <1>2

LEMMA RecordsOpen ==
    ASSUME BufferTyped, NEW e \in Pushes, Record(e), Opens(e)
    PROVE  Knows(e.zone, 0)'
<1>1. Len(buf') \in Nat /\ Len(buf') >= 1 /\ buf'[Len(buf')] = e /\ 0 < BufferLen
  BY FromTheEnd
<1>2. buf'[Len(buf') - 0] = e /\ 0 < Len(buf')
  BY <1>1
<1>3. \A i \in 0..(0 - 1) : FALSE
  OBVIOUS
<1> QED
  BY <1>1, <1>2, <1>3 DEF Knows, Opens, Secure

LEMMA RecordsOther ==
    ASSUME BufferTyped, NEW e \in Pushes, Record(e), ~Opens(e), NEW z, NEW n \in Nat, Knows(z, n)
    PROVE  Knows(z, n + 1)'
<1> DEFINE l == Len(buf)
           m == Len(buf')
<1>1. /\ l \in Nat /\ m \in Nat /\ m >= 1 /\ m = (IF l = BufferLen THEN BufferLen ELSE l + 1)
      /\ buf'[m] = e /\ \A i \in 1..(m - 1) : buf'[m - i] = buf[l - (i - 1)]
  BY FromTheEnd
<1>2. l <= BufferLen
  BY DEF BufferTyped
<1> HIDE DEF l, m
<1>3. CASE n < BufferLen
  <2>1. /\ n < l /\ Opens(buf[l - n]) /\ buf[l - n].zone = z
        /\ \A i \in 0..(n - 1) : ~Opens(buf[l - i])
    BY <1>3 DEF Knows, l
  <2>2. CASE n + 1 < BufferLen
    <3>1. n + 1 < m /\ n + 1 \in 1..(m - 1) /\ (n + 1) - 1 = n
      BY <1>1, <1>2, <2>1, <2>2
    <3>2. buf'[m - (n + 1)] = buf[l - n]
      BY <1>1, <3>1
    <3>3. ASSUME NEW i \in 0..(n + 1 - 1) PROVE ~Opens(buf'[m - i])
      <4>1. CASE i = 0
        BY <1>1, <4>1
      <4>2. CASE i # 0
        <5>1. i \in 1..(m - 1) /\ i - 1 \in 0..(n - 1)
          BY <1>1, <3>1, <4>2
        <5> QED
          BY <1>1, <2>1, <5>1
      <4> QED
        BY <4>1, <4>2
    <3> QED
      BY <2>1, <2>2, <3>1, <3>2, <3>3 DEF Knows, Opens, Secure, m
  <2>3. CASE ~(n + 1 < BufferLen)
    <3>1. n = BufferLen - 1 /\ l = BufferLen /\ m = BufferLen
      BY <1>1, <1>2, <1>3, <2>1, <2>3
    <3>2. ASSUME NEW i \in 0..(m - 1) PROVE ~Opens(buf'[m - i])
      <4>1. CASE i = 0
        BY <1>1, <4>1
      <4>2. CASE i # 0
        <5>1. i \in 1..(m - 1) /\ i - 1 \in 0..(n - 1)
          BY <1>1, <3>1, <4>2
        <5> QED
          BY <1>1, <2>1, <5>1
      <4> QED
        BY <4>1, <4>2
    <3> QED
      BY <2>3, <3>2 DEF Knows, Opens, Secure, m
  <2> QED
    BY <2>2, <2>3
<1>4. CASE ~(n < BufferLen)
  <2>1. \A i \in 0..(l - 1) : ~Opens(buf[l - i])
    BY <1>4 DEF Knows, l
  <2>2. ASSUME NEW i \in 0..(m - 1) PROVE ~Opens(buf'[m - i])
    <3>1. CASE i = 0
      BY <1>1, <3>1
    <3>2. CASE i # 0
      <4>1. i \in 1..(m - 1) /\ i - 1 \in 0..(l - 1)
        BY <1>1, <1>2, <3>2
      <4> QED
        BY <1>1, <2>1, <4>1
    <3> QED
      BY <3>1, <3>2
  <2>3. ~(n + 1 < BufferLen)
    BY <1>4
  <2> QED
    BY <2>2, <2>3 DEF Knows, Opens, Secure, m
<1> QED
  BY <1>3, <1>4

\* What initiating_zone finds in it.
LEMMA FindsOpener ==
    ASSUME BufferTyped, NEW z, NEW n \in Nat, Knows(z, n)
    PROVE  InitiatingZone = IF n < BufferLen THEN z ELSE NoZone
<1>0. Len(buf) \in Nat
  BY DEF BufferTyped
<1>1. CASE n < BufferLen
  <2> DEFINE k == Len(buf) - n
  <2>1. /\ k \in 1..Len(buf) /\ Opens(buf[k]) /\ buf[k].zone = z
        /\ \A i \in 0..(n - 1) : ~Opens(buf[Len(buf) - i])
    BY <1>0, <1>1 DEF Knows
  <2>2. ASSUME NEW j \in 1..Len(buf), j > k PROVE ~Opens(buf[j])
    <3>1. Len(buf) - j \in 0..(n - 1) /\ Len(buf) - (Len(buf) - j) = j
      BY <1>0, <2>1, <2>2
    <3> QED
      BY <2>1, <3>1
  <2>3. k \in OpenEvents /\ \A j \in OpenEvents : j <= k /\ j \in Nat
    BY <1>0, <2>1, <2>2 DEF OpenEvents, Opens
  <2> HIDE DEF k
  <2>4. Newest(k)
    BY <2>3 DEF Newest
  <2>5. Newest(CHOOSE i \in OpenEvents : Newest(i))
    BY <2>3, <2>4
  <2>6. (CHOOSE i \in OpenEvents : Newest(i)) = k
    BY <2>3, <2>5 DEF Newest
  <2> QED
    BY <1>1, <2>1, <2>3, <2>4, <2>6 DEF InitiatingZone
<1>2. CASE ~(n < BufferLen)
  <2>1. \A i \in 0..(Len(buf) - 1) : ~Opens(buf[Len(buf) - i])
    BY <1>2 DEF Knows
  <2>2. ASSUME NEW j \in 1..Len(buf) PROVE ~Opens(buf[j])
    <3>1. Len(buf) - j \in 0..(Len(buf) - 1) /\ Len(buf) - (Len(buf) - j) = j
      BY <1>0
    <3> QED
      BY <2>1, <3>1
  <2>3. OpenEvents = {}
    BY <2>2 DEF OpenEvents, Opens
  <2> QED
    BY <1>2, <2>3 DEF InitiatingZone
<1> QED
  BY <1>1, <1>2

Openers == Zones \cup {NoZone}

\* What the push e makes of the zone z that opened n pushes ago.
Follows(e, z, n, z1, n1) ==
    /\ Opens(e) => z1 = e.zone /\ z1 # NoZone /\ n1 = 0
    /\ ~Opens(e) /\ e.kind # "area" => z1 = z /\ n1 = n + 1
    /\ e.kind = "area" => z1 = z /\ n1 = n /\ e.opener = z /\ (e.near <=> n < BufferLen)

\* The first l pushes of w lead from z, opened n pushes ago, to z1 and n1.
Leads(w, l, z, n, z1, n1) ==
    \E o \in [0..l -> Openers], m \in [0..l -> Nat] :
        /\ o[0] = z /\ m[0] = n /\ o[l] = z1 /\ m[l] = n1
        /\ \A k \in 1..l : Follows(w[k], o[k - 1], m[k - 1], o[k], m[k])

\* A session in which no zone opened yet claims nothing of the buffer.
Heard(z, n) == z \in Openers /\ n \in Nat /\ (z # NoZone => Knows(z, n))

\* Once the push in hand is handled, z opened n pushes ago.
Soon(z, n) ==
    IF frame = <<>> THEN Heard(z, n)
    ELSE \E z0, n0 : Heard(z0, n0) /\ Follows(frame[1], z0, n0, z, n)

\* From the buffer, by the pushes on the way, to the panel's last opener.
OpenerInv ==
    Subscribed => \E z \in Openers, n \in Nat :
        Soon(z, n) /\ Leads(stream, Len(stream), z, n, opened, since)

LEMMA LeadsOn ==
    ASSUME NEW l \in Nat, NEW w, NEW v, NEW z, NEW n, NEW z0, NEW n0, NEW z1 \in Openers, NEW n1 \in Nat,
           Leads(w, l, z, n, z0, n0), \A k \in 1..l : v[k] = w[k],
           Follows(v[l + 1], z0, n0, z1, n1)
    PROVE  Leads(v, l + 1, z, n, z1, n1)
<1>1. PICK o \in [0..l -> Openers], m \in [0..l -> Nat] :
          /\ o[0] = z /\ m[0] = n /\ o[l] = z0 /\ m[l] = n0
          /\ \A k \in 1..l : Follows(w[k], o[k - 1], m[k - 1], o[k], m[k])
  BY DEF Leads
<1> DEFINE o1 == [k \in 0..(l + 1) |-> IF k = l + 1 THEN z1 ELSE o[k]]
           m1 == [k \in 0..(l + 1) |-> IF k = l + 1 THEN n1 ELSE m[k]]
<1>2. o1 \in [0..(l + 1) -> Openers] /\ m1 \in [0..(l + 1) -> Nat]
  OBVIOUS
<1>3. /\ \A k \in 0..l : o1[k] = o[k] /\ m1[k] = m[k]
      /\ o1[l + 1] = z1 /\ m1[l + 1] = n1
  OBVIOUS
<1> HIDE DEF o1, m1
<1>4. ASSUME NEW k \in 1..(l + 1) PROVE Follows(v[k], o1[k - 1], m1[k - 1], o1[k], m1[k])
  <2>1. CASE k = l + 1
    <3>1. k - 1 = l /\ l \in 0..l
      BY <2>1
    <3> QED
      BY <1>1, <1>3, <2>1, <3>1
  <2>2. CASE k # l + 1
    <3>1. k \in 1..l /\ k \in 0..l /\ k - 1 \in 0..l
      BY <2>2
    <3> QED
      BY <1>1, <1>3, <3>1
  <2> QED
    BY <2>1, <2>2
<1>5. o1[0] = z /\ m1[0] = n
  <2>1. 0 \in 0..l
    OBVIOUS
  <2> QED
    BY <1>1, <1>3, <2>1
<1> QED
  BY <1>2, <1>3, <1>4, <1>5 DEF Leads

LEMMA LeadsFromSecond ==
    ASSUME NEW l \in Nat \ {0}, NEW w, NEW v, NEW z, NEW n, NEW z1, NEW n1,
           Leads(w, l, z, n, z1, n1), \A k \in 1..(l - 1) : v[k] = w[k + 1]
    PROVE  \E z0 \in Openers, n0 \in Nat : Follows(w[1], z, n, z0, n0) /\ Leads(v, l - 1, z0, n0, z1, n1)
<1>1. PICK o \in [0..l -> Openers], m \in [0..l -> Nat] :
          /\ o[0] = z /\ m[0] = n /\ o[l] = z1 /\ m[l] = n1
          /\ \A k \in 1..l : Follows(w[k], o[k - 1], m[k - 1], o[k], m[k])
  BY DEF Leads
<1> DEFINE o1 == [k \in 0..(l - 1) |-> o[k + 1]]
           m1 == [k \in 0..(l - 1) |-> m[k + 1]]
<1>2. o1 \in [0..(l - 1) -> Openers] /\ m1 \in [0..(l - 1) -> Nat]
  OBVIOUS
<1>3. \A k \in 0..(l - 1) : o1[k] = o[k + 1] /\ m1[k] = m[k + 1]
  OBVIOUS
<1> HIDE DEF o1, m1
<1>4. Follows(w[1], z, n, o[1], m[1]) /\ o[1] \in Openers /\ m[1] \in Nat
  <2>1. 1 \in 1..l /\ 1 \in 0..l /\ 1 - 1 = 0
    OBVIOUS
  <2>2. Follows(w[1], o[1 - 1], m[1 - 1], o[1], m[1])
    BY <1>1, <2>1
  <2> QED
    BY <1>1, <2>1, <2>2
<1>5. ASSUME NEW k \in 1..(l - 1) PROVE Follows(v[k], o1[k - 1], m1[k - 1], o1[k], m1[k])
  <2>1. /\ k + 1 \in 1..l /\ k \in 0..(l - 1) /\ k - 1 \in 0..(l - 1)
        /\ (k - 1) + 1 = k /\ (k + 1) - 1 = k
    OBVIOUS
  <2>2. o1[k - 1] = o[k] /\ m1[k - 1] = m[k] /\ o1[k] = o[k + 1] /\ m1[k] = m[k + 1]
    BY <1>3, <2>1
  <2>3. Follows(w[k + 1], o[(k + 1) - 1], m[(k + 1) - 1], o[k + 1], m[k + 1])
    BY <1>1, <2>1
  <2> QED
    BY <2>1, <2>2, <2>3
<1>6. o1[0] = o[1] /\ m1[0] = m[1] /\ o1[l - 1] = z1 /\ m1[l - 1] = n1
  <2>1. 0 \in 0..(l - 1) /\ 0 + 1 = 1 /\ l - 1 \in 0..(l - 1) /\ (l - 1) + 1 = l
    OBVIOUS
  <2>2. o1[0] = o[0 + 1] /\ m1[0] = m[0 + 1] /\ o1[l - 1] = o[(l - 1) + 1] /\ m1[l - 1] = m[(l - 1) + 1]
    BY <1>3, <2>1
  <2> QED
    BY <1>1, <2>1, <2>2
<1>7. Leads(v, l - 1, o[1], m[1], z1, n1)
  BY <1>2, <1>5, <1>6 DEF Leads
<1> QED
  BY <1>4, <1>7

LEMMA LeadsNowhere ==
    ASSUME NEW w, NEW z \in Openers, NEW n \in Nat
    PROVE  Leads(w, 0, z, n, z, n)
<1> DEFINE o == [k \in 0..0 |-> z]
           m == [k \in 0..0 |-> n]
<1>1. o \in [0..0 -> Openers] /\ m \in [0..0 -> Nat] /\ o[0] = z /\ m[0] = n
  OBVIOUS
<1>2. \A k \in 1..0 : FALSE
  OBVIOUS
<1> HIDE DEF o, m
<1> QED
  BY <1>1, <1>2 DEF Leads

\* What the invariant needs after a step.
LEMMA OpenerAfter ==
    ASSUME NEW z \in Openers, NEW n \in Nat,
           Soon(z, n)', Leads(stream', Len(stream'), z, n, opened', since')
    PROVE  OpenerInv'
<1>1. Leads(stream, Len(stream), z, n, opened, since)'
  BY DEF Leads, Openers, Follows, Opens, Secure
<1> QED
  BY <1>1 DEF OpenerInv, Openers

\* A push that is sent.
LEMMA SentOpener ==
    ASSUME TInv, OpenerInv, Subscribed, NEW e \in Pushes,
           stream' = Append(stream, e), UNCHANGED <<frame, buf>>,
           opened' \in Openers, since' \in Nat,
           Follows(e, opened, since, opened', since')
    PROVE  OpenerInv'
<1>1. PICK z \in Openers, n \in Nat : Soon(z, n) /\ Leads(stream, Len(stream), z, n, opened, since)
  BY DEF OpenerInv
<1>2. /\ Len(stream) \in Nat /\ Len(stream') = Len(stream) + 1
      /\ \A k \in 1..Len(stream) : stream'[k] = stream[k]
      /\ stream'[Len(stream) + 1] = e
  BY Parts, Put DEF TInv, PlacesTyped
<1>3. Leads(stream', Len(stream) + 1, z, n, opened', since')
  BY <1>1, <1>2, LeadsOn
<1>4. Soon(z, n)'
  BY <1>1 DEF Soon, Heard, Openers, Knows, Opens, Secure, Follows
<1> QED
  BY <1>2, <1>3, <1>4, OpenerAfter

\* Nothing of it moves.
LEMMA OpenerStays ==
    ASSUME OpenerInv, Subscribed' => Subscribed, UNCHANGED <<stream, frame, buf, opened, since>>
    PROVE  OpenerInv'
<1> SUFFICES ASSUME Subscribed PROVE OpenerInv'
  BY DEF OpenerInv
<1>1. PICK z \in Openers, n \in Nat : Soon(z, n) /\ Leads(stream, Len(stream), z, n, opened, since)
  BY DEF OpenerInv
<1>2. Soon(z, n)'
  BY <1>1 DEF Soon, Heard, Openers, Knows, Opens, Secure, Follows
<1>3. Leads(stream', Len(stream'), z, n, opened', since')
  BY <1>1
<1> QED
  BY <1>2, <1>3, OpenerAfter

LEMMA ReceivedOpener == TInv /\ OpenerInv /\ Receives => OpenerInv'
<1> SUFFICES ASSUME TInv, OpenerInv, Receives PROVE OpenerInv'
  OBVIOUS
<1>1. /\ stream \in Seq(Pushes) /\ stream # <<>> /\ stream' = Tail(stream)
      /\ frame = <<>> /\ frame' = <<stream[1]>> /\ Subscribed
      /\ UNCHANGED <<buf, opened, since>>
  BY Parts, Take DEF TInv, PlacesTyped, Placed, Receives, Subscribed, history
<1>2. PICK z \in Openers, n \in Nat : Heard(z, n) /\ Leads(stream, Len(stream), z, n, opened, since)
  BY <1>1 DEF OpenerInv, Soon
<1>3. /\ Len(stream) \in Nat \ {0} /\ Len(stream') = Len(stream) - 1
      /\ \A k \in 1..(Len(stream) - 1) : stream'[k] = stream[k + 1]
  BY <1>1, Take
<1>4. PICK z0 \in Openers, n0 \in Nat :
          /\ Follows(stream[1], z, n, z0, n0)
          /\ Leads(stream', Len(stream) - 1, z0, n0, opened, since)
  BY <1>2, <1>3, LeadsFromSecond
<1>5. Soon(z0, n0)'
  <2>1. frame' # <<>> /\ frame'[1] = stream[1]
    BY <1>1
  <2>2. Heard(z, n)'
    BY <1>1, <1>2 DEF Heard, Openers, Knows, Opens, Secure
  <2>3. Follows(frame'[1], z, n, z0, n0)
    BY <1>4, <2>1
  <2> QED
    BY <2>1, <2>2, <2>3 DEF Soon, Follows, Opens, Secure
<1>6. Leads(stream', Len(stream'), z0, n0, opened', since')
  BY <1>1, <1>3, <1>4
<1> QED
  BY <1>5, <1>6, OpenerAfter

\* A push that is handled: the buffer has it, unless it is about the area.
LEMMA HeardOpener ==
    ASSUME BufferTyped, NEW e \in Pushes, NEW z0, NEW n0, NEW z \in Openers, NEW n \in Nat,
           Heard(z0, n0), Follows(e, z0, n0, z, n),
           IF e.kind = "area" THEN buf' = buf ELSE Record(e)
    PROVE  Heard(z, n)'
<1>1. CASE Opens(e)
  <2>1. Record(e) /\ z = e.zone /\ n = 0
    BY <1>1 DEF Opens, Follows
  <2> QED
    BY <1>1, <2>1, RecordsOpen DEF Heard
<1>2. CASE ~Opens(e) /\ e.kind # "area"
  <2>1. Record(e) /\ z = z0 /\ n = n0 + 1 /\ n0 \in Nat
    BY <1>2 DEF Follows, Heard
  <2>2. z # NoZone => Knows(z, n0)
    BY <2>1 DEF Heard
  <2>3. z # NoZone => Knows(z, n0 + 1)'
    BY <1>2, <2>1, <2>2, RecordsOther
  <2> QED
    BY <2>1, <2>3 DEF Heard
<1>3. CASE e.kind = "area"
  <2>1. buf' = buf /\ z = z0 /\ n = n0
    BY <1>3 DEF Follows
  <2> QED
    BY <2>1 DEF Heard, Knows, Opens, Secure
<1> QED
  BY <1>1, <1>2, <1>3

LEMMA HandledOpener ==
    ASSUME TInv, OpenerInv, HandlesZone \/ HandlesLog \/ HandlesArea \/ AreaFails
    PROVE  OpenerInv'
<1> DEFINE e == frame[1]
<1>1. /\ e \in Pushes /\ frame # <<>> /\ Subscribed /\ frame' = <<>>
      /\ UNCHANGED <<stream, opened, since>>
      /\ IF e.kind = "area" THEN buf' = buf ELSE Record(e)
  <2>1. CASE HandlesZone \/ HandlesLog
    BY <2>1, FrameInHand DEF TInv, Placed, HandlesZone, HandlesLog, Handled, InHand, Subscribed, history
  <2>2. CASE HandlesArea \/ AreaFails
    BY <2>2, FrameInHand DEF TInv, Placed, HandlesArea, AreaFails, Handled, InHand, Subscribed, history
  <2> QED
    BY <2>1, <2>2
<1>2. PICK z \in Openers, n \in Nat : Soon(z, n) /\ Leads(stream, Len(stream), z, n, opened, since)
  BY <1>1 DEF OpenerInv
<1>3. PICK z0, n0 : Heard(z0, n0) /\ Follows(e, z0, n0, z, n)
  BY <1>1, <1>2 DEF Soon
<1>4. Heard(z, n)'
  <2>1. BufferTyped
    BY Parts DEF TInv
  <2> QED
    BY <1>1, <1>3, <2>1, HeardOpener
<1>5. Soon(z, n)'
  BY <1>1, <1>4 DEF Soon
<1>6. Leads(stream', Len(stream'), z, n, opened', since')
  BY <1>1, <1>2
<1> QED
  BY <1>5, <1>6, OpenerAfter

LEMMA NextOpener == TInv /\ OpenerInv /\ [Next]_vars => OpenerInv'
<1> SUFFICES ASSUME TInv, OpenerInv, [Next]_vars PROVE OpenerInv'
  OBVIOUS
<1>0. PlacesTyped /\ Placed /\ PanelTyped /\ HistoryTyped
  BY Parts DEF TInv
<1>1. ASSUME NEW z \in Zones, NEW s \in Statuses, ZoneChanges(z, s) PROVE OpenerInv'
  <2>1. CASE Subscribed
    <3>1. /\ ZonePush(z, s) \in Pushes /\ stream' = Append(stream, ZonePush(z, s))
          /\ UNCHANGED <<frame, buf, pc>>
      BY <1>1, <2>1, PushesNamed DEF ZoneChanges, Push, listen
    <3>2. /\ opened' = (IF Secure(s) THEN opened ELSE z)
          /\ since' = (IF Secure(s) THEN since + 1 ELSE 0)
      BY <1>1, <2>1 DEF ZoneChanges
    <3>3. opened' \in Openers /\ since' \in Nat
      BY <1>0, <3>2 DEF HistoryTyped, Openers
    <3>4. Follows(ZonePush(z, s), opened, since, opened', since')
      BY <3>2 DEF Follows, Opens, ZonePush
    <3> QED
      BY <2>1, <3>1, <3>3, <3>4, SentOpener DEF Subscribed
  <2>2. CASE ~Subscribed
    BY <1>1, <2>2 DEF ZoneChanges, listen, Subscribed, OpenerInv
  <2> QED
    BY <2>1, <2>2
<1>2. CASE Logs
  <2>1. /\ LogPush \in Pushes /\ stream' = Append(stream, LogPush) /\ Subscribed
        /\ UNCHANGED <<frame, buf, pc, opened>> /\ since' = since + 1
    BY <1>2, PushesNamed DEF Logs, Push, listen
  <2>2. opened' \in Openers /\ since' \in Nat
    BY <1>0, <2>1 DEF HistoryTyped, Openers
  <2>3. Follows(LogPush, opened, since, opened', since')
    BY <2>1 DEF Follows, Opens, LogPush
  <2> QED
    BY <2>1, <2>2, <2>3, SentOpener DEF Subscribed
<1>3. ASSUME NEW p \in Payloads, Push(AreaPush(p)), UNCHANGED <<listen, buf, opened, since>>
      PROVE  OpenerInv'
  <2>1. CASE Subscribed
    <3>1. /\ AreaPush(p) \in Pushes /\ stream' = Append(stream, AreaPush(p))
          /\ UNCHANGED <<frame, pc>>
      BY <1>0, <1>3, <2>1, AreaPushed DEF HistoryTyped, Push, listen
    <3>2. opened' \in Openers /\ since' \in Nat
      BY <1>0, <1>3 DEF HistoryTyped, Openers
    <3>3. Follows(AreaPush(p), opened, since, opened', since')
      BY <1>3 DEF Follows, Opens, AreaPush
    <3> QED
      BY <1>3, <2>1, <3>1, <3>2, <3>3, SentOpener DEF Subscribed
  <2>2. CASE ~Subscribed
    BY <1>3, <2>2 DEF listen, Subscribed, OpenerInv
  <2> QED
    BY <2>1, <2>2
<1>4. CASE HouseChanges
  <2>1. house' \in Payloads
    BY <1>0, <1>4, HousesNamed DEF HouseChanges, PanelTyped
  <2> QED
    BY <1>3, <1>4, <2>1 DEF HouseChanges
<1>5. CASE Disarms
  <2>1. CASE Push(AreaPush(Disarmed))
    BY <1>3, <1>5, <2>1, PayloadsNamed DEF Disarms
  <2>2. CASE UNCHANGED stream
    BY <1>5, <2>2, OpenerStays DEF Disarms, listen, Subscribed
  <2> QED
    BY <1>5, <2>1, <2>2 DEF Disarms
<1>6. CASE Receives
  BY <1>6, ReceivedOpener
<1>7. CASE HandlesZone \/ HandlesLog \/ HandlesArea \/ AreaFails
  BY <1>7, HandledOpener
<1>8. CASE Subscribes
  <2>1. /\ stream' = <<>> /\ frame' = <<>> /\ opened' = NoZone /\ since' = 0
    BY <1>0, <1>8 DEF Subscribes, Placed, Subscribed
  <2>2. NoZone \in Openers /\ 0 \in Nat
    BY DEF Openers
  <2>3. Soon(NoZone, 0)'
    BY <2>1, <2>2 DEF Soon, Heard, Openers
  <2>4. Len(stream') = 0
    BY <2>1
  <2>5. Leads(stream', Len(stream'), NoZone, 0, opened', since')
    BY <2>1, <2>2, <2>4, LeadsNowhere
  <2> QED
    BY <2>2, <2>3, <2>5, OpenerAfter
<1>9. CASE LoginFails \/ SessionEnds \/ Restarts
  <2>1. pc' = "down"
    BY <1>9 DEF LoginFails, SessionEnds, Restarts, SessionGone
  <2> QED
    BY <2>1 DEF OpenerInv, Subscribed
<1>10. CASE LogsIn \/ ReadsZones \/ ReadsFlags
  BY <1>10 DEF LogsIn, ReadsZones, ReadsFlags, OpenerInv, Subscribed
<1>11. CASE Settles
  BY <1>11, OpenerStays DEF Settles, Subscribed
<1>12. CASE PollStarts \/ PollReplies \/ PollFails
  BY <1>12, OpenerStays DEF PollStarts, PollReplies, PollFails, AfterPoll, Subscribed, history
<1>13. CASE UNCHANGED vars
  BY <1>13, OpenerStays DEF vars, listen, history, Subscribed
<1> QED
  BY <1>1, <1>2, <1>4, <1>5, <1>6, <1>7, <1>8, <1>9, <1>10, <1>11, <1>12, <1>13, Steps

\* An AREA push that brings triggered takes its zone from the buffer, and the
\* buffer knows as much as the panel did when it sent the push.
LEMMA SnapshotOpener ==
    ASSUME TInv, TakenInv, OpenerInv,
           HandlesArea, Enters(payload, payload'), taken', frame[1].opener # NoZone
    PROVE  attrs' = IF frame[1].near THEN frame[1].opener ELSE NoZone
<1> DEFINE e == frame[1]
<1>1. pc = "frame" /\ frame # <<>> /\ e.kind = "area" /\ Subscribed
  BY DEF TInv, Placed, HandlesArea, InHand, Subscribed
<1>2. ~taken
  BY <1>1 DEF TakenInv, Enters, LoginPcs
<1>3. attrs' = InitiatingZone
  BY <1>2 DEF HandlesArea, Stores, SnapshotIfEntering, Publishes, FailsToPublish
<1>4. PICK z0, n0, z, n : Heard(z0, n0) /\ Follows(e, z0, n0, z, n)
  BY <1>1 DEF OpenerInv, Soon
<1>5. e.opener = z0 /\ (e.near <=> n0 < BufferLen)
  BY <1>1, <1>4 DEF Follows
<1>6. n0 \in Nat /\ Knows(z0, n0)
  BY <1>4, <1>5 DEF Heard
<1>7. InitiatingZone = IF n0 < BufferLen THEN z0 ELSE NoZone
  BY <1>6, Parts, FindsOpener DEF TInv
<1> QED
  BY <1>3, <1>5, <1>7

\* The zone an alarm's attributes name is the one that opened last before the
\* alarm in that session, whatever is pushed, polled or disarmed between the
\* alarm and the moment its AREA push is handled; a buffer that has forgotten
\* it, after BufferLen pushes, names none.
THEOREM PushedAlarmNamesOpener == Spec => PushNamesOpener
<1>1. Init => TakenInv /\ OpenerInv
  BY DEF Init, TakenInv, OpenerInv, Subscribed
<1>2. TInv /\ TakenInv /\ OpenerInv /\ [Next]_vars => (TakenInv /\ OpenerInv)'
  BY NextTaken, NextOpener
<1>3. /\ TInv /\ TakenInv /\ OpenerInv /\ [Next]_vars
      => [(HandlesArea /\ Enters(payload, payload') /\ taken' /\ frame[1].opener # NoZone)
             => attrs' = IF frame[1].near THEN frame[1].opener ELSE NoZone]_vars
  BY SnapshotOpener
<1> QED
  BY <1>1, <1>2, <1>3, Typed, PTL DEF Spec, PushNamesOpener
=============================================================================
