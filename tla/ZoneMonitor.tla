----------------------------- MODULE ZoneMonitor -----------------------------
(***************************************************************************)
(* Zones and the trigger snapshot: the listen task shows the panel's zones *)
(* from a snapshot at every login and from ZONE pushes after it, keeps a   *)
(* short memory of ZONE and LOG pushes, and publishes the zone that opened *)
(* last when the alarm entity enters triggered, whether a push, a poll or  *)
(* a re-login says so.                                                     *)
(*                                                                         *)
(* The wire and the queue of PanelClient are one stream (PanelClient shows *)
(* that the order is kept).  The session's health, the command task and    *)
(* Connection are AlarmBridge's matter; here a disarm is one step, with    *)
(* the flags read that follows it.                                         *)
(***************************************************************************)
EXTENDS AlarmPayload, Naturals, Sequences

CONSTANTS
    Zones,      \* the panel's zone slots
    InUse,      \* those with a zone type
    Statuses,   \* status bytes
    NoZone,
    BufferLen,  \* TriggerActivityBuffer.maxlen, 32 in the code
    MaxChanges, \* bound: changes of zones and of the house, and LOG pushes
    MaxReads,   \* bound: polls and disarms
    MaxFaults   \* bound: failed publishes, failed logins, lost sessions, restarts

ASSUME ZonesAssumption == InUse \subseteq Zones /\ NoZone \notin Zones
ASSUME StatusesAssumption == Statuses \subseteq 0..255 /\ 0 \in Statuses
ASSUME BoundsAssumption ==
    /\ BufferLen \in Nat \ {0}
    /\ MaxChanges \in Nat /\ MaxReads \in Nat /\ MaxFaults \in Nat

VARIABLES
    zone,       \* the panel's status byte of each slot
    house,      \* what the house area is doing, as a payload
    stream,     \* pushes sent and not yet taken by the listen task
    pc,         \* where the listen task is: see Subscribed
    frame,      \* the push it has in hand, or none
    prev,       \* the alarm payload it captured before a read
    next,       \* the payload a re-login is about to store
    payload,    \* _SharedAlarmState.payload
    shown,      \* the retained state topic of each zone in use
    buf,        \* TriggerActivityBuffer._events
    attrs,      \* last_trigger_zone of the retained attributes
    missed,     \* history: zones that changed and no push will say so
    opened,     \* history: the zone last pushed as open in this session
    since,      \* history: ZONE and LOG pushes after that one
    cause,      \* history: opened, when the house went into alarm in this session
    taken,      \* history: attributes published since payload is triggered
    excused,    \* history: why there may be none
    changes, reads, faults

panel == <<zone, house>>
listen == <<pc, frame, prev, next>>
history == <<missed, opened, since, cause, taken, excused>>
bounds == <<changes, reads, faults>>
vars == <<panel, stream, listen, payload, shown, buf, attrs, history, bounds>>

-----------------------------------------------------------------------------
(* zone_state.py and the buffer *)

\* _STATUS_SECURE in the low two bits.
Secure(status) == status % 4 = 0
Reading(status) == IF Secure(status) THEN "0" ELSE "1"

ZonePush(z, s) == [kind |-> "zone", zone |-> z, status |-> s]
LogPush == [kind |-> "log"]
AreaPush(p) == [kind |-> "area", payload |-> p, opener |-> opened, near |-> since < BufferLen]

\* A deque of BufferLen: the oldest goes.  The mutant keeps everything.
RecordForever(e) == buf' = Append(buf, e)
Record(e) == buf' = IF Len(buf) = BufferLen THEN Append(Tail(buf), e) ELSE Append(buf, e)

OpenEvents == {i \in 1..Len(buf) : buf[i].kind = "zone" /\ ~Secure(buf[i].status)}

\* initiating_zone: the most recent open zone; the mutant takes the oldest.
Oldest(i) == i \in OpenEvents /\ \A j \in OpenEvents : i <= j
Newest(i) == i \in OpenEvents /\ \A j \in OpenEvents : j <= i

InitiatingZoneOldest ==
    IF \E i \in OpenEvents : Oldest(i) THEN buf[CHOOSE i \in OpenEvents : Oldest(i)].zone ELSE NoZone
InitiatingZone ==
    IF \E i \in OpenEvents : Newest(i) THEN buf[CHOOSE i \in OpenEvents : Newest(i)].zone ELSE NoZone

-----------------------------------------------------------------------------
(* The panel *)

\* The listen task: "down" without a session, then the steps of a login
\* ("zones", "flags", "subscribe", "settle"), "idle", with a "frame" in hand,
\* or waiting for the reply to a "poll".  Pushes come after the subscription.
Subscribed == pc \in {"settle", "idle", "frame", "poll"}

Push(f) == stream' = IF Subscribed THEN Append(stream, f) ELSE stream

Happens == changes < MaxChanges /\ changes' = changes + 1
Misfortune == faults < MaxFaults /\ faults' = faults + 1

\* A change between the reply to GetZoneState and SETEVENTMESSAGES is in
\* neither the snapshot nor a push.
ZoneChanges(z, s) ==
    /\ Happens
    /\ zone[z] # s
    /\ zone' = [zone EXCEPT ![z] = s]
    /\ Push(ZonePush(z, s))
    /\ missed' = IF Subscribed THEN missed \ {z}
                 ELSE IF pc \in {"flags", "subscribe"} THEN missed \cup {z} ELSE missed
    /\ opened' = IF Subscribed /\ ~Secure(s) THEN z ELSE opened
    /\ since' = IF Subscribed THEN IF Secure(s) THEN since + 1 ELSE 0 ELSE since
    /\ UNCHANGED <<house, listen, payload, shown, buf, attrs, cause, taken, excused, reads, faults>>

Logs ==
    /\ Happens /\ Subscribed
    /\ Push(LogPush)
    /\ since' = since + 1
    /\ UNCHANGED <<panel, listen, payload, shown, buf, attrs, missed, opened, cause, taken, excused, reads, faults>>

HouseNext(h) ==
    CASE h = Disarmed -> {Arming}
      [] h = Arming -> {Armed(Away), Disarmed}
      [] h = Armed(Away) -> {Pending, Triggered, Disarmed}
      [] h = Pending -> {Triggered, Disarmed}
      [] OTHER -> {Disarmed}

HouseChanges ==
    /\ Happens
    /\ house' \in HouseNext(house)
    /\ Push(AreaPush(house'))
    /\ cause' = IF house' # Triggered THEN cause
                ELSE IF since < BufferLen THEN opened ELSE NoZone
    /\ UNCHANGED <<zone, listen, payload, shown, buf, attrs, missed, opened, since, taken, excused, reads, faults>>

\* What area flags decode to; AlarmBridge has their lag.
FlagsViews(h) ==
    CASE h = Arming -> {Disarmed}
      [] h = Pending -> {Disarmed, Armed(Away)}
      [] OTHER -> {h}

-----------------------------------------------------------------------------
(* maybe_publish_trigger_snapshot *)

Enters(previous, new) == new = Triggered /\ previous # Triggered

\* The listen task stores a payload, after publishing the attributes if the
\* payload enters triggered.  A publish that fails is logged.
Publishes == attrs' = InitiatingZone /\ taken' = TRUE /\ UNCHANGED <<excused, faults>>
FailsToPublish == Misfortune /\ excused' = TRUE /\ UNCHANGED <<attrs, taken>>

SnapshotIfEntering(previous, new) ==
    IF Enters(previous, new)
    THEN Publishes \/ FailsToPublish
    ELSE /\ UNCHANGED <<attrs, faults>>
         /\ taken' = (taken /\ new = Triggered)
         /\ excused' = (excused /\ new = Triggered)

\* The mutant stores first and compares afterwards.
StoresFirst(previous, new) == payload' = new /\ SnapshotIfEntering(new, new)
Stores(previous, new) == payload' = new /\ SnapshotIfEntering(previous, new)

-----------------------------------------------------------------------------
(* Login, at start-up and after a lost session *)

LogsIn ==
    /\ pc = "down"
    /\ pc' = "zones"
    /\ UNCHANGED <<panel, stream, frame, prev, next, payload, shown, buf, attrs, history, bounds>>

\* What the snapshot makes of a zone's topic; the mutant says only what is open.
SnapshotOpenOnly(z) == IF Secure(zone[z]) THEN shown[z] ELSE "1"
SnapshotShown(z) == Reading(zone[z])

ReadsZones ==
    /\ pc = "zones"
    /\ shown' = [z \in InUse |-> SnapshotShown(z)]
    /\ missed' = {}
    /\ pc' = "flags"
    /\ UNCHANGED <<panel, stream, frame, prev, next, payload, buf, attrs, opened, since, cause, taken, excused, bounds>>

\* publish_area_state_snapshot: at start-up there is no payload to keep.
ReadsFlags ==
    /\ pc = "flags"
    /\ \E decoded \in FlagsViews(house) :
           next' = IF prev = NoPayload \/ PollMayReplace(prev, decoded) THEN decoded ELSE prev
    /\ pc' = "subscribe"
    /\ UNCHANGED <<panel, stream, frame, prev, payload, shown, buf, attrs, history, bounds>>

Subscribes ==
    /\ pc = "subscribe"
    /\ pc' = "settle"
    /\ opened' = NoZone /\ since' = 0
    /\ UNCHANGED <<panel, stream, frame, prev, next, payload, shown, buf, attrs, missed, cause, taken, excused, bounds>>

\* Start-up takes no trigger snapshot.  After a re-login a publish that
\* fails ends the process (Restarts).
Settles ==
    /\ pc = "settle"
    /\ IF prev = NoPayload
       THEN /\ payload' = next
            /\ excused' = (next = Triggered) /\ taken' = FALSE
            /\ UNCHANGED <<attrs, faults>>
       ELSE UNCHANGED faults /\ Stores(prev, next)
    /\ pc' = "idle"
    /\ UNCHANGED <<panel, stream, frame, prev, next, shown, buf, missed, opened, since, cause, changes, reads>>

SessionGone ==
    /\ pc' = "down" /\ stream' = <<>>
    /\ cause' = NoZone
    /\ UNCHANGED <<missed, opened, since, taken, excused>>

\* An attempt fails at any step; some zones may have been published.
LoginFails ==
    /\ pc \in {"zones", "flags", "subscribe", "settle"}
    /\ pc = "settle" => prev # NoPayload
    /\ Misfortune
    /\ \E done \in SUBSET InUse :
           /\ done # {} => pc = "zones"
           /\ shown' = [z \in InUse |-> IF z \in done THEN SnapshotShown(z) ELSE shown[z]]
    /\ SessionGone
    /\ UNCHANGED <<panel, frame, prev, next, payload, buf, attrs, changes, reads>>

\* The buffer outlives the session; what was not read does not.
SessionEnds ==
    /\ pc \in {"idle", "frame", "poll"}
    /\ Misfortune
    /\ SessionGone /\ frame' = <<>>
    /\ prev' = payload
    /\ UNCHANGED <<panel, next, payload, shown, buf, attrs, changes, reads>>

\* The process dies and starts again; retained topics stay.
Restarts ==
    /\ Misfortune
    /\ SessionGone /\ frame' = <<>>
    /\ prev' = NoPayload /\ payload' = NoPayload
    /\ buf' = <<>>
    /\ UNCHANGED <<panel, next, shown, attrs, changes, reads>>

-----------------------------------------------------------------------------
(* The listen loop *)

Receives ==
    /\ pc = "idle" /\ stream # <<>>
    /\ frame' = <<Head(stream)>> /\ stream' = Tail(stream)
    /\ pc' = "frame"
    /\ UNCHANGED <<panel, prev, next, payload, shown, buf, attrs, history, bounds>>

\* maybe_poll, after a wait that ran out or before the frame in hand is
\* looked at.
PollStarts ==
    /\ pc \in {"idle", "frame"}
    /\ reads < MaxReads /\ reads' = reads + 1
    /\ prev' = payload
    /\ pc' = "poll"
    /\ UNCHANGED <<panel, stream, frame, next, payload, shown, buf, attrs, history, changes, faults>>

AfterPoll == pc' = IF frame = <<>> THEN "idle" ELSE "frame"

PollReplies ==
    /\ pc = "poll"
    /\ AfterPoll
    /\ \E decoded \in FlagsViews(house) :
           IF PollMayReplace(prev, decoded)
           THEN Stores(prev, decoded)
           ELSE UNCHANGED <<payload, attrs, taken, excused, faults>>
    /\ UNCHANGED <<panel, stream, frame, prev, next, shown, buf, missed, opened, since, cause, changes, reads>>

\* A refusal or a missing answer.
PollFails ==
    /\ pc = "poll"
    /\ Misfortune
    /\ AfterPoll
    /\ UNCHANGED <<panel, stream, frame, prev, next, payload, shown, buf, attrs, history, changes, reads>>

InHand(kind) == pc = "frame" /\ frame[1].kind = kind
Handled == pc' = "idle" /\ frame' = <<>>

OfZone(z, f) == f.kind = "zone" /\ f.zone = z
StillComing(z) == \E i \in 1..Len(stream) : OfZone(z, stream[i])

\* A zone not in use is recorded like any other.
HandlesZone ==
    /\ InHand("zone")
    /\ Record(frame[1])
    /\ \/ /\ shown' = [z \in InUse |-> IF z = frame[1].zone THEN Reading(frame[1].status) ELSE shown[z]]
          /\ UNCHANGED <<missed, faults>>
       \/ /\ frame[1].zone \in InUse
          /\ Misfortune
          /\ missed' = IF StillComing(frame[1].zone) THEN missed ELSE missed \cup {frame[1].zone}
          /\ UNCHANGED shown
    /\ Handled
    /\ UNCHANGED <<panel, stream, prev, next, payload, attrs, opened, since, cause, taken, excused, changes, reads>>

HandlesLog ==
    /\ InHand("log")
    /\ Record(frame[1])
    /\ Handled
    /\ UNCHANGED <<panel, stream, prev, next, payload, shown, attrs, history, bounds>>

HandlesArea ==
    /\ InHand("area")
    /\ Stores(payload, frame[1].payload)
    /\ Handled
    /\ UNCHANGED <<panel, stream, prev, next, shown, buf, missed, opened, since, cause, changes, reads>>

\* The alarm state is not published: the payload stays as it is.
AreaFails ==
    /\ InHand("area")
    /\ Misfortune
    /\ Handled
    /\ UNCHANGED <<panel, stream, prev, next, payload, shown, buf, attrs, history, changes, reads>>

-----------------------------------------------------------------------------
(* The command task *)

QueuedAreas == {stream[i].payload : i \in {j \in 1..Len(stream) : stream[j].kind = "area"}}

\* A disarm the panel accepts, maybe without a push.  If an AREA frame queued
\* meanwhile says unset, that is stored; else flags are read, which may still
\* show what was before, and no trigger snapshot is taken of them.
Disarms ==
    /\ pc # "down"
    /\ payload \notin {NoPayload, Disarmed}
    /\ reads < MaxReads /\ reads' = reads + 1
    /\ house' = Disarmed
    /\ Push(AreaPush(Disarmed)) \/ UNCHANGED stream
    /\ \E current \in {payload} \cup QueuedAreas, seen \in {Disarmed} \cup FlagsViews(house) :
           LET decoded == CoerceAfterDisarm(seen)
           IN  payload' = IF current = Disarmed THEN Disarmed
                          ELSE IF DisarmMayReplace(current, decoded) THEN decoded ELSE payload
    /\ taken' = (taken /\ payload' = Triggered)
    /\ excused' = TRUE
    /\ UNCHANGED <<zone, listen, shown, buf, attrs, missed, opened, since, cause, changes, faults>>

-----------------------------------------------------------------------------
Init ==
    /\ zone \in [Zones -> Statuses]
    /\ house \in {Disarmed, Armed(Away), Triggered}
    /\ stream = <<>>
    /\ pc = "down" /\ frame = <<>>
    /\ prev = NoPayload /\ next = NoPayload /\ payload = NoPayload
    /\ shown \in [InUse -> {"0", "1"}]
    /\ buf = <<>> /\ attrs = NoZone
    /\ missed = {} /\ opened = NoZone /\ since = 0 /\ cause = NoZone
    /\ taken = FALSE /\ excused = FALSE
    /\ changes = 0 /\ reads = 0 /\ faults = 0

Panel ==
    \/ \E z \in Zones, s \in Statuses : ZoneChanges(z, s)
    \/ Logs \/ HouseChanges

Login == LogsIn \/ ReadsZones \/ ReadsFlags \/ Subscribes \/ Settles

Listens ==
    \/ Receives \/ PollStarts \/ PollReplies
    \/ HandlesZone \/ HandlesLog \/ HandlesArea

Next ==
    \/ Panel \/ Login \/ Listens \/ Disarms
    \/ LoginFails \/ SessionEnds \/ Restarts \/ PollFails \/ AreaFails

Spec == Init /\ [][Next]_vars

-----------------------------------------------------------------------------
(* Properties *)

Pushes ==
    [kind : {"zone"}, zone : Zones, status : Statuses]
        \cup {LogPush}
        \cup [kind : {"area"}, payload : Payloads, opener : Zones \cup {NoZone}, near : BOOLEAN]

TypeOK ==
    /\ zone \in [Zones -> Statuses] /\ house \in Payloads
    /\ stream \in Seq(Pushes)
    /\ pc \in {"down", "zones", "flags", "subscribe", "settle", "idle", "frame", "poll"}
    /\ frame = <<>> \/ \E f \in Pushes : frame = <<f>>
    /\ prev \in MaybePayload /\ next \in MaybePayload /\ payload \in MaybePayload
    /\ shown \in [InUse -> {"0", "1"}]
    /\ buf \in Seq(Pushes) /\ Len(buf) <= BufferLen
    /\ attrs \in Zones \cup {NoZone} /\ opened \in Zones \cup {NoZone} /\ cause \in Zones \cup {NoZone}
    /\ missed \subseteq Zones
    /\ since \in Nat
    /\ taken \in BOOLEAN /\ excused \in BOOLEAN
    /\ changes \in Nat /\ reads \in Nat /\ faults \in Nat

LastComing(z, s) ==
    \E i \in 1..Len(stream) :
        /\ OfZone(z, stream[i]) /\ stream[i].status = s
        /\ \A j \in (i + 1)..Len(stream) : ~OfZone(z, stream[j])

\* With a subscribed session the last push about a zone in use that is still
\* to be handled says what the panel has, and without one its topic does.
\* The two ways to be wrong for long are a change between the snapshot and
\* the subscription and a publish that fails.
ZonesShown ==
    Subscribed => \A z \in InUse \ missed :
        IF StillComing(z) THEN LastComing(z, zone[z])
        ELSE IF frame # <<>> /\ OfZone(z, frame[1])
             THEN frame[1].status = zone[z]
             ELSE shown[z] = Reading(zone[z])

\* A trigger snapshot taken on an AREA push names the zone that opened last
\* before it in this session, unless the buffer has forgotten it.
PushNamesOpener ==
    [][(HandlesArea /\ Enters(payload, payload') /\ taken' /\ frame[1].opener # NoZone)
           => attrs' = IF frame[1].near THEN frame[1].opener ELSE NoZone]_vars

\* Whichever way the alarm entity entered triggered (a push, a poll, a
\* re-login whose snapshot shows an alarm of the outage), attributes were
\* published for it, but for a start-up in alarm, a publish that failed and
\* a disarm whose flags read stored the alarm.
EntryHasSnapshot == payload = Triggered => taken \/ excused
=============================================================================
