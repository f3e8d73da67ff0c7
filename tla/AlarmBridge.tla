----------------------------- MODULE AlarmBridge -----------------------------
(***************************************************************************)
(* The two asyncio tasks of app.run and what they share: the listen task   *)
(* (receive, check in, poll, handle AREA pushes, re-login) and the command *)
(* task (MQTT Arm/Disarm and ready-to-arm taps), over one panel session.   *)
(*                                                                         *)
(* A step runs from one suspension point to the next.  An MQTT publish     *)
(* takes effect when it is called and suspends afterwards, so a publish    *)
(* ends a step and the assignment that follows it starts another.  A panel *)
(* exchange of the listen task (send_command under the io lock) is one     *)
(* step at the time its reply arrives; one of the command task is two,     *)
(* because the listen task goes on handling queued frames meanwhile.       *)
(*                                                                         *)
(* Time is left out: whether a check-in or a poll is due and whether a     *)
(* window has run out are choices.  PanelTrust has the clock.              *)
(***************************************************************************)
EXTENDS AlarmPayload, Naturals, Sequences, SequencesExt

CONSTANTS
    MaxEvents,  \* bound: changes of the house nobody asked the bridge for
    MaxTaps,    \* bound: taps in Home Assistant
    MaxFaults   \* bound: refusals, missing answers, faults on the wire

ASSUME BoundsAssumption == MaxEvents \in Nat /\ MaxTaps \in Nat /\ MaxFaults \in Nat

VARIABLES
    house,      \* what the panel's house area is doing
    flags,      \* the payload its area flags decode to, which may lag house
    wire,       \* what the panel sent and nobody read: AREA payloads, a fault
    sess,       \* the TCP session: "none", "open", "auth", "live"
    queue,      \* PanelClient._message_queue
    alarm,      \* _SharedAlarmState.payload
    gate,       \* ArmGestureGate.last_acked_ha_mode
    live,       \* PanelTrust._live
    acked,      \* PanelTrust.last_acked_arm_ha_mode
    collision,  \* PanelTrust._session_collision
    ready,      \* _ReadyToArmState, per mode
    mqttAlarm,  \* the retained alarm state topic
    link,       \* the retained Alarm Panel Connection topic
    lpc,        \* where the listen task is suspended
    lframe,     \* its frame in hand, NoPayload after an idle timeout
    lold,       \* the alarm payload it captured before an exchange
    lnew,       \* the payload it published and has not yet stored
    grace,      \* its local "collision" of reconnect_after_disconnect
    first,      \* whether this is that call's first attempt
    cpc,        \* where the command task is suspended
    creq,       \* the mode being armed, NoMode for a disarm
    cout,       \* how its exchange with the panel ended
    cseen,      \* the alarm payload it captured
    events, taps, faults

panel == <<house, flags>>
session == <<wire, sess, queue>>
memory == <<gate, acked>>
trust == <<live, collision>>
topics == <<mqttAlarm, link>>
listen == <<lpc, lframe, lold, lnew, grace, first>>
command == <<cpc, creq, cout, cseen>>
bounds == <<events, taps, faults>>
vars == <<panel, session, alarm, memory, trust, ready, topics, listen, command, bounds>>

-----------------------------------------------------------------------------
(* The panel *)

HouseKinds == {"arming", "armed", "pending", "triggered"}
HouseState(k, m) == [kind |-> k, mode |-> m]
Unset == HouseState("disarmed", NoMode)
HouseStates == {Unset} \cup {HouseState(k, m) : k \in HouseKinds, m \in Modes}

\* The payload of the AREA push for a house state.
Shown(h) == IF h.kind = "armed" THEN Armed(h.mode) ELSE Unarmed(h.kind)

\* What the flags may say of it once they have caught up: exit reads as
\* unset, entry as unset or as the armed mode.
FlagsViews(h) ==
    CASE h.kind = "arming" -> {Disarmed}
      [] h.kind = "pending" -> {Disarmed, Armed(h.mode)}
      [] OTHER -> {Shown(h)}

\* Keypad, vendor app, exit and entry timers, detectors.
HouseNext(h) ==
    CASE h.kind = "disarmed" -> {HouseState("arming", m) : m \in Modes}
      [] h.kind = "arming" -> {HouseState("armed", h.mode), Unset}
      [] h.kind = "armed" -> {HouseState("pending", h.mode), HouseState("triggered", h.mode), Unset}
      [] h.kind = "pending" -> {HouseState("triggered", h.mode), Unset}
      [] OTHER -> {Unset}

\* Bytes outside the Connect framing; the end of the stream.
Junk == Unarmed("junk")
Eof == Unarmed("eof")
Faults == {Junk, Eof}
Faulty(w) == w # <<>> /\ Last(w) \in Faults

\* Nothing is read past a fault, so nothing is put behind one.
Push(w, h) == IF sess = "live" /\ ~Faulty(w) THEN Append(w, Shown(h)) ELSE w

HouseChanges ==
    /\ events < MaxEvents
    /\ events' = events + 1
    /\ house' \in HouseNext(house)
    /\ wire' = Push(wire, house')
    /\ UNCHANGED <<flags, sess, queue, alarm, memory, trust, ready, topics, listen, command, taps, faults>>

FlagsCatchUp ==
    /\ flags \notin FlagsViews(house)
    /\ flags' \in FlagsViews(house)
    /\ UNCHANGED <<house, session, alarm, memory, trust, ready, topics, listen, command, bounds>>

WireBreaks ==
    /\ sess \in {"auth", "live"} /\ ~Faulty(wire)
    /\ faults < MaxFaults
    /\ faults' = faults + 1
    /\ \E f \in Faults : wire' = Append(wire, f)
    /\ UNCHANGED <<panel, sess, queue, alarm, memory, trust, ready, topics, listen, command, events, taps>>

\* A refusal or a missing answer.
Misfortune == faults < MaxFaults /\ faults' = faults + 1

-----------------------------------------------------------------------------
(* PanelClient *)

LockFree == cpc # "wait"

\* An exchange queues the AREA frames that precede its reply.
Drain == queue' = queue \o wire /\ wire' = <<>>

\* One that meets a fault queues what precedes it.  The end of the stream
\* stays; junk is dropped, and more of it may follow.
DrainToFault ==
    /\ queue' = queue \o Front(wire)
    /\ wire' \in IF Last(wire) = Eof THEN {<<Eof>>} ELSE {<<>>, <<Junk>>}

Close == sess' = "none" /\ wire' = <<>>

-----------------------------------------------------------------------------
(* The listen task *)

\* _observe_live_alarm_payload; the mutant forgets the trust tracker's half.
ObserveGateOnly(p) == gate' = ObserveLive(gate, p) /\ UNCHANGED acked
Observe(p) ==
    /\ gate' = ObserveLive(gate, p)
    /\ acked' = IF gate # NoMode /\ gate' = NoMode THEN NoMode ELSE acked

\* _maybe_recover once the recover window has passed; the mutant does not
\* publish.
RecoverSilently == ~live /\ live' = TRUE /\ UNCHANGED link
Recover == ~live /\ live' = TRUE /\ link' = "ON"

\* ForcedDisconnect out of the listen loop up to the first publish or close
\* of reconnect_after_disconnect.
EndSession(unreadable) ==
    LET collided == unreadable /\ (alarm \in Transient \/ acked # NoMode)
    IN  /\ grace' = (collision \/ collided)
        /\ collision' = FALSE
        /\ first' = TRUE
        /\ lold' = alarm
        /\ link' = IF grace' THEN link ELSE "OFF"
        /\ lframe' = NoPayload
        /\ lpc' = "close"
        /\ UNCHANGED <<panel, sess, alarm, memory, live, ready, mqttAlarm, lnew, command, events, taps>>

\* An exchange of the listen task that finds the session gone or broken.
ExchangeFails ==
    \/ sess = "none" /\ EndSession(FALSE) /\ UNCHANGED <<wire, queue, faults>>
    \/ Faulty(wire) /\ DrainToFault /\ EndSession(Last(wire) = Junk) /\ UNCHANGED faults

\* One that runs to its end, answered or not.
ExchangeRuns == LockFree /\ sess = "live" /\ ~Faulty(wire) /\ Drain

\* recv_message; the mutant takes a broken frame for a message.
LReceiveUnchecked ==
    /\ lpc = "recv" /\ queue = <<>> /\ wire # <<>> /\ LockFree
    /\ lframe' = Head(wire) /\ wire' = Tail(wire) /\ lpc' = "frame"
    /\ UNCHANGED <<panel, sess, queue, alarm, memory, trust, ready, topics, lold, lnew, grace, first, command, bounds>>

LReceive ==
    /\ lpc = "recv"
    /\ \/ /\ queue # <<>>
          /\ lframe' = Head(queue) /\ queue' = Tail(queue)
          /\ UNCHANGED wire
       \/ /\ queue = <<>> /\ LockFree
          /\ wire # <<>> /\ Head(wire) \notin Faults
          /\ lframe' = Head(wire) /\ wire' = Tail(wire)
          /\ UNCHANGED queue
    /\ lpc' = "frame"
    /\ UNCHANGED <<panel, sess, alarm, memory, trust, ready, topics, lold, lnew, grace, first, command, bounds>>

\* recv_message times out: a check-in, a poll or neither is due.
LIdle ==
    /\ lpc = "recv" /\ queue = <<>>
    /\ LockFree /\ sess = "live" /\ wire = <<>>
    /\ lframe' = NoPayload
    /\ lpc' = "frame"
    /\ UNCHANGED <<panel, session, alarm, memory, trust, ready, topics, lold, lnew, grace, first, command, bounds>>

\* recv_message meets a fault, or the command task has closed the session.
LReceiveFails ==
    /\ lpc = "recv" /\ queue = <<>> /\ LockFree
    /\ sess = "none" \/ (wire # <<>> /\ Head(wire) \in Faults)
    /\ ExchangeFails

\* A due check-in is answered.
LCheckin ==
    /\ lpc = "frame"
    /\ ExchangeRuns
    /\ lpc' = "checked"
    /\ Recover \/ UNCHANGED <<live, link>>
    /\ UNCHANGED <<panel, sess, alarm, memory, collision, ready, mqttAlarm, lframe, lold, lnew, grace, first,
                   command, bounds>>

\* It is refused or unanswered, within patience: nothing else happens.
LCheckinMissed ==
    /\ lpc = "frame"
    /\ ExchangeRuns
    /\ Misfortune
    /\ lpc' = "checked"
    /\ UNCHANGED <<panel, sess, alarm, memory, trust, ready, topics, lframe, lold, lnew, grace, first,
                   command, events, taps>>

\* Patience has run out, or the check-in finds the session broken.
LCheckinEnds ==
    /\ lpc = "frame" /\ LockFree
    /\ \/ ExchangeFails
       \/ ExchangeRuns /\ Misfortune /\ EndSession(FALSE)

\* note_panel_traffic: only a frame in hand, not an idle timeout.
LTraffic ==
    /\ lpc \in {"frame", "checked"} /\ lframe # NoPayload
    /\ Recover
    /\ lpc' = "traffic"
    /\ UNCHANGED <<panel, session, alarm, memory, collision, ready, mqttAlarm, lframe, lold, lnew, grace, first,
                   command, bounds>>

\* maybe_poll: a reconciliation poll is due.  The mutant passes it no live
\* payload to guard.
LPollStartUnguarded ==
    /\ lpc \in {"frame", "checked", "traffic"} /\ lpc' = "poll"
    /\ UNCHANGED <<panel, session, alarm, memory, trust, ready, topics, lframe, lold, lnew, grace, first,
                   command, bounds>>

LPollStart ==
    /\ lpc \in {"frame", "checked", "traffic"}
    /\ lold' = alarm
    /\ lpc' = "poll"
    /\ UNCHANGED <<panel, session, alarm, memory, trust, ready, topics, lframe, lnew, grace, first, command, bounds>>

LPollReply ==
    /\ lpc = "poll"
    /\ ExchangeRuns
    /\ IF PollMayReplace(lold, flags)
       THEN mqttAlarm' = flags /\ lnew' = flags /\ lpc' = "pollCommit"
       ELSE lpc' = "polled" /\ UNCHANGED <<mqttAlarm, lnew>>
    /\ lold' = NoPayload
    /\ UNCHANGED <<panel, sess, alarm, memory, trust, ready, link, lframe, grace, first, command, bounds>>

LPollMissed ==
    /\ lpc = "poll"
    /\ ExchangeRuns
    /\ Misfortune
    /\ lpc' = "polled" /\ lold' = NoPayload
    /\ UNCHANGED <<panel, sess, alarm, memory, trust, ready, topics, lframe, lnew, grace, first,
                   command, events, taps>>

LPollEnds ==
    /\ lpc = "poll" /\ LockFree
    /\ ExchangeFails

LPollCommit ==
    /\ lpc = "pollCommit"
    /\ alarm' = lnew
    /\ Observe(lnew)
    /\ lpc' = "polled" /\ lnew' = NoPayload
    /\ UNCHANGED <<panel, session, trust, ready, topics, lframe, lold, grace, first, command, bounds>>

Settling == {"frame", "checked", "traffic", "polled"}

\* _raise_if_stuck_trust_relogin
LStuckRelogin ==
    /\ lpc \in Settling
    /\ ~live
    /\ EndSession(FALSE)
    /\ UNCHANGED <<wire, queue, faults>>

\* handle_area_message publishes the push; an idle pass just goes round.
LHandle ==
    /\ lpc \in Settling
    /\ IF lframe = NoPayload
       THEN lpc' = "recv" /\ UNCHANGED mqttAlarm
       ELSE lpc' = "areaCommit" /\ mqttAlarm' = lframe
    /\ UNCHANGED <<panel, session, alarm, memory, trust, ready, link, lframe, lold, lnew, grace, first,
                   command, bounds>>

LAreaCommit ==
    /\ lpc = "areaCommit"
    /\ alarm' = lframe
    /\ Observe(lframe)
    /\ lpc' = "recv"
    /\ lframe' = NoPayload
    /\ UNCHANGED <<panel, session, trust, ready, topics, lold, lnew, grace, first, command, bounds>>

-----------------------------------------------------------------------------
(* The listen task: reconnect_after_disconnect *)

Reconnecting == {"connect", "login", "snapshot", "subscribe"}

LClose ==
    /\ lpc = "close" /\ LockFree
    /\ Close
    /\ lpc' = "connect"
    /\ UNCHANGED <<panel, queue, alarm, memory, trust, ready, topics, lframe, lold, lnew, grace, first, command, bounds>>

\* The io lock is first come first served: a close the command task asked
\* for before this attempt has happened by now.
LConnect ==
    /\ lpc = "connect" /\ cpc # "close"
    /\ sess' = "open" /\ queue' = <<>> /\ wire' = <<>>
    /\ lpc' = "login"
    /\ UNCHANGED <<panel, alarm, memory, trust, ready, topics, lframe, lold, lnew, grace, first, command, bounds>>

LLogin ==
    /\ lpc = "login" /\ LockFree /\ sess = "open"
    /\ sess' = "auth"
    /\ lpc' = "snapshot"
    /\ UNCHANGED <<panel, wire, queue, alarm, memory, trust, ready, topics, lframe, lold, lnew, grace, first,
                   command, bounds>>

\* publish_area_state_snapshot, guarded by the payload captured before the
\* re-login.
LSnapshot ==
    /\ lpc = "snapshot" /\ LockFree /\ sess = "auth" /\ ~Faulty(wire)
    /\ IF PollMayReplace(lold, flags)
       THEN mqttAlarm' = flags /\ lnew' = flags
       ELSE lnew' = lold /\ UNCHANGED mqttAlarm
    /\ lpc' = "subscribe"
    /\ UNCHANGED <<panel, session, alarm, memory, trust, ready, link, lframe, lold, grace, first, command, bounds>>

\* set_event_messages, then Connection ON.
LSubscribe ==
    /\ lpc = "subscribe" /\ LockFree /\ sess = "auth" /\ ~Faulty(wire)
    /\ sess' = "live"
    /\ link' = "ON"
    /\ lpc' = "resume"
    /\ UNCHANGED <<panel, wire, queue, alarm, memory, trust, ready, mqttAlarm, lframe, lold, lnew, grace, first,
                   command, bounds>>

\* A failed first attempt uses up the grace of a collision; the mutant
\* leaves Connection alone.
KeepLink == UNCHANGED link
EndGrace == link' = IF grace /\ first THEN "OFF" ELSE link

LAttemptFails ==
    /\ lpc \in Reconnecting /\ LockFree
    /\ \/ Misfortune
       \/ /\ lpc \in {"snapshot", "subscribe"}
          /\ sess # "auth" \/ Faulty(wire)
          /\ UNCHANGED faults
    /\ EndGrace
    /\ first' = FALSE /\ lnew' = NoPayload
    /\ lpc' = "close"
    /\ UNCHANGED <<panel, session, alarm, memory, trust, ready, mqttAlarm, lframe, lold, grace,
                   command, events, taps>>

\* reset_after_reconnect publishes ON even if the tracker is live already;
\* the mutant relies on the ON published before.
ResetTrustOnly == live' = TRUE /\ collision' = FALSE /\ acked' = NoMode /\ UNCHANGED link
ResetTrust == live' = TRUE /\ collision' = FALSE /\ acked' = NoMode /\ link' = "ON"

\* Back in _listen_with_reconnect: store the payload, let it clear the arm
\* gesture unless it reads unset, then start the trust tracker afresh.
LResume ==
    /\ lpc = "resume"
    /\ alarm' = lnew
    /\ gate' = IF lnew = Disarmed THEN gate ELSE ObserveLive(gate, lnew)
    /\ ResetTrust
    /\ lpc' = "recv"
    /\ lold' = NoPayload /\ lnew' = NoPayload /\ grace' = FALSE /\ first' = FALSE
    /\ UNCHANGED <<panel, session, ready, mqttAlarm, lframe, command, bounds>>

-----------------------------------------------------------------------------
(* The command task: taps, handled one after another *)

\* The handler returns and its locals go.
Done == cpc' = "idle" /\ creq' = NoMode /\ cout' = "none" /\ cseen' = NoPayload

\* It goes on at another suspension point.
Goes(pc) == cpc' = pc /\ UNCHANGED <<creq, cout>>

Tap == cpc = "idle" /\ taps < MaxTaps /\ taps' = taps + 1

\* The branches of a tap that leave everything but the task itself alone.
OnlyCommand ==
    UNCHANGED <<panel, session, alarm, memory, trust, ready, topics, listen, events, faults>>

ReadyTap(m) ==
    /\ Tap
    /\ ready' = [ready EXCEPT ![m] = ~@]
    /\ UNCHANGED <<panel, session, alarm, memory, trust, topics, listen, command, events, faults>>

DropsDisarm == alarm = Disarmed

DisarmIgnored ==
    /\ Tap /\ DropsDisarm
    /\ UNCHANGED command /\ OnlyCommand

DisarmTap ==
    /\ Tap /\ ~DropsDisarm
    /\ creq' = NoMode /\ cpc' = "send"
    /\ UNCHANGED <<cout, cseen>> /\ OnlyCommand

ArmBlocked(m) ==
    /\ Tap /\ ~ready[m]
    /\ creq' = m /\ cpc' = "blocked"
    /\ UNCHANGED <<cout, cseen>> /\ OnlyCommand

\* Already armed that way, or the panel already took this gesture.
ArmIgnored(m) ==
    /\ Tap /\ ready[m]
    /\ alarm = Armed(m) \/ gate = m
    /\ UNCHANGED command /\ OnlyCommand

ArmTap(m) ==
    /\ Tap /\ ready[m]
    /\ alarm # Armed(m) /\ gate # m
    /\ creq' = m /\ cpc' = "send"
    /\ UNCHANGED <<cout, cseen>> /\ OnlyCommand

\* A refused arm bounces the card: "arming", a short hold, then the payload
\* read before the hold.
CBlocked ==
    /\ cpc = "blocked"
    /\ mqttAlarm' = Arming
    /\ IF alarm = Arming THEN Done ELSE Goes("bounce") /\ cseen' = alarm
    /\ UNCHANGED <<panel, session, alarm, memory, trust, ready, link, listen, bounds>>

CBounce ==
    /\ cpc = "bounce"
    /\ mqttAlarm' = cseen
    /\ Done
    /\ UNCHANGED <<panel, session, alarm, memory, trust, ready, link, listen, bounds>>

-----------------------------------------------------------------------------
(* The command task: SETAREAARM and SETAREADISARM *)

\* The panel arms an unset house, and confirms the mode it is already in.
HouseAccepts == creq = NoMode \/ house.kind = "disarmed" \/ house.mode = creq

HouseAfter ==
    IF creq = NoMode THEN Unset
    ELSE IF house.kind = "disarmed" THEN HouseState("arming", creq) ELSE house

\* The command is carried out, and the AREA push for it (an accepted disarm
\* may have none) comes before or after the reply.
CarriedOut ==
    /\ house' = HouseAfter
    /\ \/ queue' = queue \o Push(wire, house') /\ wire' = <<>>
       \/ queue' = queue \o wire /\ wire' = Push(<<>>, house')
       \/ creq = NoMode /\ Drain

CanSend == cpc = "send" /\ sess \in {"auth", "live"}
Sent(outcome) ==
    /\ cpc' = "wait" /\ cout' = outcome
    /\ UNCHANGED <<flags, sess, alarm, memory, trust, ready, topics, listen, creq, cseen, events, taps>>

CAccepted ==
    /\ CanSend /\ ~Faulty(wire) /\ HouseAccepts
    /\ IF HouseAfter = house THEN Drain /\ UNCHANGED house ELSE CarriedOut
    /\ Sent("ack") /\ UNCHANGED faults

CRefused ==
    /\ CanSend /\ ~Faulty(wire)
    /\ IF HouseAccepts THEN Misfortune ELSE UNCHANGED faults
    /\ Drain /\ UNCHANGED house
    /\ Sent("nak")

\* No answer after every retry, whether or not the panel acted.
CUnanswered ==
    /\ CanSend /\ ~Faulty(wire)
    /\ Misfortune
    /\ \/ Drain /\ UNCHANGED house
       \/ HouseAccepts /\ HouseAfter # house /\ CarriedOut
    /\ Sent("silent")

CFaulted ==
    /\ CanSend /\ Faulty(wire)
    /\ house' \in {house} \cup IF Last(wire) = Junk /\ HouseAccepts THEN {HouseAfter} ELSE {}
    /\ DrainToFault
    /\ Sent(Last(wire).kind) /\ UNCHANGED faults

ArmAcked ==
    /\ cpc = "wait" /\ cout = "ack" /\ creq # NoMode
    /\ gate' = creq /\ acked' = creq
    /\ Done
    /\ UNCHANGED <<panel, session, alarm, trust, ready, topics, listen, bounds>>

\* _payload_after_ack: the last AREA in the queue, else the shared payload.
PayloadAfterAck == IF queue # <<>> THEN Last(queue) ELSE alarm

DisarmAcked ==
    /\ cpc = "wait" /\ cout = "ack" /\ creq = NoMode
    /\ gate' = NoMode /\ acked' = NoMode
    /\ IF FlagsNeeded(PayloadAfterAck, FALSE, TRUE)
       THEN Goes("flags") /\ cseen' = PayloadAfterAck /\ UNCHANGED alarm
       ELSE Done /\ alarm' = Disarmed
    /\ UNCHANGED <<panel, session, trust, ready, topics, listen, bounds>>

\* An unreadable stream after the panel already took this arm.
ArmCollided ==
    /\ cout = "junk" /\ creq # NoMode
    /\ acked = creq \/ alarm \in Transient \/ alarm = Armed(creq)

\* record_command_failure; the alarm payload is captured before it when the
\* session ended, read after it when the panel answered or timed out.
Fails(outcome) ==
    /\ live' = FALSE /\ link' = "OFF"
    /\ IF creq = NoMode THEN Done
       ELSE IF outcome \in {"nak", "silent"} THEN Goes("republish") /\ UNCHANGED cseen
       ELSE Goes("republishSeen") /\ cseen' = alarm
    /\ UNCHANGED <<panel, session, alarm, memory, collision, ready, mqttAlarm, listen, bounds>>

CommandFails == cpc = "wait" /\ cout # "ack" /\ ~ArmCollided /\ Fails(cout)

\* Nothing is sent: ForcedDisconnect once the session is gone, ProtocolError
\* before LOGIN.
CNoSession ==
    /\ cpc = "send" /\ sess \in {"none", "open"}
    /\ Fails(IF sess = "none" THEN "gone" ELSE "nak")

ArmCollides ==
    /\ cpc = "wait" /\ ArmCollided
    /\ collision' = TRUE
    /\ Goes("close") /\ UNCHANGED cseen
    /\ UNCHANGED <<panel, session, alarm, memory, live, ready, topics, listen, bounds>>

CRepublish ==
    /\ cpc = "republish"
    /\ mqttAlarm' = alarm
    /\ Done
    /\ UNCHANGED <<panel, session, alarm, memory, trust, ready, link, listen, bounds>>

CRepublishSeen ==
    /\ cpc = "republishSeen"
    /\ mqttAlarm' = IF cseen \in Transient THEN mqttAlarm ELSE cseen
    /\ Done
    /\ UNCHANGED <<panel, session, alarm, memory, trust, ready, link, listen, bounds>>

-----------------------------------------------------------------------------
(* The command task: _refresh_alarm_from_flags after an accepted disarm *)

CFlagsReply ==
    /\ cpc = "flags" /\ sess \in {"auth", "live"} /\ ~Faulty(wire)
    /\ Drain
    /\ LET decoded == CoerceAfterDisarm(flags)
       IN  IF DisarmMayReplace(cseen, decoded)
           THEN Goes("flagsCommit") /\ mqttAlarm' = decoded /\ cseen' = decoded
           ELSE Done /\ UNCHANGED mqttAlarm
    /\ UNCHANGED <<panel, sess, alarm, memory, trust, ready, link, listen, bounds>>

CFlagsCommit ==
    /\ cpc = "flagsCommit"
    /\ alarm' = cseen
    /\ Done
    /\ UNCHANGED <<panel, session, memory, trust, ready, topics, listen, bounds>>

\* Refused, unanswered or not logged in: the panel was busy, not gone.
CFlagsMissed ==
    /\ cpc = "flags"
    /\ \/ sess \in {"auth", "live"} /\ ~Faulty(wire) /\ Misfortune /\ Drain
       \/ sess = "open" /\ UNCHANGED <<wire, queue, faults>>
    /\ Done
    /\ UNCHANGED <<panel, sess, alarm, memory, trust, ready, topics, listen, events, taps>>

\* Any end of the session here counts as a collision.
CFlagsEnd ==
    /\ cpc = "flags"
    /\ \/ sess = "none" /\ UNCHANGED <<wire, queue>>
       \/ Faulty(wire) /\ DrainToFault
    /\ collision' = TRUE
    /\ Goes("close") /\ UNCHANGED cseen
    /\ UNCHANGED <<panel, sess, alarm, memory, live, ready, topics, listen, bounds>>

\* The command task closes the session so that the listen task logs in again.
CClose ==
    /\ cpc = "close"
    /\ Close
    /\ Done
    /\ UNCHANGED <<panel, queue, alarm, memory, trust, ready, topics, listen, bounds>>

-----------------------------------------------------------------------------
(* Specification *)

\* After the startup snapshots and the subscription: MQTT, the shared
\* payload and the panel agree, on a settled payload.
Init ==
    /\ house \in {h \in HouseStates : h.kind \in {"disarmed", "armed"}}
    /\ flags = Shown(house) /\ alarm = Shown(house) /\ mqttAlarm = Shown(house)
    /\ sess = "live" /\ wire = <<>> /\ queue = <<>>
    /\ gate = NoMode /\ acked = NoMode
    /\ live = TRUE /\ collision = FALSE /\ link = "ON"
    /\ ready = [m \in Modes |-> TRUE]
    /\ lpc = "recv" /\ lframe = NoPayload /\ lold = NoPayload /\ lnew = NoPayload
    /\ grace = FALSE /\ first = FALSE
    /\ cpc = "idle" /\ creq = NoMode /\ cout = "none" /\ cseen = NoPayload
    /\ events = 0 /\ taps = 0 /\ faults = 0

Environment == HouseChanges \/ FlagsCatchUp \/ WireBreaks

ListenLoop ==
    \/ LReceive \/ LIdle \/ LReceiveFails
    \/ LCheckin \/ LCheckinMissed \/ LCheckinEnds \/ LTraffic
    \/ LPollStart \/ LPollReply \/ LPollMissed \/ LPollEnds \/ LPollCommit
    \/ LStuckRelogin \/ LHandle \/ LAreaCommit

Reconnect == LClose \/ LConnect \/ LLogin \/ LSnapshot \/ LSubscribe \/ LAttemptFails \/ LResume

Taps ==
    \/ DisarmIgnored \/ DisarmTap
    \/ \E m \in Modes : ReadyTap(m) \/ ArmBlocked(m) \/ ArmIgnored(m) \/ ArmTap(m)

CommandStep ==
    \/ CBlocked \/ CBounce
    \/ CAccepted \/ CRefused \/ CUnanswered \/ CFaulted \/ CNoSession
    \/ ArmAcked \/ DisarmAcked \/ CommandFails \/ ArmCollides \/ CRepublish \/ CRepublishSeen
    \/ CFlagsReply \/ CFlagsCommit \/ CFlagsMissed \/ CFlagsEnd \/ CClose

Next == Environment \/ ListenLoop \/ Reconnect \/ Taps \/ CommandStep

Spec == Init /\ [][Next]_vars
-----------------------------------------------------------------------------
(* Fairness: the event loop runs both tasks; check-ins and polls come round *)
(* (every 15 s and 300 s), so one that keeps being possible happens; the    *)
(* panel's flags catch up with its state.  Nobody has to tap, and no        *)
(* failure has to happen.                                                   *)
Fairness ==
    /\ WF_vars(ListenLoop \/ Reconnect)
    /\ SF_vars(LPollStart)
    /\ SF_vars(LCheckin /\ Recover)
    /\ WF_vars(CommandStep)
    /\ WF_vars(FlagsCatchUp)

FairSpec == Spec /\ Fairness

-----------------------------------------------------------------------------
(* Properties *)

ListenPcs == {"recv", "frame", "checked", "traffic", "poll", "pollCommit", "polled", "areaCommit"}
ReconnectPcs == {"close", "resume"} \cup Reconnecting
CommandPcs == {"idle", "blocked", "bounce", "send", "wait", "republish", "republishSeen",
               "flags", "flagsCommit", "close"}
Outcomes == {"none", "ack", "nak", "silent", "junk", "eof"}

\* Every variable keeps to the values the code can give it.
TypeOK ==
    /\ house \in HouseStates /\ flags \in FlagsPayloads
    /\ wire \in Seq(Payloads \cup Faults) /\ queue \in Seq(Payloads)
    /\ sess \in {"none", "open", "auth", "live"}
    /\ alarm \in Payloads /\ mqttAlarm \in Payloads
    /\ gate \in MaybeMode /\ acked \in MaybeMode
    /\ live \in BOOLEAN /\ collision \in BOOLEAN /\ link \in {"ON", "OFF"}
    /\ ready \in [Modes -> BOOLEAN]
    /\ lpc \in ListenPcs \cup ReconnectPcs /\ lframe \in MaybePayload
    /\ lold \in MaybePayload /\ lnew \in MaybePayload
    /\ grace \in BOOLEAN /\ first \in BOOLEAN
    /\ cpc \in CommandPcs /\ creq \in MaybeMode /\ cout \in Outcomes /\ cseen \in MaybePayload
    /\ events \in 0..MaxEvents /\ taps \in 0..MaxTaps /\ faults \in 0..MaxFaults

\* While the listen loop runs, the retained Connection says exactly what the
\* trust tracker believes, although the command task degrades both at any
\* point of a re-login (reset_after_reconnect republishes ON for this).
LinkMatchesTrust == lpc \in ListenPcs => (link = "ON" <=> live)

\* While a lost session is being replaced Connection is off, except during
\* the one attempt a collision is granted (reconnect_after_disconnect).
ConnectionOffWhileHealing ==
    lpc \in {"close"} \cup Reconnecting /\ ~(grace /\ first) => link = "OFF"

\* The two memories of the last accepted arm, cleared at different places,
\* never disagree on the mode: what classifies a later unreadable stream as
\* a collision is the gesture the arm gate still holds.
AckMemoryWithinGate == acked # NoMode => gate = acked

\* Exit and entry survive flags reads: a poll or a re-login snapshot that
\* lands while the bridge holds "arming" or "pending" publishes nothing but
\* an alarm, although its guard looks at a payload captured before the read.
FlagsKeepTransient ==
    [][/\ lpc \in {"poll", "snapshot"} /\ lpc' # lpc
       /\ alarm \in Transient
       => mqttAlarm' \in {mqttAlarm, Triggered}]_vars

\* What polls are for: whatever pushes were lost and taps interleaved, a
\* settled payload the bridge holds is in the end the one the panel's flags
\* give.
DriftCorrected ==
    <>[](alarm \in Transient \cup {Triggered} \/ alarm = flags)

\* Connection comes back: after any failed taps, missed check-ins and broken
\* sessions it is in the end ON, with the tracker live, for good.
ConnectionRecovers == <>[](link = "ON" /\ live /\ lpc \in ListenPcs)

\* The topic as its readers see it.
Connection == INSTANCE PanelConnection WITH
    phase <- IF lpc \in ListenPcs THEN "monitoring" ELSE IF lpc = "resume" THEN "restored" ELSE "healing",
    trusted <- live,
    shown <- link,
    excused <- lpc \in {"close"} \cup Reconnecting /\ grace /\ first

\* The two tasks, whatever they interleave, change the Connection topic only
\* as promised: off on a failed tap or a lost session, on by regained trust
\* or a completed re-login, and off after every attempt that fails
\* (reconnect_after_disconnect, PanelTrust).
ConnectionSpec == Connection!Spec

=============================================================================
