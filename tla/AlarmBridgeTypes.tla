-------------------------- MODULE AlarmBridgeTypes --------------------------
(***************************************************************************)
(* The type invariant of AlarmBridge, proved for every set of arm modes    *)
(* and every number of events, taps and faults.                            *)
(*                                                                         *)
(* TypeOK is not inductive: a handler publishes the payload it holds, and  *)
(* an exchange queues what is on the wire.  The strengthening says that at *)
(* those points a payload is held (HandsTyped), and that a fault on the    *)
(* wire has nothing behind it (StreamTyped).                               *)
(***************************************************************************)
EXTENDS AlarmBridge, TLAPS

USE DEF panel, session, memory, trust, topics, listen, command, bounds

-----------------------------------------------------------------------------
(* The inductive invariant *)

\* A fault is the last thing on the wire, if there is one.
StreamTyped ==
    /\ wire \in Seq(Payloads \cup Faults) /\ queue \in Seq(Payloads)
    /\ \A i \in 1..(Len(wire) - 1) : wire[i] \in Payloads

\* Where a task is about to publish or store the payload it holds, it holds
\* one.
HandsTyped ==
    /\ lpc = "areaCommit" => lframe \in Payloads
    /\ lpc \in {"close"} \cup Reconnecting => lold \in Payloads
    /\ lpc \in {"pollCommit", "subscribe", "resume"} => lnew \in Payloads
    /\ cpc \in {"bounce", "flagsCommit", "republishSeen"} => cseen \in Payloads

TypeInv == TypeOK /\ StreamTyped /\ HandsTyped

\* What the panel and the bridge hold, but for the two streams.
HeldTyped ==
    /\ house \in HouseStates /\ flags \in FlagsPayloads
    /\ sess \in {"none", "open", "auth", "live"}
    /\ alarm \in Payloads /\ mqttAlarm \in Payloads
    /\ gate \in MaybeMode /\ acked \in MaybeMode
    /\ live \in BOOLEAN /\ collision \in BOOLEAN /\ link \in {"ON", "OFF"}
    /\ ready \in [Modes -> BOOLEAN]
    /\ lpc \in ListenPcs \cup ReconnectPcs /\ lframe \in MaybePayload
    /\ lold \in MaybePayload /\ lnew \in MaybePayload
    /\ grace \in BOOLEAN /\ first \in BOOLEAN
    /\ cpc \in CommandPcs /\ creq \in MaybeMode /\ cout \in Outcomes /\ cseen \in MaybePayload
    /\ events \in 0..MaxEvents /\ taps \in 0..MaxTaps /\ faults \in 0..MaxFaults
    /\ HandsTyped

-----------------------------------------------------------------------------
(* Payloads, the house and the streams *)

\* The constant payloads and how the sets of them lie in one another.
LEMMA PayloadsTyped ==
  /\ {Disarmed, Arming, Pending, Triggered} \subseteq Payloads
  /\ FlagsPayloads \subseteq Payloads
  /\ Payloads \subseteq MaybePayload /\ NoPayload \in MaybePayload
  /\ \A p \in MaybePayload : p # NoPayload => p \in Payloads
  /\ NoMode \in MaybeMode /\ Modes \subseteq MaybeMode
<1>1. {Disarmed, Arming, Pending, Triggered} \subseteq Payloads
  BY DEF Payloads, UnarmedKinds, Disarmed, Arming, Pending, Triggered
<1> QED
  BY <1>1 DEF FlagsPayloads, MaybePayload, MaybeMode

\* A state of the house is shown, on the wire and in the flags, by payloads,
\* and is followed by states of the house.
LEMMA HouseTyped ==
  ASSUME NEW h \in HouseStates
  PROVE  /\ Shown(h) \in Payloads
         /\ FlagsViews(h) \subseteq FlagsPayloads
         /\ HouseNext(h) \subseteq HouseStates
         /\ creq \in MaybeMode => (IF creq = NoMode THEN Unset
              ELSE IF h.kind = "disarmed" THEN HouseState("arming", creq) ELSE h) \in HouseStates
<1>1. \A k \in HouseKinds, m \in Modes : HouseState(k, m) \in HouseStates
  BY DEF HouseStates
<1>2. Unset \in HouseStates
  BY DEF HouseStates
<1>3. h = Unset \/ \E k \in HouseKinds, m \in Modes : h = HouseState(k, m)
  BY DEF HouseStates
<1>4. h.kind \in {"disarmed"} \cup HouseKinds /\ (h.kind \in HouseKinds => h.mode \in Modes)
  BY <1>3 DEF HouseState, Unset, HouseKinds
<1>5. Shown(h) \in Payloads
  <2>1. CASE h.kind = "armed"
    BY <2>1, <1>4 DEF Shown, Payloads, HouseKinds
  <2>2. CASE h.kind # "armed"
    BY <2>2, <1>4 DEF Shown, Payloads, HouseKinds, UnarmedKinds
  <2> QED
    BY <2>1, <2>2
<1>6. FlagsViews(h) \subseteq FlagsPayloads
  <2>1. \A m \in Modes : Armed(m) \in FlagsPayloads
    BY DEF FlagsPayloads, Payloads, Transient, Arming, Pending, Armed, Unarmed
  <2>2. Disarmed \in FlagsPayloads
    BY PayloadsTyped DEF FlagsPayloads, Transient, Arming, Pending, Disarmed, Unarmed
  <2>3. CASE h.kind = "arming"
    BY <2>2, <2>3 DEF FlagsViews
  <2>4. CASE h.kind = "pending"
    BY <2>1, <2>2, <2>4, <1>4 DEF FlagsViews, HouseKinds
  <2>5. CASE h.kind # "arming" /\ h.kind # "pending"
    <3>1. FlagsViews(h) = {Shown(h)}
      BY <2>5 DEF FlagsViews
    <3>2. Shown(h) \notin Transient
      BY <2>5 DEF Shown, Transient, Arming, Pending, Armed, Unarmed
    <3> QED
      BY <3>1, <3>2, <1>5 DEF FlagsPayloads
  <2> QED
    BY <2>3, <2>4, <2>5
<1>7. HouseNext(h) \subseteq HouseStates
  <2>1. CASE h.kind = "disarmed"
    BY <2>1, <1>1 DEF HouseNext, HouseKinds
  <2>2. CASE h.kind \in HouseKinds
    BY <2>2, <1>1, <1>2, <1>4 DEF HouseNext, HouseKinds
  <2> QED
    BY <2>1, <2>2, <1>4
<1>8. creq \in MaybeMode /\ creq # NoMode => HouseState("arming", creq) \in HouseStates
  BY <1>1 DEF MaybeMode, HouseKinds
<1> QED
  BY <1>2, <1>5, <1>6, <1>7, <1>8

\* What is on the wire up to a fault is payloads.
LEMMA Readable ==
  ASSUME StreamTyped
  PROVE  /\ ~Faulty(wire) => wire \in Seq(Payloads)
         /\ Faulty(wire) => Front(wire) \in Seq(Payloads) /\ Last(wire) \in Faults
<1> USE DEF StreamTyped, Faulty, Last, Front
<1>1. CASE wire = <<>>
  BY <1>1
<1>2. CASE wire # <<>>
  <2>1. Len(wire) \in Nat \ {0} /\ wire[Len(wire)] \in Payloads \cup Faults
    BY <1>2
  <2>2. ~Faulty(wire) => \A i \in 1..Len(wire) : wire[i] \in Payloads
    BY <1>2, <2>1
  <2>3. ~Faulty(wire) => wire \in Seq(Payloads)
    BY <2>2
  <2>4. Front(wire) \in Seq(Payloads)
    BY <2>1
  <2> QED
    BY <1>2, <2>3, <2>4
<1> QED
  BY <1>1, <1>2

\* An exchange that runs to its end.
LEMMA DrainTyped ==
  ASSUME StreamTyped, ~Faulty(wire), Drain
  PROVE  StreamTyped'
<1>1. wire \in Seq(Payloads)
  BY Readable
<1> QED
  BY <1>1 DEF StreamTyped, Drain

\* An exchange that meets a fault.
LEMMA DrainToFaultTyped ==
  ASSUME StreamTyped, Faulty(wire), DrainToFault
  PROVE  StreamTyped'
<1>1. Front(wire) \in Seq(Payloads)
  BY Readable
<1>2. queue' \in Seq(Payloads)
  BY <1>1 DEF StreamTyped, DrainToFault
<1>3. wire' \in {<<>>, <<Eof>>, <<Junk>>}
  BY DEF DrainToFault
<1>4. Eof \in Payloads \cup Faults /\ Junk \in Payloads \cup Faults
  BY DEF Faults
<1>5. wire' \in Seq(Payloads \cup Faults) /\ Len(wire') \in {0, 1}
  <2>1. CASE wire' = <<>>
    BY <2>1
  <2>2. CASE wire' = <<Eof>>
    BY <1>4, <2>2
  <2>3. CASE wire' = <<Junk>>
    BY <1>4, <2>3
  <2> QED
    BY <1>3, <2>1, <2>2, <2>3
<1>6. \A i \in 1..(Len(wire') - 1) : wire'[i] \in Payloads
  <2>1. CASE Len(wire') = 0
    BY <2>1
  <2>2. CASE Len(wire') = 1
    BY <2>2
  <2> QED
    BY <1>5, <2>1, <2>2
<1> QED
  BY <1>2, <1>5, <1>6 DEF StreamTyped

\* An AREA push behind what is on the wire, or on an empty wire.
LEMMA PushTyped ==
  ASSUME StreamTyped, NEW h \in HouseStates
  PROVE  /\ Push(wire, h) \in Seq(Payloads \cup Faults)
         /\ \A i \in 1..(Len(Push(wire, h)) - 1) : Push(wire, h)[i] \in Payloads
         /\ ~Faulty(wire) => Push(wire, h) \in Seq(Payloads)
         /\ Push(<<>>, h) \in Seq(Payloads) /\ Len(Push(<<>>, h)) \in {0, 1}
<1>1. Shown(h) \in Payloads
  BY HouseTyped
<1>2. ~Faulty(wire) => wire \in Seq(Payloads)
  BY Readable
<1>5. Push(<<>>, h) \in Seq(Payloads) /\ Len(Push(<<>>, h)) \in {0, 1}
  <2>1. Push(<<>>, h) = <<>> \/ Push(<<>>, h) = <<Shown(h)>>
    BY DEF Push
  <2>2. <<>> \in Seq(Payloads) /\ Len(<<>>) = 0
    OBVIOUS
  <2>3. <<Shown(h)>> \in Seq(Payloads) /\ Len(<<Shown(h)>>) = 1
    BY <1>1
  <2> QED
    BY <2>1, <2>2, <2>3
<1>3. CASE sess = "live" /\ ~Faulty(wire)
  <2>1. Push(wire, h) = Append(wire, Shown(h))
    BY <1>3 DEF Push
  <2>2. Append(wire, Shown(h)) \in Seq(Payloads)
    BY <1>1, <1>2, <1>3
  <2>3. Append(wire, Shown(h)) \in Seq(Payloads \cup Faults)
    BY <2>2
  <2>4. \A i \in 1..(Len(Push(wire, h)) - 1) : Push(wire, h)[i] \in Payloads
    BY <2>1, <2>2
  <2> QED
    BY <1>5, <2>1, <2>2, <2>3, <2>4
<1>4. CASE ~(sess = "live" /\ ~Faulty(wire))
  <2>1. Push(wire, h) = wire
    BY <1>4 DEF Push
  <2> QED
    BY <1>2, <1>5, <2>1 DEF StreamTyped
<1> QED
  BY <1>3, <1>4

\* A command the panel carries out, with its push.
LEMMA CarriedOutTyped ==
  ASSUME StreamTyped, ~Faulty(wire), house' \in HouseStates, CarriedOut
  PROVE  StreamTyped'
<1>1. wire \in Seq(Payloads) /\ queue \in Seq(Payloads)
  BY Readable DEF StreamTyped
<1>2. /\ Push(wire, house') \in Seq(Payloads)
      /\ Push(<<>>, house') \in Seq(Payloads) /\ Len(Push(<<>>, house')) \in {0, 1}
  BY PushTyped
<1>3. CASE queue' = queue \o Push(wire, house') /\ wire' = <<>>
  BY <1>1, <1>2, <1>3 DEF StreamTyped
<1>4. CASE queue' = queue \o wire /\ wire' = Push(<<>>, house')
  <2>1. wire' \in Seq(Payloads \cup Faults)
    BY <1>2, <1>4
  <2>2. \A i \in 1..(Len(wire') - 1) : wire'[i] \in Payloads
    BY <1>2, <1>4
  <2>3. queue' \in Seq(Payloads)
    BY <1>1, <1>4
  <2> QED
    BY <2>1, <2>2, <2>3 DEF StreamTyped
<1>5. CASE Drain
  BY <1>5, DrainTyped
<1> QED
  BY <1>3, <1>4, <1>5 DEF CarriedOut

\* Taking the first frame off the wire or off the queue.
LEMMA TakeTyped ==
  ASSUME StreamTyped
  PROVE  /\ queue # <<>> => Head(queue) \in Payloads /\ Tail(queue) \in Seq(Payloads)
         /\ wire # <<>> => /\ Head(wire) \in Payloads \cup Faults
                          /\ Tail(wire) \in Seq(Payloads \cup Faults)
                          /\ \A i \in 1..(Len(Tail(wire)) - 1) : Tail(wire)[i] \in Payloads
<1>1. queue # <<>> => Head(queue) \in Payloads /\ Tail(queue) \in Seq(Payloads)
  BY DEF StreamTyped
<1>2. ASSUME wire # <<>>
      PROVE  /\ Head(wire) \in Payloads \cup Faults
             /\ Tail(wire) \in Seq(Payloads \cup Faults)
  BY <1>2 DEF StreamTyped
<1>3. ASSUME wire # <<>>, NEW i \in 1..(Len(Tail(wire)) - 1)
      PROVE  Tail(wire)[i] \in Payloads
  <2>1. Len(wire) \in Nat /\ Len(Tail(wire)) = Len(wire) - 1
    BY <1>3 DEF StreamTyped
  <2>2. i + 1 \in 1..(Len(wire) - 1) /\ Tail(wire)[i] = wire[i + 1]
    BY <1>3, <2>1 DEF StreamTyped
  <2> QED
    BY <2>2 DEF StreamTyped
<1> QED
  BY <1>1, <1>2, <1>3

\* What is read, drained or pushed leaves the two streams typed.
LEMMA StreamKept ==
  ASSUME TypeInv, [Next]_vars
  PROVE  StreamTyped'
<1>1. StreamTyped /\ house \in HouseStates /\ creq \in MaybeMode
  BY DEF TypeInv, TypeOK
<1>2. CASE UNCHANGED <<wire, queue>>
  BY <1>1, <1>2 DEF StreamTyped
<1>3. CASE HouseChanges
  <2>1. house' \in HouseStates
    BY <1>1, <1>3, HouseTyped DEF HouseChanges
  <2> QED
    BY <1>1, <1>3, <2>1, PushTyped DEF HouseChanges, StreamTyped
<1>4. CASE WireBreaks
  <2>1. PICK f \in Faults : wire' = Append(wire, f)
    BY <1>4 DEF WireBreaks
  <2>2. wire \in Seq(Payloads) /\ f \in Payloads \cup Faults
    BY <1>1, <1>4, Readable DEF WireBreaks
  <2>3. wire' \in Seq(Payloads \cup Faults) /\ \A i \in 1..(Len(wire') - 1) : wire'[i] \in Payloads
    BY <2>1, <2>2
  <2> QED
    BY <1>1, <1>4, <2>3 DEF WireBreaks, StreamTyped
<1>5. CASE ExchangeRuns \/ CFlagsReply \/ (CFlagsMissed /\ ~UNCHANGED <<wire, queue>>) \/ CRefused
  <2>1. ~Faulty(wire) /\ Drain
    <3>1. CASE ExchangeRuns
      BY <3>1 DEF ExchangeRuns
    <3>2. CASE CFlagsReply
      BY <3>2 DEF CFlagsReply
    <3>3. CASE CFlagsMissed /\ ~UNCHANGED <<wire, queue>>
      BY <3>3 DEF CFlagsMissed
    <3>4. CASE CRefused
      BY <3>4 DEF CRefused
    <3> QED
      BY <1>5, <3>1, <3>2, <3>3, <3>4
  <2> QED
    BY <1>1, <2>1, DrainTyped
<1>6. CASE (Faulty(wire) /\ DrainToFault) \/ CFaulted
  BY <1>1, <1>6, DrainToFaultTyped DEF CFaulted
<1>7. CASE LReceive
  BY <1>1, <1>7, TakeTyped DEF LReceive, StreamTyped
<1>8. CASE LClose \/ LConnect \/ CClose
  <2>1. wire' = <<>> /\ queue' \in {queue, <<>>}
    BY <1>8 DEF LClose, LConnect, CClose, Close
  <2>2. queue' \in Seq(Payloads)
    <3>1. queue \in Seq(Payloads) /\ <<>> \in Seq(Payloads)
      BY <1>1 DEF StreamTyped
    <3> QED
      BY <2>1, <3>1
  <2>3. wire' \in Seq(Payloads \cup Faults) /\ \A i \in 1..(Len(wire') - 1) : wire'[i] \in Payloads
    BY <2>1
  <2> QED
    BY <2>2, <2>3 DEF StreamTyped
<1>9. CASE CAccepted \/ CUnanswered
  <2>1. CASE Drain
    BY <1>1, <1>9, <2>1, DrainTyped DEF CAccepted, CUnanswered
  <2>2. CASE CarriedOut
    <3>1. house' \in HouseStates
      BY <1>1, <2>2, HouseTyped DEF CarriedOut, HouseAfter
    <3> QED
      BY <1>1, <1>9, <2>2, <3>1, CarriedOutTyped DEF CAccepted, CUnanswered
  <2> QED
    BY <1>9, <2>1, <2>2 DEF CAccepted, CUnanswered
<1>10. Environment => HouseChanges \/ WireBreaks \/ UNCHANGED <<wire, queue>>
  BY DEF Environment, FlagsCatchUp
<1>11. ListenLoop => \/ LReceive \/ ExchangeRuns \/ (Faulty(wire) /\ DrainToFault)
                    \/ UNCHANGED <<wire, queue>>
  BY DEF ListenLoop, LIdle, LReceiveFails, LCheckin, LCheckinMissed, LCheckinEnds, LTraffic, LPollStart,
         LPollReply, LPollMissed, LPollEnds, LPollCommit, LStuckRelogin, LHandle, LAreaCommit, ExchangeFails
<1>12. Reconnect => LClose \/ LConnect \/ UNCHANGED <<wire, queue>>
  BY DEF Reconnect, LLogin, LSnapshot, LSubscribe, LAttemptFails, LResume
<1>13. Taps => UNCHANGED <<wire, queue>>
  BY DEF Taps, DisarmIgnored, DisarmTap, ReadyTap, ArmBlocked, ArmIgnored, ArmTap, OnlyCommand
<1>14. CommandStep => \/ CAccepted \/ CUnanswered \/ CRefused \/ CFaulted
                     \/ CFlagsReply \/ (CFlagsMissed /\ ~UNCHANGED <<wire, queue>>) \/ CClose
                     \/ (Faulty(wire) /\ DrainToFault) \/ UNCHANGED <<wire, queue>>
  BY DEF CommandStep, CBlocked, CBounce, CNoSession, ArmAcked, DisarmAcked, CommandFails, Fails, ArmCollides,
         CRepublish, CRepublishSeen, CFlagsCommit, CFlagsMissed, CFlagsEnd
<1> QED
  BY <1>2, <1>3, <1>4, <1>5, <1>6, <1>7, <1>8, <1>9, <1>10, <1>11, <1>12, <1>13, <1>14 DEF Next, vars

\* Frames read from either stream and payloads the handlers make are payloads.
LEMMA SourcesTyped ==
  ASSUME TypeInv
  PROVE  /\ queue # <<>> => Head(queue) \in Payloads /\ Last(queue) \in Payloads
         /\ wire # <<>> /\ Head(wire) \notin Faults => Head(wire) \in Payloads
         /\ PayloadAfterAck \in Payloads
         /\ CoerceAfterDisarm(flags) \in Payloads
         /\ Faulty(wire) => Last(wire).kind \in {"junk", "eof"}
         /\ \A p : ObserveLive(gate, p) \in MaybeMode
<1>1. queue # <<>> => Head(queue) \in Payloads /\ Last(queue) \in Payloads
  BY DEF TypeInv, StreamTyped, Last
<1>2. wire # <<>> /\ Head(wire) \notin Faults => Head(wire) \in Payloads
  BY TakeTyped DEF TypeInv
<1>3. PayloadAfterAck \in Payloads
  BY <1>1 DEF PayloadAfterAck, TypeInv, TypeOK
<1>4. CoerceAfterDisarm(flags) \in Payloads
  BY PayloadsTyped DEF CoerceAfterDisarm, TypeInv, TypeOK
<1>5. Faulty(wire) => Last(wire).kind \in {"junk", "eof"}
  BY Readable DEF TypeInv, Faults, Junk, Eof, Unarmed
<1>6. \A p : ObserveLive(gate, p) \in MaybeMode
  BY PayloadsTyped DEF ObserveLive, TypeInv, TypeOK
<1> QED
  BY <1>1, <1>2, <1>3, <1>4, <1>5, <1>6

-----------------------------------------------------------------------------
(* The steps *)

\* The end of a session holds the payload it will restore.
LEMMA EndSessionTyped ==
  ASSUME HeldTyped, NEW u \in BOOLEAN, EndSession(u), faults' \in 0..MaxFaults
  PROVE  HeldTyped'
  BY PayloadsTyped DEF HeldTyped, HandsTyped, EndSession, ListenPcs, ReconnectPcs, Reconnecting

\* Faults stay within their bound.
LEMMA MisfortuneTyped ==
  ASSUME HeldTyped, Misfortune
  PROVE  faults' \in 0..MaxFaults
  BY BoundsAssumption DEF HeldTyped, Misfortune

\* The house, its flags and the wire.
LEMMA EnvironmentTyped ==
  ASSUME TypeInv, HeldTyped, Environment
  PROVE  HeldTyped'
<1> USE DEF HeldTyped, HandsTyped
<1>1. CASE HouseChanges
  BY <1>1, HouseTyped, BoundsAssumption DEF HouseChanges
<1>2. CASE FlagsCatchUp
  BY <1>2, HouseTyped DEF FlagsCatchUp
<1>3. CASE WireBreaks
  BY <1>3, BoundsAssumption DEF WireBreaks
<1> QED
  BY <1>1, <1>2, <1>3 DEF Environment

\* The listen loop: a payload is in hand wherever one is stored.
LEMMA ListenLoopTyped ==
  ASSUME TypeInv, HeldTyped, ListenLoop
  PROVE  HeldTyped'
<1> USE DEF ListenPcs, ReconnectPcs
<1>1. CASE LReceive
  BY <1>1, SourcesTyped, PayloadsTyped DEF LReceive, HeldTyped, HandsTyped, Reconnecting
<1>2. CASE LIdle
  BY <1>2, PayloadsTyped DEF LIdle, HeldTyped, HandsTyped, Reconnecting
<1>3. ASSUME ExchangeFails PROVE HeldTyped'
  <2>1. faults' \in 0..MaxFaults
    BY <1>3 DEF ExchangeFails, HeldTyped
  <2>2. PICK u \in BOOLEAN : EndSession(u)
    BY <1>3 DEF ExchangeFails
  <2> QED
    BY <2>1, <2>2, EndSessionTyped
<1>4. CASE LCheckin
  BY <1>4 DEF LCheckin, Recover, HeldTyped, HandsTyped, Reconnecting
<1>5. CASE LCheckinMissed
  BY <1>5, MisfortuneTyped DEF LCheckinMissed, HeldTyped, HandsTyped, Reconnecting
<1>6. CASE LCheckinEnds
  BY <1>3, <1>6, MisfortuneTyped, EndSessionTyped DEF LCheckinEnds
<1>7. CASE LTraffic
  BY <1>7 DEF LTraffic, Recover, HeldTyped, HandsTyped, Reconnecting
<1>8. CASE LPollStart
  BY <1>8, PayloadsTyped DEF LPollStart, HeldTyped, HandsTyped, Reconnecting
<1>9. CASE LPollReply
  BY <1>9, PayloadsTyped DEF LPollReply, HeldTyped, HandsTyped, Reconnecting
<1>10. CASE LPollMissed
  BY <1>10, PayloadsTyped, MisfortuneTyped DEF LPollMissed, HeldTyped, HandsTyped, Reconnecting
<1>11. CASE LPollCommit
  BY <1>11, PayloadsTyped, SourcesTyped DEF LPollCommit, Observe, HeldTyped, HandsTyped, Reconnecting
<1>12. CASE LStuckRelogin
  BY <1>12, EndSessionTyped DEF LStuckRelogin, HeldTyped
<1>13. CASE LHandle
  BY <1>13, PayloadsTyped DEF LHandle, HeldTyped, HandsTyped, Reconnecting
<1>14. CASE LAreaCommit
  BY <1>14, PayloadsTyped, SourcesTyped DEF LAreaCommit, Observe, HeldTyped, HandsTyped, Reconnecting
<1> QED
  BY <1>1, <1>2, <1>3, <1>4, <1>5, <1>6, <1>7, <1>8, <1>9, <1>10, <1>11, <1>12, <1>13, <1>14
     DEF ListenLoop, LReceiveFails, LPollEnds

\* The re-login: the payload captured at its start reaches its end.
LEMMA ReconnectTyped ==
  ASSUME TypeInv, HeldTyped, Reconnect
  PROVE  HeldTyped'
<1> USE DEF ListenPcs, ReconnectPcs, Reconnecting, HeldTyped, HandsTyped
<1>1. CASE LClose
  BY <1>1 DEF LClose, Close
<1>2. CASE LConnect
  BY <1>2 DEF LConnect
<1>3. CASE LLogin
  BY <1>3 DEF LLogin
<1>4. CASE LSnapshot
  BY <1>4, PayloadsTyped DEF LSnapshot
<1>5. CASE LSubscribe
  BY <1>5 DEF LSubscribe
<1>6. CASE LAttemptFails
  <2>1. faults' \in 0..MaxFaults
    BY <1>6, MisfortuneTyped DEF LAttemptFails
  <2> QED
    BY <1>6, <2>1, PayloadsTyped DEF LAttemptFails, EndGrace
<1>7. CASE LResume
  <2>1. gate' \in MaybeMode
    BY <1>7, SourcesTyped DEF LResume
  <2> QED
    BY <1>7, <2>1, PayloadsTyped DEF LResume, ResetTrust
<1> QED
  BY <1>1, <1>2, <1>3, <1>4, <1>5, <1>6, <1>7 DEF Reconnect

\* Taps.
LEMMA TapsTyped ==
  ASSUME TypeInv, HeldTyped, Taps
  PROVE  HeldTyped'
<1> USE DEF HeldTyped, HandsTyped, CommandPcs
<1>1. Tap => taps' \in 0..MaxTaps
  BY BoundsAssumption DEF Tap
<1>2. CASE DisarmIgnored \/ DisarmTap
  BY <1>1, <1>2, PayloadsTyped DEF DisarmIgnored, DisarmTap, OnlyCommand
<1>3. ASSUME NEW m \in Modes, ReadyTap(m) PROVE HeldTyped'
  BY <1>1, <1>3 DEF ReadyTap
<1>4. ASSUME NEW m \in Modes, ArmBlocked(m) \/ ArmIgnored(m) \/ ArmTap(m) PROVE HeldTyped'
  BY <1>1, <1>4, PayloadsTyped DEF ArmBlocked, ArmIgnored, ArmTap, OnlyCommand
<1> QED
  BY <1>2, <1>3, <1>4 DEF Taps

\* The command task after a tap.
LEMMA CommandTyped ==
  ASSUME TypeInv, HeldTyped, CommandStep
  PROVE  HeldTyped'
<1> USE DEF CommandPcs, Outcomes, HeldTyped, HandsTyped, Done, Goes
<1>0. HouseAfter \in HouseStates
  BY HouseTyped DEF HouseAfter
<1>1. CASE CBlocked
  BY <1>1, PayloadsTyped DEF CBlocked
<1>2. CASE CBounce
  BY <1>2, PayloadsTyped DEF CBounce
<1>3. CASE CAccepted
  BY <1>0, <1>3 DEF CAccepted, CarriedOut, Sent
<1>4. CASE CRefused
  BY <1>4, MisfortuneTyped DEF CRefused, Sent
<1>5. CASE CUnanswered
  BY <1>0, <1>5, MisfortuneTyped DEF CUnanswered, CarriedOut, Sent
<1>6. CASE CFaulted
  BY <1>0, <1>6, SourcesTyped DEF CFaulted, Sent
<1>7. ASSUME NEW o, Fails(o) PROVE HeldTyped'
  <2>1. cpc' \in {"idle", "republish", "republishSeen"} /\ creq' \in {creq, NoMode} /\ cout' \in {cout, "none"}
    BY <1>7 DEF Fails
  <2>2. cseen' \in {cseen, NoPayload, alarm} /\ (cpc' = "republishSeen" => cseen' = alarm)
    BY <1>7 DEF Fails
  <2> QED
    <3>1. HandsTyped'
      BY <1>7, <2>1, <2>2 DEF Fails
    <3>2. cseen' \in MaybePayload /\ creq' \in MaybeMode
      BY <2>1, <2>2, PayloadsTyped
    <3> QED
      BY <1>7, <2>1, <3>1, <3>2 DEF Fails
<1>8. CASE ArmAcked
  BY <1>8, PayloadsTyped DEF ArmAcked
<1>9. CASE DisarmAcked
  <2>1. alarm' \in Payloads /\ cseen' \in {cseen, NoPayload, PayloadAfterAck}
    BY <1>9, PayloadsTyped DEF DisarmAcked
  <2>2. cpc' \in {"idle", "flags"} /\ creq' \in {creq, NoMode} /\ cout' \in {cout, "none"}
    BY <1>9 DEF DisarmAcked
  <2>3. cseen' \in MaybePayload
    BY <2>1, PayloadsTyped, SourcesTyped
  <2> QED
    BY <1>9, <2>1, <2>2, <2>3, PayloadsTyped DEF DisarmAcked
<1>10. CASE ArmCollides
  BY <1>10 DEF ArmCollides
<1>11. CASE CRepublish \/ CRepublishSeen
  BY <1>11, PayloadsTyped DEF CRepublish, CRepublishSeen
<1>12. CASE CFlagsReply
  BY <1>12, PayloadsTyped, SourcesTyped DEF CFlagsReply
<1>13. CASE CFlagsCommit
  BY <1>13, PayloadsTyped DEF CFlagsCommit
<1>14. CASE CFlagsMissed
  <2>1. faults' \in 0..MaxFaults
    BY <1>14, MisfortuneTyped DEF CFlagsMissed
  <2> QED
    BY <1>14, <2>1, PayloadsTyped DEF CFlagsMissed
<1>15. CASE CFlagsEnd
  BY <1>15 DEF CFlagsEnd
<1>16. CASE CClose
  BY <1>16, PayloadsTyped DEF CClose, Close
<1> QED
  BY <1>1, <1>2, <1>3, <1>4, <1>5, <1>6, <1>7, <1>8, <1>9, <1>10, <1>11, <1>12, <1>13, <1>14, <1>15, <1>16
     DEF CommandStep, CommandFails, CNoSession

-----------------------------------------------------------------------------
\* Every variable keeps to the values the code can give it; in particular
\* only alarm payloads are ever published or stored.
THEOREM Typed == Spec => []TypeOK
<1>1. Init => TypeInv
  <2> SUFFICES ASSUME Init PROVE TypeInv
    OBVIOUS
  <2>1. house \in HouseStates /\ Shown(house) \in FlagsPayloads
    <3>1. house \in HouseStates /\ Shown(house) \in FlagsViews(house)
      BY DEF Init, FlagsViews
    <3> QED
      BY <3>1, HouseTyped
  <2>2. wire = <<>> /\ queue = <<>>
    BY DEF Init
  <2>3. StreamTyped
    BY <2>2 DEF StreamTyped
  <2>4. HandsTyped
    BY DEF Init, HandsTyped, Reconnecting
  <2>5. flags \in FlagsPayloads /\ alarm \in Payloads /\ mqttAlarm \in Payloads
    BY <2>1, PayloadsTyped DEF Init
  <2>6. events \in 0..MaxEvents /\ taps \in 0..MaxTaps /\ faults \in 0..MaxFaults
    BY BoundsAssumption DEF Init
  <2>7. HeldTyped
    BY <2>1, <2>4, <2>5, <2>6, PayloadsTyped
       DEF Init, HeldTyped, ListenPcs, CommandPcs, Outcomes
  <2>8. TypeOK
    BY <2>3, <2>7 DEF TypeOK, HeldTyped, StreamTyped
  <2> QED
    BY <2>3, <2>4, <2>8 DEF TypeInv
<1>2. TypeInv /\ [Next]_vars => TypeInv'
  <2> SUFFICES ASSUME TypeInv, [Next]_vars PROVE TypeInv'
    OBVIOUS
  <2>1. HeldTyped
    BY DEF TypeInv, TypeOK, HeldTyped
  <2>2. StreamTyped'
    BY StreamKept
  <2>3. ASSUME UNCHANGED vars PROVE HeldTyped'
    <3>1. HandsTyped'
      BY <2>1, <2>3 DEF HeldTyped, HandsTyped, vars
    <3> QED
      BY <2>1, <2>3, <3>1 DEF HeldTyped, vars
  <2>4. HeldTyped'
    <3>1. ASSUME Next PROVE HeldTyped'
      BY <2>1, <3>1, EnvironmentTyped, ListenLoopTyped, ReconnectTyped, TapsTyped, CommandTyped DEF Next
    <3> QED
      BY <2>3, <3>1
  <2> QED
    BY <2>2, <2>4 DEF TypeInv, TypeOK, HeldTyped, StreamTyped
<1>3. TypeInv => TypeOK
  BY DEF TypeInv
<1> QED
  BY <1>1, <1>2, <1>3, PTL DEF Spec
=============================================================================
