------------------------- MODULE AlarmBridgeProofs -------------------------
(***************************************************************************)
(* Proofs about the two tasks of AlarmBridge, for every set of arm modes   *)
(* and every number of events, taps and faults.                            *)
(*                                                                         *)
(* Each invariant is inductive with at most one strengthening: the two     *)
(* tasks are tied together by what they may write in which of their        *)
(* suspension points, not by how a point was reached.                      *)
(***************************************************************************)
EXTENDS AlarmBridgeTypes

-----------------------------------------------------------------------------
(* Which task writes what *)

USE DEF panel, session, memory, trust, topics, listen, command, bounds

\* The environment, the taps and the command task leave the listen task's
\* own variables alone.
LEMMA OthersKeepListen ==
  Environment \/ Taps \/ CommandStep => UNCHANGED listen
<1>1. Environment => UNCHANGED listen
  BY DEF Environment, HouseChanges, FlagsCatchUp, WireBreaks
<1>2. Taps => UNCHANGED listen
  BY DEF Taps, DisarmIgnored, DisarmTap, ReadyTap, ArmBlocked, ArmIgnored, ArmTap, OnlyCommand
<1>3. CommandStep => UNCHANGED listen
  BY DEF CommandStep, CBlocked, CBounce, CAccepted, CRefused, CUnanswered, CFaulted, CNoSession,
         ArmAcked, DisarmAcked, CommandFails, Fails, ArmCollides, CRepublish, CRepublishSeen,
         CFlagsReply, CFlagsCommit, CFlagsMissed, CFlagsEnd, CClose, Sent
<1> QED
  BY <1>1, <1>2, <1>3

\* Outside the listen task the tracker and the Connection topic change only
\* together, and only for the worse.
LEMMA OthersDegrade ==
  Environment \/ Taps \/ CommandStep =>
    UNCHANGED <<live, link>> \/ (live' = FALSE /\ link' = "OFF")
<1>1. Environment => UNCHANGED <<live, link>>
  BY DEF Environment, HouseChanges, FlagsCatchUp, WireBreaks
<1>2. Taps => UNCHANGED <<live, link>>
  BY DEF Taps, DisarmIgnored, DisarmTap, ReadyTap, ArmBlocked, ArmIgnored, ArmTap, OnlyCommand
<1>3. CommandStep => UNCHANGED <<live, link>> \/ (live' = FALSE /\ link' = "OFF")
  BY DEF CommandStep, CBlocked, CBounce, CAccepted, CRefused, CUnanswered, CFaulted, CNoSession,
         ArmAcked, DisarmAcked, CommandFails, Fails, ArmCollides, CRepublish, CRepublishSeen,
         CFlagsReply, CFlagsCommit, CFlagsMissed, CFlagsEnd, CClose, Sent, Goes, Done
<1> QED
  BY <1>1, <1>2, <1>3

-----------------------------------------------------------------------------
(* Connection *)

\* Every step of the listen loop keeps the retained Connection and the trust
\* tracker in agreement, or ends the session.
LEMMA ListenKeepsLink ==
  ASSUME LinkMatchesTrust, lpc \in ListenPcs, ListenLoop
  PROVE  LinkMatchesTrust'
<1> USE DEF LinkMatchesTrust, ListenPcs
<1>1. CASE LReceive \/ LIdle
  BY <1>1 DEF LReceive, LIdle
<1>2. CASE LReceiveFails \/ LCheckinEnds \/ LPollEnds \/ LStuckRelogin
  <2>1. lpc' = "close"
    BY <1>2 DEF LReceiveFails, LCheckinEnds, LPollEnds, LStuckRelogin, ExchangeFails, EndSession
  <2> QED
    BY <2>1
<1>3. CASE LCheckin \/ LCheckinMissed \/ LTraffic
  BY <1>3 DEF LCheckin, LCheckinMissed, LTraffic, Recover
<1>4. CASE LPollStart \/ LPollReply \/ LPollMissed \/ LPollCommit \/ LHandle \/ LAreaCommit
  BY <1>4 DEF LPollStart, LPollReply, LPollMissed, LPollCommit, LHandle, LAreaCommit
<1> QED
  BY <1>1, <1>2, <1>3, <1>4 DEF ListenLoop

\* While the listen loop runs, the retained Connection says what the trust
\* tracker believes, whatever the command task degrades and when.
THEOREM LinkAgrees == Spec => []LinkMatchesTrust
<1>1. Init => LinkMatchesTrust
  BY DEF Init, LinkMatchesTrust
<1>2. LinkMatchesTrust /\ [Next]_vars => LinkMatchesTrust'
  <2> SUFFICES ASSUME LinkMatchesTrust, [Next]_vars PROVE LinkMatchesTrust'
    OBVIOUS
  <2>1. CASE Environment \/ Taps \/ CommandStep
    BY <2>1, OthersKeepListen, OthersDegrade DEF LinkMatchesTrust
  <2>2. CASE ListenLoop
    <3>1. lpc \in ListenPcs
      BY <2>2 DEF ListenLoop, ListenPcs, LReceive, LIdle, LReceiveFails, LCheckin, LCheckinMissed,
             LCheckinEnds, LTraffic, LPollStart, LPollReply, LPollMissed, LPollEnds, LPollCommit,
             LStuckRelogin, LHandle, LAreaCommit, Settling
    <3> QED
      BY <2>2, <3>1, ListenKeepsLink
  <2>3. CASE Reconnect
    <3>1. CASE LResume
      BY <3>1 DEF LResume, ResetTrust, LinkMatchesTrust
    <3>2. CASE LClose \/ LConnect \/ LLogin \/ LSnapshot \/ LSubscribe \/ LAttemptFails
      BY <3>2 DEF LClose, LConnect, LLogin, LSnapshot, LSubscribe, LAttemptFails, LinkMatchesTrust, ListenPcs
    <3> QED
      BY <2>3, <3>1, <3>2 DEF Reconnect
  <2>4. CASE UNCHANGED vars
    BY <2>4 DEF vars, LinkMatchesTrust
  <2> QED
    BY <2>1, <2>2, <2>3, <2>4 DEF Next
<1> QED
  BY <1>1, <1>2, PTL DEF Spec

\* Connection is off through a re-login, except during the one attempt a
\* collision is granted.
THEOREM OffWhileHealing == Spec => []ConnectionOffWhileHealing
<1> USE DEF Reconnecting
<1>1. Init => ConnectionOffWhileHealing
  BY DEF Init, ConnectionOffWhileHealing
<1>2. ConnectionOffWhileHealing /\ [Next]_vars => ConnectionOffWhileHealing'
  <2> SUFFICES ASSUME ConnectionOffWhileHealing, [Next]_vars PROVE ConnectionOffWhileHealing'
    OBVIOUS
  <2> USE DEF ConnectionOffWhileHealing
  <2>1. CASE Environment \/ Taps \/ CommandStep
    BY <2>1, OthersKeepListen, OthersDegrade
  <2>2. CASE LReceiveFails \/ LCheckinEnds \/ LPollEnds \/ LStuckRelogin
    <3>1. grace' \/ link' = "OFF"
      BY <2>2 DEF LReceiveFails, LCheckinEnds, LPollEnds, LStuckRelogin, ExchangeFails, EndSession
    <3>2. first' = TRUE
      BY <2>2 DEF LReceiveFails, LCheckinEnds, LPollEnds, LStuckRelogin, ExchangeFails, EndSession
    <3> QED
      BY <3>1, <3>2
  <2>3. CASE ListenLoop /\ ~(LReceiveFails \/ LCheckinEnds \/ LPollEnds \/ LStuckRelogin)
    <3>1. lpc' \in ListenPcs
      BY <2>3 DEF ListenLoop, ListenPcs, LReceive, LIdle, LCheckin, LCheckinMissed, LTraffic, LPollStart,
             LPollReply, LPollMissed, LPollCommit, LHandle, LAreaCommit
    <3> QED
      BY <3>1 DEF ListenPcs
  <2>4. CASE LClose \/ LConnect \/ LLogin \/ LSnapshot
    BY <2>4 DEF LClose, LConnect, LLogin, LSnapshot
  <2>5. CASE LSubscribe \/ LResume
    BY <2>5 DEF LSubscribe, LResume
  <2>6. CASE LAttemptFails
    BY <2>6 DEF LAttemptFails, EndGrace
  <2>7. CASE UNCHANGED vars
    BY <2>7 DEF vars
  <2> QED
    BY <2>1, <2>2, <2>3, <2>4, <2>5, <2>6, <2>7 DEF Next, Reconnect
<1> QED
  BY <1>1, <1>2, PTL DEF Spec

-----------------------------------------------------------------------------
(* The memory of the last accepted arm *)

\* A live payload either keeps the remembered gesture or ends it.
LEMMA ObserveKeepsOrEnds ==
  ASSUME NEW g, NEW p
  PROVE  ObserveLive(g, p) \in {g, NoMode}
  BY DEF ObserveLive

\* The trust tracker's memory of the last accepted arm never outlives, and
\* never disagrees with, the arm gate's.
THEOREM AckWithinGate == Spec => []AckMemoryWithinGate
<1>1. Init => AckMemoryWithinGate
  BY DEF Init, AckMemoryWithinGate
<1>2. AckMemoryWithinGate /\ [Next]_vars => AckMemoryWithinGate'
  <2> SUFFICES ASSUME AckMemoryWithinGate, [Next]_vars PROVE AckMemoryWithinGate'
    OBVIOUS
  <2> USE DEF AckMemoryWithinGate
  <2>1. CASE Environment
    BY <2>1 DEF Environment, HouseChanges, FlagsCatchUp, WireBreaks
  <2>2. CASE Taps
    BY <2>2 DEF Taps, DisarmIgnored, DisarmTap, ReadyTap, ArmBlocked, ArmIgnored, ArmTap, OnlyCommand
  <2>3. CASE LPollCommit
    BY <2>3, ObserveKeepsOrEnds DEF LPollCommit, Observe
  <2>4. CASE LAreaCommit
    BY <2>4, ObserveKeepsOrEnds DEF LAreaCommit, Observe
  <2>5. CASE ListenLoop /\ ~LPollCommit /\ ~LAreaCommit
    BY <2>5 DEF ListenLoop, LReceive, LIdle, LReceiveFails, LCheckin, LCheckinMissed, LCheckinEnds, LTraffic,
           LPollStart, LPollReply, LPollMissed, LPollEnds, LStuckRelogin, LHandle, ExchangeFails, EndSession
  <2>6. CASE LResume
    BY <2>6 DEF LResume, ResetTrust
  <2>7. CASE Reconnect /\ ~LResume
    BY <2>7 DEF Reconnect, LClose, LConnect, LLogin, LSnapshot, LSubscribe, LAttemptFails
  <2>8. CASE ArmAcked \/ DisarmAcked
    BY <2>8 DEF ArmAcked, DisarmAcked
  <2>9. CASE CommandStep /\ ~ArmAcked /\ ~DisarmAcked
    BY <2>9 DEF CommandStep, CBlocked, CBounce, CAccepted, CRefused, CUnanswered, CFaulted, CNoSession,
           CommandFails, Fails, ArmCollides, CRepublish, CRepublishSeen,
           CFlagsReply, CFlagsCommit, CFlagsMissed, CFlagsEnd, CClose, Sent
  <2>10. CASE UNCHANGED vars
    BY <2>10 DEF vars
  <2> QED
    BY <2>1, <2>2, <2>3, <2>4, <2>5, <2>6, <2>7, <2>8, <2>9, <2>10 DEF Next
<1> QED
  BY <1>1, <1>2, PTL DEF Spec

-----------------------------------------------------------------------------
(* Exit and entry over flags reads *)

\* No flags read can show exit or entry.
LEMMA FlagsViewsSettled ==
  ASSUME NEW h, NEW p \in FlagsViews(h)
  PROVE  p \notin Transient
<1> USE DEF Transient, Arming, Pending, Disarmed, Unarmed, Armed, Shown
<1>1. CASE h.kind = "arming"
  BY <1>1 DEF FlagsViews
<1>2. CASE h.kind = "pending"
  BY <1>2 DEF FlagsViews
<1>3. CASE h.kind # "arming" /\ h.kind # "pending"
  <2>1. p = Shown(h)
    BY <1>3 DEF FlagsViews
  <2> QED
    BY <1>3, <2>1
<1> QED
  BY <1>1, <1>2, <1>3

\* Over exit or entry a poll or a snapshot may publish an alarm and nothing
\* else.
LEMMA OnlyAlarmReplacesTransient ==
  ASSUME NEW current \in Transient, NEW decoded, PollMayReplace(current, decoded)
  PROVE  decoded = Triggered
  BY DEF PollMayReplace, MayReplaceLive

\* Where the listen task holds a payload it captured before an exchange.
Guarded == {"poll", "close"} \cup Reconnecting

\* The captured payload is good enough as a guard: the shared payload may
\* change under it, but never to exit or entry, because all the command task
\* ever stores is unset or a flags read.
CaptureHolds ==
    /\ flags \notin Transient
    /\ cpc = "flagsCommit" => cseen \notin Transient
    /\ lpc \in Guarded /\ alarm \in Transient => lold = alarm

\* The listen task's half of the induction.
LEMMA ListenKeepsCapture ==
  ASSUME CaptureHolds, ListenLoop \/ Reconnect
  PROVE  CaptureHolds'
<1> USE DEF CaptureHolds, Guarded, Reconnecting
<1>1. CASE LReceiveFails \/ LCheckinEnds \/ LPollEnds \/ LStuckRelogin
  BY <1>1 DEF LReceiveFails, LCheckinEnds, LPollEnds, LStuckRelogin, ExchangeFails, EndSession
<1>2. CASE LReceive \/ LIdle \/ LCheckin \/ LCheckinMissed \/ LTraffic
  BY <1>2 DEF LReceive, LIdle, LCheckin, LCheckinMissed, LTraffic
<1>3. CASE LPollStart
  BY <1>3 DEF LPollStart
<1>4. CASE LPollReply \/ LPollMissed \/ LPollCommit \/ LHandle \/ LAreaCommit
  BY <1>4 DEF LPollReply, LPollMissed, LPollCommit, LHandle, LAreaCommit
<1>5. CASE LClose \/ LConnect \/ LLogin \/ LSnapshot
  BY <1>5 DEF LClose, LConnect, LLogin, LSnapshot
<1>6. CASE LSubscribe \/ LResume
  BY <1>6 DEF LSubscribe, LResume
<1>7. CASE LAttemptFails
  BY <1>7 DEF LAttemptFails
<1> QED
  BY <1>1, <1>2, <1>3, <1>4, <1>5, <1>6, <1>7 DEF ListenLoop, Reconnect

\* The command task's half.
LEMMA CommandKeepsCapture ==
  ASSUME CaptureHolds, CommandStep
  PROVE  CaptureHolds'
<1> USE DEF CaptureHolds
<1>1. UNCHANGED listen /\ UNCHANGED flags
  <2>1. UNCHANGED flags
    BY DEF CommandStep, CBlocked, CBounce, CAccepted, CRefused, CUnanswered, CFaulted, CNoSession,
           ArmAcked, DisarmAcked, CommandFails, Fails, ArmCollides, CRepublish, CRepublishSeen,
           CFlagsReply, CFlagsCommit, CFlagsMissed, CFlagsEnd, CClose, Sent
  <2> QED
    BY <2>1, OthersKeepListen
<1>2. CASE DisarmAcked
  <2>1. cpc' # "flagsCommit" /\ alarm' \in {alarm, Disarmed}
    BY <1>2 DEF DisarmAcked, Goes, Done
  <2> QED
    BY <1>1, <2>1 DEF Transient, Arming, Pending, Disarmed, Unarmed
<1>3. CASE CFlagsReply
  <2>1. alarm' = alarm
    BY <1>3 DEF CFlagsReply
  <2>2. cpc' = "flagsCommit" => cseen' \in {flags, Disarmed}
    BY <1>3 DEF CFlagsReply, CoerceAfterDisarm, Goes, Done
  <2> QED
    BY <1>1, <2>1, <2>2 DEF Transient, Arming, Pending, Disarmed, Unarmed
<1>4. CASE CFlagsCommit
  BY <1>1, <1>4 DEF CFlagsCommit, Done
<1>5. CASE CommandStep /\ ~DisarmAcked /\ ~CFlagsReply /\ ~CFlagsCommit
  <2>1. alarm' = alarm /\ cpc' # "flagsCommit"
    BY <1>5 DEF CommandStep, CBlocked, CBounce, CAccepted, CRefused, CUnanswered, CFaulted, CNoSession,
           ArmAcked, CommandFails, Fails, ArmCollides, CRepublish, CRepublishSeen,
           CFlagsMissed, CFlagsEnd, CClose, Sent, Goes, Done
  <2> QED
    BY <1>1, <2>1
<1> QED
  BY <1>2, <1>3, <1>4, <1>5

\* Exit and entry survive flags reads: a poll or a re-login snapshot taken
\* while the bridge holds "arming" or "pending" publishes an alarm or nothing.
THEOREM TransientKept == Spec => FlagsKeepTransient
<1>1. Init => CaptureHolds
  <2> SUFFICES ASSUME Init PROVE CaptureHolds
    OBVIOUS
  <2>1. flags \notin Transient
    BY DEF Init, Shown, Transient, Arming, Pending, Unarmed, Armed
  <2> QED
    BY <2>1 DEF Init, CaptureHolds, Guarded, Reconnecting
<1>2. CaptureHolds /\ [Next]_vars => CaptureHolds'
  <2> SUFFICES ASSUME CaptureHolds, [Next]_vars PROVE CaptureHolds'
    OBVIOUS
  <2>1. CASE Environment
    BY <2>1, FlagsViewsSettled DEF CaptureHolds, Environment, HouseChanges, FlagsCatchUp, WireBreaks
  <2>2. CASE Taps
    BY <2>2 DEF CaptureHolds, Taps, DisarmIgnored, DisarmTap, ReadyTap, ArmBlocked, ArmIgnored, ArmTap, OnlyCommand
  <2>3. CASE UNCHANGED vars
    BY <2>3 DEF CaptureHolds, vars
  <2> QED
    BY <2>1, <2>2, <2>3, ListenKeepsCapture, CommandKeepsCapture DEF Next
<1>3. CaptureHolds /\ [Next]_vars =>
        [/\ lpc \in {"poll", "snapshot"} /\ lpc' # lpc
         /\ alarm \in Transient
         => mqttAlarm' \in {mqttAlarm, Triggered}]_vars
  <2> SUFFICES ASSUME CaptureHolds, Next, lpc \in {"poll", "snapshot"}, lpc' # lpc, alarm \in Transient
               PROVE  mqttAlarm' \in {mqttAlarm, Triggered}
    OBVIOUS
  <2>1. lold = alarm
    BY DEF CaptureHolds, Guarded, Reconnecting
  <2>2. ListenLoop \/ Reconnect
    BY OthersKeepListen DEF Next
  <2>3. CASE LPollReply \/ LSnapshot
    BY <2>1, <2>3, OnlyAlarmReplacesTransient DEF LPollReply, LSnapshot
  <2>4. CASE LPollMissed \/ LPollEnds \/ LAttemptFails
    BY <2>4 DEF LPollMissed, LPollEnds, LAttemptFails, ExchangeFails, EndSession
  <2> QED
    BY <2>2, <2>3, <2>4
       DEF ListenLoop, Reconnect, Settling, LReceive, LIdle, LReceiveFails, LCheckin, LCheckinMissed,
           LCheckinEnds, LTraffic, LPollStart, LPollCommit, LStuckRelogin, LHandle, LAreaCommit,
           LClose, LConnect, LLogin, LSubscribe, LResume
<1> QED
  BY <1>1, <1>2, <1>3, PTL DEF Spec, FlagsKeepTransient

-----------------------------------------------------------------------------
(* The Connection topic as its readers see it *)

\* A step that leaves the listen task and the topic alone is not seen.
LEMMA SameView ==
  UNCHANGED <<lpc, live, link, grace, first>> => UNCHANGED Connection!vars
BY DEF Connection!vars, ListenPcs, Reconnecting

\* Listening goes on: the topic is left alone or trust is regained.
LEMMA StillListening ==
  ASSUME lpc \in ListenPcs, lpc' \in ListenPcs, UNCHANGED <<live, link>> \/ Recover
  PROVE  Connection!Next \/ UNCHANGED Connection!vars
<1> USE DEF ListenPcs, Reconnecting
<1>1. CASE UNCHANGED <<live, link>>
  BY <1>1 DEF Connection!vars
<1>2. CASE Recover
  BY <1>2 DEF Recover, Connection!Recovers, Connection!Next
<1> QED
  BY <1>1, <1>2

\* The end of a session from anywhere in the listen loop.
LEMMA SessionEnds ==
  ASSUME lpc \in ListenPcs, NEW u \in BOOLEAN, EndSession(u), collision \in BOOLEAN
  PROVE  Connection!SessionLost
<1>1. lpc' = "close" /\ first' = TRUE /\ live' = live
  BY DEF EndSession
<1>2. grace' \in BOOLEAN /\ link' = IF grace' THEN link ELSE "OFF"
  BY DEF EndSession
<1> QED
  BY <1>1, <1>2 DEF Connection!SessionLost, ListenPcs, Reconnecting

\* Every step of the two tasks is a step of PanelConnection or leaves the
\* topic alone.
LEMMA NextConnection ==
  ASSUME TypeOK, ConnectionOffWhileHealing, [Next]_vars
  PROVE  [Connection!Next]_(Connection!vars)
<1>1. CASE Environment \/ Taps \/ CommandStep
  <2>1. CASE UNCHANGED <<live, link>>
    BY <1>1, <2>1, OthersKeepListen, SameView
  <2>2. CASE live' = FALSE /\ link' = "OFF"
    BY <1>1, <2>2, OthersKeepListen
       DEF Connection!TapFails, Connection!Next, ListenPcs, Reconnecting
  <2> QED
    BY <1>1, <2>1, <2>2, OthersDegrade
<1>2. CASE LReceiveFails \/ LCheckinEnds \/ LPollEnds \/ LStuckRelogin
  <2>1. lpc \in ListenPcs
    BY <1>2 DEF LReceiveFails, LCheckinEnds, LPollEnds, LStuckRelogin, Settling, ListenPcs
  <2>2. EndSession(TRUE) \/ EndSession(FALSE)
    BY <1>2 DEF LReceiveFails, LCheckinEnds, LPollEnds, LStuckRelogin, ExchangeFails
  <2> QED
    BY <2>1, <2>2, SessionEnds DEF TypeOK, Connection!Next
<1>3. CASE ListenLoop /\ ~(LReceiveFails \/ LCheckinEnds \/ LPollEnds \/ LStuckRelogin)
  <2>1. lpc \in ListenPcs /\ lpc' \in ListenPcs
    BY <1>3 DEF ListenLoop, ListenPcs, Settling, LReceive, LIdle, LCheckin, LCheckinMissed, LTraffic,
           LPollStart, LPollReply, LPollMissed, LPollCommit, LHandle, LAreaCommit
  <2>2. UNCHANGED <<live, link>> \/ Recover
    BY <1>3 DEF ListenLoop, LReceive, LIdle, LCheckin, LCheckinMissed, LTraffic,
           LPollStart, LPollReply, LPollMissed, LPollCommit, LHandle, LAreaCommit
  <2> QED
    BY <2>1, <2>2, StillListening
<1>4. CASE LClose \/ LConnect \/ LLogin \/ LSnapshot
  BY <1>4 DEF LClose, LConnect, LLogin, LSnapshot, Connection!vars, ListenPcs, Reconnecting
<1>5. CASE LSubscribe
  BY <1>5 DEF LSubscribe, Connection!Restores, Connection!Next, ListenPcs, Reconnecting
<1>6. CASE LAttemptFails
  <2>1. link' = "OFF"
    BY <1>6 DEF LAttemptFails, EndGrace, ConnectionOffWhileHealing
  <2>2. lpc \in Reconnecting /\ lpc' = "close" /\ first' = FALSE /\ live' = live
    BY <1>6 DEF LAttemptFails
  <2> QED
    BY <2>1, <2>2 DEF Connection!AttemptFails, Connection!Next, ListenPcs, Reconnecting
<1>7. CASE LResume
  BY <1>7 DEF LResume, ResetTrust, Connection!Resumes, Connection!Next, ListenPcs, Reconnecting
<1>8. CASE UNCHANGED vars
  BY <1>8, SameView DEF vars
<1> QED
  BY <1>1, <1>2, <1>3, <1>4, <1>5, <1>6, <1>7, <1>8 DEF Next, Reconnect

\* The two tasks implement PanelConnection: however a tap's failure, a
\* re-login and a recovery interleave, the retained topic changes only as its
\* readers are promised.
THEOREM BridgeKeepsPromise == Spec => ConnectionSpec
<1>1. Init => Connection!Init
  BY DEF Init, Connection!Init, ListenPcs, Reconnecting
<1>2. TypeOK /\ ConnectionOffWhileHealing /\ [Next]_vars => [Connection!Next]_(Connection!vars)
  BY NextConnection
<1> QED
  BY <1>1, <1>2, Typed, OffWhileHealing, PTL DEF Spec, ConnectionSpec, Connection!Spec
=============================================================================
