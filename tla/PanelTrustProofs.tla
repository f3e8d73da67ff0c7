-------------------------- MODULE PanelTrustProofs --------------------------
(***************************************************************************)
(* Proofs that the windows of PanelTrust do what they promise for every    *)
(* setting of the intervals and windows, and for a clock that runs as long *)
(* as wanted.                                                              *)
(*                                                                         *)
(* The promises are about now; the code only looks at the clock at a few   *)
(* points of a pass.  The invariant therefore bounds now by the start of   *)
(* the last check-in, and that start by the clock readings the windows are *)
(* measured from.                                                          *)
(***************************************************************************)
EXTENDS PanelTrust, TLAPS

\* No clock reading lies in the future.
ReadingsPast ==
    /\ lastCheckin <= now /\ lastOk <= now /\ streakSince <= now
    /\ cmdFailAt <= now /\ offSince <= now

\* The loop starts and finishes a check-in in time.
OnSchedule ==
    /\ pc = "checkin" => now <= lastCheckin + AnswerTimeout
    /\ pc \in {"recv", "pass"} => now <= lastCheckin + CheckinInterval + Lag

\* Without a streak the last check-in was answered; with one, it was the
\* next check-in that started the streak, and none begun since patience ran
\* out has been passed over.
StreakPlaced ==
    /\ streakSince = NoTime =>
        /\ pc \in {"recv", "pass"} => lastCheckin <= lastOk
        /\ pc = "checkin" => lastCheckin <= lastOk + CheckinInterval + Lag
    /\ streakSince # NoTime =>
        /\ lastOk <= streakSince /\ streakSince <= lastOk + Round
        /\ pc \in {"recv", "pass"} => lastCheckin < streakSince + Patience
        /\ pc = "checkin" => lastCheckin < streakSince + Patience + CheckinInterval + Lag

\* A degrade starts at the failed tap that took Connection off, and no pass
\* has ended with it older than the fail window.
DegradePlaced ==
    ~live =>
        /\ degradedSince = offSince /\ offSince # NoTime
        /\ cmdFailAt # NoTime
        /\ pc = "recv" => lastCheckin < offSince + FailWindow
        /\ pc \in {"checkin", "pass"} => lastCheckin < offSince + FailWindow + CheckinInterval + Lag

\* The published Connection and the tracker agree while the loop runs, and
\* the tracker is not live inside a recover window.
LinkPlaced ==
    /\ link = "ON" <=> live
    /\ cmdFailAt # NoTime /\ Since(cmdFailAt) < RecoverWindow => ~live

IInv == TypeOK /\ ReadingsPast /\ (Listening => OnSchedule /\ StreakPlaced /\ DegradePlaced /\ LinkPlaced)

-----------------------------------------------------------------------------
USE DEF NoTime, Reading, MaybeReading, Listening, Since, Round

\* The invariant holds when monitoring starts.
LEMMA InitIInv == Init => IInv
<1> SUFFICES ASSUME Init PROVE IInv
  OBVIOUS
<1>1. TypeOK
  <2>1. now \in Reading /\ lastCheckin \in Reading /\ lastOk \in Reading
    BY WindowsAssumption DEF Init
  <2>2. /\ streakSince \in MaybeReading /\ cmdFailAt \in MaybeReading
        /\ degradedSince \in MaybeReading /\ offSince \in MaybeReading
    BY DEF Init
  <2>3. frame \in BOOLEAN /\ live \in BOOLEAN /\ (live <=> degradedSince = NoTime)
    BY DEF Init
  <2>4. /\ pc \in {"recv", "checkin", "pass", "down"} /\ link \in {"ON", "OFF"}
        /\ why \in {"none", "dead", "broken", "stuck"}
    BY DEF Init
  <2> QED
    BY <2>1, <2>2, <2>3, <2>4 DEF TypeOK
<1>2. ReadingsPast /\ OnSchedule
  BY WindowsAssumption DEF Init, ReadingsPast, OnSchedule
<1>3. StreakPlaced /\ DegradePlaced
  BY WindowsAssumption DEF Init, StreakPlaced, DegradePlaced
<1>4. LinkPlaced
  BY DEF Init, LinkPlaced
<1> QED
  BY <1>1, <1>2, <1>3, <1>4 DEF IInv

\* Every step keeps the types and keeps clock readings in the past.
LEMMA NextTyped == TypeOK /\ ReadingsPast /\ [Next]_vars => TypeOK' /\ ReadingsPast'
<1> SUFFICES ASSUME TypeOK, ReadingsPast, [Next]_vars PROVE TypeOK' /\ ReadingsPast'
  OBVIOUS
<1> USE WindowsAssumption DEF TypeOK, ReadingsPast
<1>1. CASE Tick
  BY <1>1 DEF Tick
<1>2. CASE Receive
  BY <1>2 DEF Receive
<1>3. CASE CheckinAnswered
  <2>1. ReadingsPast'
    BY <1>3 DEF CheckinAnswered, ClearStreak
  <2>2. (live <=> degradedSince = NoTime)'
    BY <1>3 DEF CheckinAnswered, MaybeRecover
  <2>3. degradedSince' \in MaybeReading /\ live' \in BOOLEAN /\ link' \in {"ON", "OFF"}
    BY <1>3 DEF CheckinAnswered, MaybeRecover
  <2>4. streakSince' \in MaybeReading /\ lastOk' \in Reading
    BY <1>3 DEF CheckinAnswered, ClearStreak
  <2>5. pc' = "pass" /\ UNCHANGED <<now, frame, lastCheckin, cmdFailAt, offSince, why>>
    BY <1>3 DEF CheckinAnswered
  <2> QED
    BY <2>1, <2>2, <2>3, <2>4, <2>5
<1>4. CASE CheckinMissed
  <2>1. streakSince' \in Reading /\ streakSince' <= now
    BY <1>4 DEF CheckinMissed, StreakAfterMiss
  <2>2. /\ pc' \in {"pass", "down"} /\ frame' \in BOOLEAN /\ link' \in {"ON", "OFF"}
        /\ why' \in {"none", "dead", "broken", "stuck"}
    BY <1>4 DEF CheckinMissed, End
  <2>3. UNCHANGED <<now, lastCheckin, live, degradedSince, cmdFailAt, offSince, lastOk>>
    BY <1>4 DEF CheckinMissed
  <2> QED
    BY <2>1, <2>2, <2>3
<1>5. CASE Pass
  <2> USE <1>5 DEF Pass, TrafficKeepsStreak, MaybeRecover, End
  <2>1. ReadingsPast'
    OBVIOUS
  <2>2. (live <=> degradedSince = NoTime)'
    OBVIOUS
  <2> QED
    BY <2>1, <2>2
<1>6. CASE SessionBreaks
  BY <1>6 DEF SessionBreaks, End
<1>7. CASE Reconnected
  BY <1>7 DEF Reconnected
<1>8. CASE CommandFails
  <2> USE <1>8 DEF CommandFails, DegradedFrom
  <2>1. ReadingsPast'
    OBVIOUS
  <2>2. (live <=> degradedSince = NoTime)'
    OBVIOUS
  <2> QED
    BY <2>1, <2>2
<1>9. CASE UNCHANGED vars
  BY <1>9 DEF vars
<1> QED
  BY <1>1, <1>2, <1>3, <1>4, <1>5, <1>6, <1>7, <1>8, <1>9 DEF Next

\* Every step keeps the loop on schedule.
LEMMA NextOnSchedule ==
  IInv /\ [Next]_vars => (Listening => OnSchedule)'
<1> SUFFICES ASSUME IInv, [Next]_vars PROVE (Listening => OnSchedule)'
  OBVIOUS
<1> USE WindowsAssumption DEF IInv, TypeOK, ReadingsPast, OnSchedule
<1>1. CASE Tick
  BY <1>1 DEF Tick, Deadline
<1>2. CASE Receive
  BY <1>2 DEF Receive
<1>3. CASE CheckinAnswered
  BY <1>3 DEF CheckinAnswered
<1>4. CASE CheckinMissed
  BY <1>4 DEF CheckinMissed, End
<1>5. CASE Pass
  BY <1>5 DEF Pass, End
<1>6. CASE SessionBreaks
  BY <1>6 DEF SessionBreaks, End
<1>7. CASE Reconnected
  BY <1>7 DEF Reconnected
<1>8. CASE CommandFails
  BY <1>8 DEF CommandFails
<1>9. CASE UNCHANGED vars
  BY <1>9 DEF vars
<1> QED
  BY <1>1, <1>2, <1>3, <1>4, <1>5, <1>6, <1>7, <1>8, <1>9 DEF Next

\* Every step keeps the check-in streak placed.
LEMMA NextStreakPlaced ==
  IInv /\ [Next]_vars => (Listening => StreakPlaced)'
<1> SUFFICES ASSUME IInv, [Next]_vars PROVE (Listening => StreakPlaced)'
  OBVIOUS
<1> USE WindowsAssumption DEF IInv, TypeOK, ReadingsPast, OnSchedule, StreakPlaced
<1>1. CASE Tick
  BY <1>1 DEF Tick
<1>2. CASE Receive
  BY <1>2 DEF Receive
<1>3. CASE CheckinAnswered
  BY <1>3 DEF CheckinAnswered, ClearStreak
<1>4. CASE CheckinMissed
  BY <1>4 DEF CheckinMissed, StreakAfterMiss, PatienceExceeded, End
<1>5. CASE Pass
  BY <1>5 DEF Pass, TrafficKeepsStreak, End
<1>6. CASE SessionBreaks
  BY <1>6 DEF SessionBreaks, End
<1>7. CASE Reconnected
  BY <1>7 DEF Reconnected
<1>8. CASE CommandFails
  BY <1>8 DEF CommandFails
<1>9. CASE UNCHANGED vars
  BY <1>9 DEF vars
<1> QED
  BY <1>1, <1>2, <1>3, <1>4, <1>5, <1>6, <1>7, <1>8, <1>9 DEF Next

\* Every step keeps a degrade placed and Connection in step with the tracker.
LEMMA NextDegradePlaced ==
  IInv /\ [Next]_vars => (Listening => DegradePlaced /\ LinkPlaced)'
<1> SUFFICES ASSUME IInv, [Next]_vars PROVE (Listening => DegradePlaced /\ LinkPlaced)'
  OBVIOUS
<1> USE WindowsAssumption DEF IInv, TypeOK, ReadingsPast, OnSchedule, DegradePlaced, LinkPlaced
<1>1. CASE Tick
  BY <1>1 DEF Tick
<1>2. CASE Receive
  BY <1>2 DEF Receive
<1>3. CASE CheckinAnswered
  BY <1>3 DEF CheckinAnswered, MaybeRecover, CommandFailureCleared
<1>4. CASE CheckinMissed
  BY <1>4 DEF CheckinMissed, End
<1>5. CASE Pass
  BY <1>5 DEF Pass, NeedsRelogin, MaybeRecover, CommandFailureCleared, End
<1>6. CASE SessionBreaks
  BY <1>6 DEF SessionBreaks, End
<1>7. CASE Reconnected
  BY <1>7 DEF Reconnected
<1>8. CASE CommandFails
  BY <1>8 DEF CommandFails, DegradedFrom
<1>9. CASE UNCHANGED vars
  BY <1>9 DEF vars
<1> QED
  BY <1>1, <1>2, <1>3, <1>4, <1>5, <1>6, <1>7, <1>8, <1>9 DEF Next

\* The invariant is inductive.
LEMMA Inductive == Spec => []IInv
<1>1. IInv /\ [Next]_vars => IInv'
  BY NextTyped, NextOnSchedule, NextStreakPlaced, NextDegradePlaced DEF IInv
<1> QED
  BY InitIInv, <1>1, PTL DEF Spec

-----------------------------------------------------------------------------
\* Every variable keeps to its type, and a degrade has a start exactly while
\* the tracker is not live.
THEOREM Typed == Spec => []TypeOK
<1>1. IInv => TypeOK
  BY DEF IInv
<1> QED
  BY Inductive, <1>1, PTL

\* A panel that stops answering check-ins is found out in bounded time,
\* whatever it pushes, for all intervals and patience periods.
THEOREM Detected == Spec => []RefusingPanelDetected
<1>1. IInv => RefusingPanelDetected
  BY WindowsAssumption
     DEF IInv, TypeOK, ReadingsPast, OnSchedule, StreakPlaced, RefusingPanelDetected
<1> QED
  BY Inductive, <1>1, PTL

\* A session is never declared dead before the whole patience period has gone
\* by without an answer.
THEOREM Patient == Spec => DeadOnlyAfterPatience
<1>1. IInv /\ [Next]_vars =>
        [pc = "checkin" /\ pc' = "down" /\ why' = "dead" => Since(lastOk) >= Patience]_vars
  <2> SUFFICES ASSUME IInv, [Next]_vars, pc = "checkin", pc' = "down", why' = "dead"
               PROVE Since(lastOk) >= Patience
    OBVIOUS
  <2>1. CheckinMissed \/ SessionBreaks
    BY DEF Next, vars, Tick, Receive, CheckinAnswered, Pass, Reconnected, CommandFails
  <2>2. CheckinMissed /\ PatienceExceeded
    BY <2>1 DEF CheckinMissed, SessionBreaks, End
  <2> QED
    BY <2>2, WindowsAssumption
       DEF CheckinMissed, PatienceExceeded, StreakAfterMiss, IInv, TypeOK, ReadingsPast, StreakPlaced
<1> QED
  BY Inductive, <1>1, PTL DEF Spec, DeadOnlyAfterPatience

\* Connection that a failed tap took off is on again or the session is being
\* replaced within the fail window and two rounds of check-ins.
THEOREM OffBounded == Spec => []StuckOffEndsSession
<1>1. IInv => StuckOffEndsSession
  BY WindowsAssumption DEF IInv, TypeOK, ReadingsPast, OnSchedule, DegradePlaced, StuckOffEndsSession
<1> QED
  BY Inductive, <1>1, PTL

\* Connection is off for the whole recover window after a failed tap.
THEOREM OffKept == Spec => []OffThroughRecoverWindow
<1>1. IInv => OffThroughRecoverWindow
  BY DEF IInv, LinkPlaced, TypeOK, OffThroughRecoverWindow
<1> QED
  BY Inductive, <1>1, PTL

-----------------------------------------------------------------------------
(* The Connection topic as its readers see it *)

\* Whatever the windows decide, the topic changes only as its readers are
\* promised: PanelTrust implements PanelConnection.
THEOREM TrustKeepsPromise == Spec => ConnectionSpec
<1>1. Init => Connection!Init
  BY DEF Init, Connection!Init
<1>2. [Next]_vars => [Connection!Next]_(Connection!vars)
  <2> SUFFICES ASSUME [Next]_vars PROVE Connection!Next \/ UNCHANGED Connection!vars
    OBVIOUS
  <2> USE DEF Connection!Next, Connection!vars
  <2>1. CASE Tick \/ Receive
    BY <2>1 DEF Tick, Receive
  <2>2. CASE CheckinAnswered
    BY <2>2 DEF CheckinAnswered, MaybeRecover, Connection!Recovers
  <2>3. CASE CheckinMissed
    BY <2>3 DEF CheckinMissed, End, Connection!SessionLost
  <2>4. CASE SessionBreaks
    BY <2>4 DEF SessionBreaks, End, Connection!SessionLost
  <2>5. CASE Pass
    BY <2>5 DEF Pass, End, MaybeRecover, Connection!SessionLost, Connection!Recovers
  <2>6. CASE Reconnected
    BY <2>6 DEF Reconnected, Connection!Resumes
  <2>7. CASE CommandFails
    BY <2>7 DEF CommandFails, Connection!TapFails
  <2>8. CASE UNCHANGED vars
    BY <2>8 DEF vars
  <2> QED
    BY <2>1, <2>2, <2>3, <2>4, <2>5, <2>6, <2>7, <2>8 DEF Next
<1> QED
  BY <1>1, <1>2, PTL DEF Spec, ConnectionSpec, Connection!Spec
=============================================================================
