----------------------------- MODULE PanelTrust -----------------------------
(***************************************************************************)
(* The clocks of a monitored session: the fixed check-in schedule of the   *)
(* listen loop and the windows of PanelTrust (check-in patience, recovery  *)
(* after a failed tap, stuck-trust fail window).  Which of the taps, the   *)
(* check-ins and the pushes happen is the environment's; AlarmBridge has   *)
(* what they carry.                                                        *)
(*                                                                         *)
(* now advances by Tick.  Tick waits for the listen loop where the loop    *)
(* cannot wait longer: a check-in is answered or given up within           *)
(* AnswerTimeout, and a due check-in is started within Lag of its time (a  *)
(* poll or a tap's exchange can hold the loop that long).                  *)
(***************************************************************************)
EXTENDS Integers

CONSTANTS
    CheckinInterval, \* checkin_interval_seconds
    Patience,        \* checkin_patience_seconds
    RecoverWindow,   \* RECOVER_WINDOW_SECONDS
    FailWindow,      \* trust_fail_window_seconds
    AnswerTimeout,   \* PanelClient.response_timeout
    Lag,             \* bound: how late the loop starts a due check-in
    MaxTime          \* bound: the clock stops there

ASSUME WindowsAssumption ==
    /\ CheckinInterval \in Nat \ {0} /\ Patience \in Nat \ {0}
    /\ RecoverWindow \in Nat \ {0} /\ FailWindow \in Nat \ {0}
    /\ AnswerTimeout \in Nat /\ Lag \in Nat /\ MaxTime \in Nat
    /\ CheckinInterval <= Patience       \* _validate_checkin_patience
    /\ AnswerTimeout <= CheckinInterval  \* 2 s, MIN_CHECKIN_INTERVAL_SECONDS is 5 s

NoTime == -1  \* None where a clock reading is expected

VARIABLES
    now,            \* the monotonic clock
    pc,             \* the listen task: "recv", "checkin", "pass", "down"
    frame,          \* whether a frame is in hand in this pass
    lastCheckin,    \* last_checkin_at of the listen loop
    streakSince,    \* _checkin_failure_since
    live,           \* _live
    degradedSince,  \* _degraded_since
    cmdFailAt,      \* _last_command_fail_at
    link,           \* the retained Connection topic
    offSince,       \* history: when a failed tap last took a live Connection down
    lastOk,         \* history: when the panel last answered a check-in or logged in
    why             \* history: what ended the last session

vars == <<now, pc, frame, lastCheckin, streakSince, live, degradedSince, cmdFailAt, link, offSince, lastOk, why>>

-----------------------------------------------------------------------------
(* PanelTrust *)

Since(t) == now - t

\* note_checkin_failed: only the first failure of a streak sets its clock.
StreakAfterMiss == IF streakSince = NoTime THEN now ELSE streakSince

\* checkin_patience_exceeded, with the failure just noted.
PatienceExceeded == Since(StreakAfterMiss) >= Patience

\* _mark_degraded: later failures do not move the start of a degrade; the
\* mutant lets them.
DegradedFromLast == now
DegradedFrom == IF degradedSince = NoTime THEN now ELSE degradedSince

\* _command_failure_cleared; the mutant ignores the recover window.
CommandFailureClearedAlways == TRUE
CommandFailureCleared == cmdFailAt = NoTime \/ Since(cmdFailAt) >= RecoverWindow

\* _maybe_recover; the mutant leaves the start of the degrade behind.
MaybeRecoverHalf ==
    IF ~live /\ CommandFailureCleared
    THEN live' = TRUE /\ link' = "ON" /\ UNCHANGED degradedSince
    ELSE UNCHANGED <<live, degradedSince, link>>

MaybeRecover ==
    IF ~live /\ CommandFailureCleared
    THEN live' = TRUE /\ degradedSince' = NoTime /\ link' = "ON"
    ELSE UNCHANGED <<live, degradedSince, link>>

\* needs_session_relogin
NeedsRelogin == ~live /\ Since(degradedSince) >= FailWindow

\* record_command_failure: any time, from the command task.
CommandFails ==
    /\ cmdFailAt' = now
    /\ live' = FALSE /\ degradedSince' = DegradedFrom /\ link' = "OFF"
    /\ offSince' = IF live THEN now ELSE offSince
    /\ UNCHANGED <<now, pc, frame, lastCheckin, streakSince, lastOk, why>>

-----------------------------------------------------------------------------
(* The listen loop *)

CheckinDue == Since(lastCheckin) >= CheckinInterval

\* recv_message returns a frame or times out; a due check-in goes first.
Receive ==
    /\ pc = "recv"
    /\ frame' \in BOOLEAN
    /\ IF CheckinDue THEN pc' = "checkin" /\ lastCheckin' = now
       ELSE pc' = "pass" /\ UNCHANGED lastCheckin
    /\ UNCHANGED <<now, streakSince, live, degradedSince, cmdFailAt, link, offSince, lastOk, why>>

\* An answer ends the streak; the mutant keeps it.
KeepStreak == UNCHANGED streakSince
ClearStreak == streakSince' = NoTime

CheckinAnswered ==
    /\ pc = "checkin"
    /\ ClearStreak
    /\ MaybeRecover
    /\ lastOk' = now
    /\ pc' = "pass"
    /\ UNCHANGED <<now, frame, lastCheckin, cmdFailAt, offSince, why>>

\* The session ends: Connection goes off, the trust memory stays until the
\* re-login; the mutant leaves the topic alone.
EndSilently(reason) == pc' = "down" /\ frame' = FALSE /\ why' = reason /\ UNCHANGED link
End(reason) == pc' = "down" /\ frame' = FALSE /\ link' = "OFF" /\ why' = reason

\* Refused or unanswered: within patience the pass goes on as if nothing had
\* happened, past it the session is dead.
CheckinMissed ==
    /\ pc = "checkin"
    /\ streakSince' = StreakAfterMiss
    /\ IF PatienceExceeded THEN End("dead")
       ELSE pc' = "pass" /\ UNCHANGED <<frame, link, why>>
    /\ UNCHANGED <<now, lastCheckin, live, degradedSince, cmdFailAt, offSince, lastOk>>

\* Peer close, "+++" or bytes outside the framing: no patience.
SessionBreaks ==
    /\ pc \in {"recv", "checkin", "pass"}
    /\ End("broken")
    /\ UNCHANGED <<now, lastCheckin, streakSince, live, degradedSince, cmdFailAt, offSince, lastOk>>

\* note_panel_traffic never touches the streak; the mutant lets it.
TrafficClearsStreak == streakSince' = IF frame THEN NoTime ELSE streakSince
TrafficKeepsStreak == UNCHANGED streakSince

\* The rest of a pass: a frame in hand recovers Connection, and what is not
\* recovered by then may have been off for too long.
Pass ==
    /\ pc = "pass"
    /\ TrafficKeepsStreak
    /\ IF NeedsRelogin /\ ~(frame /\ CommandFailureCleared)
       THEN End("stuck") /\ UNCHANGED <<live, degradedSince>>
       ELSE /\ pc' = "recv" /\ frame' = FALSE
            /\ IF frame THEN MaybeRecover ELSE UNCHANGED <<live, degradedSince, link>>
            /\ UNCHANGED why
    /\ UNCHANGED <<now, lastCheckin, cmdFailAt, offSince, lastOk>>

\* A re-login, reset_after_reconnect and a new listen loop with its own
\* schedule.
Reconnected ==
    /\ pc = "down"
    /\ live' = TRUE /\ degradedSince' = NoTime /\ cmdFailAt' = NoTime /\ streakSince' = NoTime
    /\ link' = "ON"
    /\ lastCheckin' = now /\ lastOk' = now
    /\ pc' = "recv" /\ why' = "none"
    /\ UNCHANGED <<now, frame, offSince>>

-----------------------------------------------------------------------------
(* Time *)

\* The longest the listen loop can stay where it is.
Deadline ==
    CASE pc = "checkin" -> lastCheckin + AnswerTimeout
      [] pc \in {"recv", "pass"} -> lastCheckin + CheckinInterval + Lag
      [] OTHER -> MaxTime

Tick ==
    /\ now < MaxTime /\ now < Deadline
    /\ now' = now + 1
    /\ UNCHANGED <<pc, frame, lastCheckin, streakSince, live, degradedSince, cmdFailAt, link, offSince, lastOk, why>>

Init ==
    /\ now = 0
    /\ pc = "recv" /\ frame = FALSE /\ lastCheckin = 0
    /\ streakSince = NoTime /\ live = TRUE /\ degradedSince = NoTime /\ cmdFailAt = NoTime
    /\ link = "ON" /\ offSince = NoTime /\ lastOk = 0 /\ why = "none"

Next ==
    \/ Tick
    \/ Receive \/ CheckinAnswered \/ CheckinMissed \/ Pass
    \/ SessionBreaks \/ Reconnected \/ CommandFails

Spec == Init /\ [][Next]_vars

-----------------------------------------------------------------------------
(* Properties *)

Listening == pc # "down"
Reading == 0..MaxTime
MaybeReading == Reading \cup {NoTime}

\* Every variable keeps to its type, and the start of a degrade is known
\* exactly while the tracker is not live.
TypeOK ==
    /\ now \in Reading
    /\ pc \in {"recv", "checkin", "pass", "down"} /\ frame \in BOOLEAN
    /\ lastCheckin \in Reading /\ lastOk \in Reading
    /\ streakSince \in MaybeReading /\ cmdFailAt \in MaybeReading
    /\ degradedSince \in MaybeReading /\ offSince \in MaybeReading
    /\ live \in BOOLEAN /\ (live <=> degradedSince = NoTime)
    /\ link \in {"ON", "OFF"}
    /\ why \in {"none", "dead", "broken", "stuck"}

\* The longest time from the start of one check-in to the end of the next.
Round == CheckinInterval + Lag + AnswerTimeout

\* A panel that stops answering is found out within patience and two rounds
\* of check-ins, however many events it goes on pushing.
RefusingPanelDetected == Listening => Since(lastOk) < Patience + 2 * Round

\* Patience is kept: a session declared dead has not answered a check-in for
\* the whole patience period, whatever refusals came before its last answer.
DeadOnlyAfterPatience ==
    [][pc = "checkin" /\ pc' = "down" /\ why' = "dead" => Since(lastOk) >= Patience]_vars

\* Connection that went off on a failed tap is not left off: within the fail
\* window and two rounds it is on again or the session is being replaced,
\* also when taps keep failing.
StuckOffEndsSession ==
    Listening /\ ~live => Since(offSince) < FailWindow + 2 * Round

\* Connection stays off for the whole recover window after a failed tap,
\* whatever check-ins and frames arrive in it.
OffThroughRecoverWindow ==
    Listening /\ cmdFailAt # NoTime /\ Since(cmdFailAt) < RecoverWindow => link = "OFF"

\* The topic as its readers see it; without the wire there are no collisions.
Connection == INSTANCE PanelConnection WITH
    phase <- IF Listening THEN "monitoring" ELSE "healing",
    trusted <- live,
    shown <- link,
    excused <- FALSE

\* The windows decide when Connection changes, never how: off on a failed tap
\* or the end of a session, on by regained trust or a re-login
\* (PanelTrust._mark_degraded, _maybe_recover, reset_after_reconnect).
ConnectionSpec == Connection!Spec
=============================================================================
