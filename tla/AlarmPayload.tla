---------------------------- MODULE AlarmPayload ----------------------------
(***************************************************************************)
(* The alarm payloads the bridge publishes for the house                   *)
(* (alarm_control_panel states) and the guards of alarm_flags_guard.py     *)
(* that decide when a payload read from the panel's area flags may replace *)
(* the one that came from live AREA pushes.                                *)
(*                                                                         *)
(* A payload is a record [kind, mode]; "armed_away" is Armed(Away).  Only  *)
(* the armed kind carries a mode.  Python's None is NoPayload, and None as *)
(* an arm mode is NoMode.                                                  *)
(***************************************************************************)
CONSTANTS
    Away,       \* the "away" arm mode, always available
    PartModes,  \* the modes a Part-Arm slot may carry ("home", "night")
    NoMode      \* None where an arm mode is expected

ASSUME ModesAssumption == Away \notin PartModes /\ NoMode \notin PartModes \cup {Away}

Modes == {Away} \cup PartModes
MaybeMode == Modes \cup {NoMode}

-----------------------------------------------------------------------------
UnarmedKinds == {"disarmed", "arming", "pending", "triggered"}

Unarmed(k) == [kind |-> k, mode |-> NoMode]
Armed(m) == [kind |-> "armed", mode |-> m]

Disarmed == Unarmed("disarmed")
Arming == Unarmed("arming")
Pending == Unarmed("pending")
Triggered == Unarmed("triggered")

Payloads == {Unarmed(k) : k \in UnarmedKinds} \cup {Armed(m) : m \in Modes}

NoPayload == [kind |-> "none", mode |-> NoMode]
MaybePayload == Payloads \cup {NoPayload}

\* payload.startswith("armed_")
IsArmed(p) == p.kind = "armed"

\* _TRANSIENT_ALARM_STATES: exit and entry, which no flags read can show.
Transient == {Arming, Pending}

\* What decode_area_ha_state can return.
FlagsPayloads == Payloads \ Transient

-----------------------------------------------------------------------------
\* Flags lag a disarm that was just accepted: an armed read means unset.
CoerceAfterDisarm(decoded) == IF IsArmed(decoded) THEN Disarmed ELSE decoded

\* Whether a successful arm or disarm is followed by a flags read.
FlagsNeeded(current, afterArm, afterDisarm) ==
    /\ ~afterArm
    /\ afterDisarm => current # Disarmed

\* Whether a payload decoded from flags may overwrite the live one; the
\* mutant lets armed flags hide an alarm.
MayReplaceLiveOverAlarm(current, decoded, afterArm, afterDisarm) ==
    /\ decoded # current
    /\ afterArm => decoded # Disarmed
    /\ afterDisarm => ~IsArmed(decoded)
    /\ current \in Transient => decoded = Triggered \/ (afterDisarm /\ decoded = Disarmed)

MayReplaceLive(current, decoded, afterArm, afterDisarm) ==
    /\ decoded # current
    /\ afterArm => decoded # Disarmed
    /\ afterDisarm => ~IsArmed(decoded)
    /\ current = Triggered => ~IsArmed(decoded)
    /\ current \in Transient =>
         \/ decoded = Triggered
         \/ afterDisarm /\ decoded = Disarmed

\* The two callers outside a tap: the trust poll and the area snapshot.  The
\* mutant takes an unset read for lag, as after an arm.
PollMayReplaceAsAfterArm(current, decoded) == MayReplaceLive(current, decoded, TRUE, FALSE)
PollMayReplace(current, decoded) == MayReplaceLive(current, decoded, FALSE, FALSE)
\* The flags read that follows an accepted disarm.
DisarmMayReplace(current, decoded) == MayReplaceLive(current, decoded, FALSE, TRUE)

-----------------------------------------------------------------------------
\* ArmGestureGate.observe_live_payload: the remembered arm gesture survives
\* exit, entry and its own armed state, and nothing else.
ObserveLive(gate, p) ==
    IF \/ p = Disarmed
       \/ IsArmed(p) /\ p # Armed(gate)
    THEN NoMode
    ELSE gate
=============================================================================
