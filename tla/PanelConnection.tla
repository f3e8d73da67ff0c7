--------------------------- MODULE PanelConnection ---------------------------
(***************************************************************************)
(* What the retained Alarm Panel Connection topic promises whoever reads   *)
(* it.  It goes off only when a tap fails, a session is lost or a re-login *)
(* attempt fails.  It comes on only when trust is regained while the       *)
(* session is monitored, or when a re-login is complete.  A lost session   *)
(* leaves it on for one attempt at most.                                   *)
(***************************************************************************)

VARIABLES
    phase,    \* "monitoring"; "healing" a lost session; "restored": logged in, not yet listening
    trusted,  \* no failed tap is held against the session
    shown,    \* the retained topic
    excused   \* the loss was a collision whose first attempt is still running

vars == <<phase, trusted, shown, excused>>

Init == phase = "monitoring" /\ trusted = TRUE /\ shown = "ON" /\ excused = FALSE

\* From the other task, at any time.
TapFails ==
    /\ trusted' = FALSE /\ shown' = "OFF"
    /\ UNCHANGED <<phase, excused>>

\* Only the monitoring task regains trust.
Recovers ==
    /\ phase = "monitoring" /\ ~trusted
    /\ trusted' = TRUE /\ shown' = "ON"
    /\ UNCHANGED <<phase, excused>>

SessionLost ==
    /\ phase = "monitoring" /\ phase' = "healing"
    /\ excused' \in BOOLEAN
    /\ shown' = IF excused' THEN shown ELSE "OFF"
    /\ UNCHANGED trusted

\* After any attempt that fails the topic is off, excused or not.
AttemptFails ==
    /\ phase = "healing"
    /\ excused' = FALSE /\ shown' = "OFF"
    /\ UNCHANGED <<phase, trusted>>

\* Logged in, snapshots taken and subscribed: on, whatever taps failed
\* before it.
Restores ==
    /\ phase = "healing" /\ phase' = "restored"
    /\ excused' = FALSE /\ shown' = "ON"
    /\ UNCHANGED trusted

\* Monitoring starts with a clean slate, whatever taps failed meanwhile.
Resumes ==
    /\ phase \in {"healing", "restored"} /\ phase' = "monitoring"
    /\ excused' = FALSE /\ trusted' = TRUE /\ shown' = "ON"

Next == TapFails \/ Recovers \/ SessionLost \/ AttemptFails \/ Restores \/ Resumes

Spec == Init /\ [][Next]_vars
=============================================================================
