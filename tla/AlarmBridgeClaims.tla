------------------------- MODULE AlarmBridgeClaims -------------------------
(***************************************************************************)
(* What the documentation and the comments say of the bridge and the code  *)
(* does not do.  Each claim is a property TLC finds violated by            *)
(* AlarmBridge; PROJECT.json quotes the sentence it states.                *)
(***************************************************************************)
EXTENDS AlarmBridge

\* A hang-up turns Connection off at once, after an accepted disarm too.  The
\* code notes any end of the session during the flags read as a collision.
HangUpTurnsConnectionOff ==
    [][/\ lpc \in ListenPcs /\ lpc' = "close"
       /\ Faulty(wire) /\ Last(wire) = Eof
       => link' = "OFF"]_vars

\* The reconciliation poll corrects the alarm state if it disagrees with the
\* panel.  An exit that ends in an unset the bridge missed is never corrected.
PollCorrectsAlarm == <>[](house \in {Unset} \cup {HouseState("armed", m) : m \in Modes} => alarm = Shown(house))
=============================================================================
