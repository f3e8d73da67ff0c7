-------------------------- MODULE ZoneMonitorClaims --------------------------
(***************************************************************************)
(* What the documentation says of the trigger snapshot and the code does   *)
(* not keep.                                                               *)
(***************************************************************************)
EXTENDS ZoneMonitor

\* docs/specs/spec-alarm-control.md:43: "A persisted snapshot of the most
\* recent zone/log activity leading into a trigger".  With everything the
\* panel sent handled, no session lost and no publish failed, the attributes
\* name the zone whose opening preceded the alarm.
SnapshotNamesOpener ==
    (pc = "idle" /\ stream = <<>> /\ house = Triggered /\ payload = Triggered /\ ~excused)
        => cause \in {NoZone, attrs}
=============================================================================
