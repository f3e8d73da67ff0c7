--------------------------- MODULE LifecycleClaims ---------------------------
(***************************************************************************)
(* What the documentation says of start-up and the code does not keep.     *)
(***************************************************************************)
EXTENDS Lifecycle

\* "Cap is 30 seconds; never wait longer; never give up": the process does
\* not end because logins failed too often.
NeverGivesUp == cause # "backoff"
=============================================================================
