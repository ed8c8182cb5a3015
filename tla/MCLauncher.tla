----------------------------- MODULE MCLauncher -----------------------------
(* TLC instance of LauncherAlone. *)
EXTENDS LauncherAlone, TLC

CONSTANTS t1, t2

\* One terminal is used for everything, the other to start in the background.
TwoTerminals == t1 :> {"daemon", "foreground", "stop", "status"} @@ t2 :> {"daemon"}

=============================================================================
