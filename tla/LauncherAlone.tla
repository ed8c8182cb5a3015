--------------------------- MODULE LauncherAlone ----------------------------
(***************************************************************************)
(* Launcher with a history variable.  start.sh takes no lock: what it      *)
(* promises of one start, stop or status after another does not hold of    *)
(* two that run at once.  (Two starts both launch, and the PID file keeps  *)
(* one of them; a stop that found nothing removes the PID file a start     *)
(* has written since; two starts both replace the placeholder.)  `alone'   *)
(* remembers that it never came to that.                                   *)
(***************************************************************************)
EXTENDS Launcher

VARIABLE alone

AloneInit == LauncherInit /\ alone = TRUE

Remember == alone' = (alone /\ Cardinality(Busy') <= 1)

AloneSpec ==
  /\ AloneInit
  /\ [][LauncherNext /\ Remember]_<<launcherVars, alone>>
  /\ LauncherFairness

-----------------------------------------------------------------------------

\* While scripts run one after the other, a background server that listens is the
\* one --stop and --status will look for (start.sh:179-197, 216-240).
DaemonFound ==
  alone /\ Busy = {} /\ signalled = {} => \A p \in Daemons : port = p => pidFile = p

\* After --stop or --status has said that AuthNode is stopped, not running or not
\* started by --daemon, there is no background server (start.sh:199-240).
StopStops ==
  alone /\ Busy = {} /\ report = "down" => Daemons = {}

\* Every server has the secret that is in the file, where the command line takes
\* it from: a later start, which looks at the secrets before it looks for a
\* running server, does not replace them (start.sh:62-103, 179-187).
SecretAgreement ==
  alone => \A p \in Pid : loaded[p] # NoSecret => loaded[p] = file

=============================================================================
