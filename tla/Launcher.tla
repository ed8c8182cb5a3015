------------------------------ MODULE Launcher ------------------------------
(***************************************************************************)
(* start.sh and the processes it starts, with the configuration file at    *)
(* its default place.                                                      *)
(*                                                                         *)
(*   --daemon   make the configuration, see whether the process of the PID *)
(*              file is alive, launch a server, write its PID              *)
(*   --stop     find the process of the PID file, signal it, wait for it   *)
(*   --status   find the process of the PID file, or ask /ready            *)
(*   (none)     make the configuration and become the server               *)
(*                                                                         *)
(* Each look at a file or a process and each change of one is an action;   *)
(* servers, scripts run in other terminals and programs that have nothing  *)
(* to do with AuthNode act in between.  A process id is free again when    *)
(* its process has ended.                                                  *)
(***************************************************************************)
EXTENDS Naturals, FiniteSets

CONSTANTS
  Script,      \* terminals: bound on scripts running at once
  CommandsOf,  \* bound: the commands each terminal is used for
  Pid,         \* process ids: bound on processes at once
  Secret,      \* generated values of jwt_secret: bound on generations
  Placeholder, \* the value in authnode.example.json
  NoSecret,
  NoPid

ASSUME LauncherAssumption ==
  /\ IsFiniteSet(Script)
  /\ CommandsOf \in [Script -> SUBSET {"daemon", "foreground", "stop", "status"}]
  /\ NoPid \notin Pid
  /\ Placeholder \notin Secret
  /\ NoSecret \notin Secret \cup {Placeholder}

VARIABLES
  file,      \* jwt_secret in the configuration file; NoSecret: no file
  pidFile,   \* contents of run/authnode.pid; NoPid: no file
  process,   \* what runs under each pid
  signalled, \* processes that were sent SIGTERM
  loaded,    \* the jwt_secret each server has read
  port,      \* the process that listens
  step,      \* command and position of each script
  pid,       \* the script variable of that name, or the result of its last cat
  report     \* what a script last said of the server of --daemon

files == <<file, pidFile>>

processes == <<process, signalled, loaded, port>>

launcherVars == <<file, pidFile, process, signalled, loaded, port, step, pid, report>>

Idle == [cmd |-> "none", at |-> "idle"]

LauncherInit ==
  /\ file = NoSecret
  /\ pidFile = NoPid
  /\ process = [p \in Pid |-> "free"]
  /\ signalled = {}
  /\ loaded = [p \in Pid |-> NoSecret]
  /\ port = NoPid
  /\ step = [s \in Script |-> Idle]
  /\ pid = [s \in Script |-> NoPid]
  /\ report = "down"

At(s, cmds, at) == step[s].cmd \in cmds /\ step[s].at = at

Goto(s, at) == step' = [step EXCEPT ![s].at = at]

Say(s, what) ==
  /\ report' = what
  /\ step' = [step EXCEPT ![s] = Idle]
  /\ pid' = [pid EXCEPT ![s] = NoPid]

-----------------------------------------------------------------------------
(* The kernel.                                                             *)

Server(p) == process[p] \in {"daemon", "foreground"}

\* What kill and kill -0 find.
Alive(p) == p # NoPid /\ process[p] # "free"

Available == {p \in Pid : process[p] = "free"}

Launch(p, kind) ==
  /\ p \in Available
  /\ process' = [process EXCEPT ![p] = kind]
  /\ UNCHANGED <<signalled, loaded, port>>

End(p) ==
  /\ process' = [process EXCEPT ![p] = "free"]
  /\ signalled' = signalled \ {p}
  /\ loaded' = [loaded EXCEPT ![p] = NoSecret]
  /\ port' = IF port = p THEN NoPid ELSE port
  /\ UNCHANGED <<step, pid, report>> /\ UNCHANGED files

-----------------------------------------------------------------------------
(* A server: load_config, bind, serve until SIGTERM, Ctrl-C or a crash.    *)

LoadConfig(p) ==
  /\ Server(p)
  /\ loaded[p] = NoSecret
  /\ loaded' = [loaded EXCEPT ![p] = file]
  /\ UNCHANGED <<process, signalled, port, step, pid, report>> /\ UNCHANGED files

\* (It listens before it has read its configuration.)
BindUnloaded(p) ==
  /\ Server(p)
  /\ port = NoPid
  /\ port' = p
  /\ UNCHANGED <<process, signalled, loaded, step, pid, report>> /\ UNCHANGED files

Bind(p) ==
  /\ Server(p)
  /\ loaded[p] # NoSecret
  /\ port = NoPid
  /\ port' = p
  /\ UNCHANGED <<process, signalled, loaded, step, pid, report>> /\ UNCHANGED files

\* Address already in use.
BindFails(p) ==
  /\ Server(p)
  /\ loaded[p] # NoSecret
  /\ port \notin {NoPid, p}
  /\ End(p)

\* A server crashes, or a program of someone else is through.
Crash(p) == Alive(p) /\ End(p)

Terminate(p) == Server(p) /\ p \in signalled /\ End(p)

-----------------------------------------------------------------------------
(* start.sh.  ensure_config is the first thing a start does, also one that *)
(* then finds a server running.                                            *)

Starting == {s \in Script : step[s].cmd \in {"daemon", "foreground"}}

\* The bound on processes: a start is begun, and an unrelated program of the same
\* user launched, only when there is a pid left for every start.
LaunchOther(p) ==
  /\ Cardinality(Available) > Cardinality(Starting)
  /\ Launch(p, "other")
  /\ UNCHANGED <<step, pid, report>> /\ UNCHANGED files

Begin(s, cmd) ==
  /\ step[s] = Idle
  /\ cmd \in {"daemon", "foreground"} => Cardinality(Available) > Cardinality(Starting)
  /\ step' = [step EXCEPT ![s] =
       [cmd |-> cmd, at |-> IF cmd \in {"daemon", "foreground"} THEN "config" ELSE "look"]]
  /\ UNCHANGED <<pid, report>> /\ UNCHANGED files /\ UNCHANGED processes

FindConfig(s) ==
  /\ At(s, {"daemon", "foreground"}, "config")
  /\ Goto(s, IF file = NoSecret THEN "copy" ELSE "secrets")
  /\ UNCHANGED <<pid, report>> /\ UNCHANGED files /\ UNCHANGED processes

CopyExample(s) ==
  /\ At(s, {"daemon", "foreground"}, "copy")
  /\ file' = Placeholder
  /\ Goto(s, "secrets")
  /\ UNCHANGED <<pidFile, pid, report>> /\ UNCHANGED processes

AlwaysReplaced(secret) == TRUE

ToBeReplaced(secret) == secret = Placeholder

ReadSecrets(s) ==
  /\ At(s, {"daemon", "foreground"}, "secrets")
  /\ Goto(s, IF ToBeReplaced(file) THEN "write"
             ELSE IF step[s].cmd = "daemon" THEN "look" ELSE "run")
  /\ UNCHANGED <<pid, report>> /\ UNCHANGED files /\ UNCHANGED processes

WriteSecrets(s, secret) ==
  /\ At(s, {"daemon", "foreground"}, "write")
  /\ file' = secret
  /\ Goto(s, IF step[s].cmd = "daemon" THEN "look" ELSE "run")
  /\ UNCHANGED <<pidFile, pid, report>> /\ UNCHANGED processes

BecomeServer(s, p) ==
  /\ At(s, {"foreground"}, "run")
  /\ Launch(p, "foreground")
  /\ Say(s, report)
  /\ UNCHANGED files

\* is_running: cat the PID file, then kill -0.
LookUpPid(s) ==
  /\ At(s, {"daemon", "stop", "status"}, "look")
  /\ pid' = [pid EXCEPT ![s] = pidFile]
  /\ Goto(s, "probe")
  /\ UNCHANGED report /\ UNCHANGED files /\ UNCHANGED processes

RecordedAnyhow(s) == pid[s] # NoPid

Running(s) == Alive(pid[s])

AlreadyRunning(s) ==
  /\ At(s, {"daemon", "status"}, "probe")
  /\ Running(s)
  /\ Say(s, "up")
  /\ UNCHANGED files /\ UNCHANGED processes

NotRunning(s) ==
  /\ step[s].at = "probe"
  /\ ~Running(s)
  /\ Goto(s, CASE step[s].cmd = "daemon" -> "run"
               [] step[s].cmd = "stop" -> "clean"
               [] step[s].cmd = "status" -> "ready")
  /\ UNCHANGED <<pid, report>> /\ UNCHANGED files /\ UNCHANGED processes

LaunchDaemon(s, p) ==
  /\ At(s, {"daemon"}, "run")
  /\ Launch(p, "daemon")
  /\ pid' = [pid EXCEPT ![s] = p]
  /\ Goto(s, "record")
  /\ UNCHANGED report /\ UNCHANGED files

RecordFirstPid(s) ==
  /\ At(s, {"daemon"}, "record")
  /\ pidFile' = IF pidFile = NoPid THEN pid[s] ELSE pidFile
  /\ Say(s, "up")
  /\ UNCHANGED file /\ UNCHANGED processes

RecordPid(s) ==
  /\ At(s, {"daemon"}, "record")
  /\ pidFile' = pid[s]
  /\ Say(s, "up")
  /\ UNCHANGED file /\ UNCHANGED processes

\* (It removes the PID file without waiting for the process to end.)
GoneAtOnce(s) ==
  /\ At(s, {"stop"}, "wait")
  /\ Goto(s, "remove")
  /\ UNCHANGED <<pid, report>> /\ UNCHANGED files /\ UNCHANGED processes

Clean(s) ==
  /\ At(s, {"stop"}, "clean")
  /\ pidFile' = NoPid
  /\ Goto(s, "ready")
  /\ UNCHANGED <<file, pid, report>> /\ UNCHANGED processes

\* ready_probe: "not running", or "responding, but was not started by --daemon".
AskReady(s) ==
  /\ At(s, {"stop", "status"}, "ready")
  /\ Say(s, "down")
  /\ UNCHANGED files /\ UNCHANGED processes

\* The PID file is read a second time; with set -e the script ends when it is
\* gone by now, and when kill finds no process.
ReadTarget(s) ==
  /\ At(s, {"stop"}, "probe")
  /\ Running(s)
  /\ pid' = [pid EXCEPT ![s] = pidFile]
  /\ Goto(s, "kill")
  /\ UNCHANGED report /\ UNCHANGED files /\ UNCHANGED processes

Kill(s) ==
  /\ At(s, {"stop"}, "kill")
  /\ Alive(pid[s])
  /\ signalled' = signalled \cup {pid[s]}
  /\ Goto(s, "wait")
  /\ UNCHANGED <<process, loaded, port, pid, report>> /\ UNCHANGED files

KillFails(s) ==
  /\ At(s, {"stop"}, "kill")
  /\ ~Alive(pid[s])
  /\ Say(s, "failed")
  /\ UNCHANGED files /\ UNCHANGED processes

Gone(s) ==
  /\ At(s, {"stop"}, "wait")
  /\ ~Alive(pid[s])
  /\ Goto(s, "remove")
  /\ UNCHANGED <<pid, report>> /\ UNCHANGED files /\ UNCHANGED processes

\* Thirty times 0.2 seconds.
GiveUp(s) ==
  /\ At(s, {"stop"}, "wait")
  /\ Alive(pid[s])
  /\ Say(s, "failed")
  /\ UNCHANGED files /\ UNCHANGED processes

RemovePidFile(s) ==
  /\ At(s, {"stop"}, "remove")
  /\ pidFile' = NoPid
  /\ Say(s, "down")
  /\ UNCHANGED file /\ UNCHANGED processes

-----------------------------------------------------------------------------

Start(s) ==
  \/ FindConfig(s) \/ CopyExample(s) \/ ReadSecrets(s)
  \/ \E secret \in Secret : WriteSecrets(s, secret)
  \/ \E p \in Pid : BecomeServer(s, p) \/ LaunchDaemon(s, p)
  \/ RecordPid(s)

Look(s) == LookUpPid(s) \/ AlreadyRunning(s) \/ NotRunning(s) \/ AskReady(s)

Stop(s) ==
  \/ ReadTarget(s) \/ Kill(s) \/ KillFails(s) \/ Gone(s) \/ GiveUp(s)
  \/ RemovePidFile(s) \/ Clean(s)

ServerStep(p) == LoadConfig(p) \/ Bind(p) \/ BindFails(p) \/ Terminate(p)

LauncherNext ==
  \/ \E s \in Script :
       \/ \E cmd \in CommandsOf[s] : Begin(s, cmd)
       \/ Start(s) \/ Look(s) \/ Stop(s)
  \/ \E p \in Pid : ServerStep(p) \/ Crash(p) \/ LaunchOther(p)

LauncherSpec == LauncherInit /\ [][LauncherNext]_launcherVars

\* A script that was begun runs to its end, a signalled process ends and a
\* server gets on with starting; nobody has to begin a script.
LauncherFairness ==
  /\ \A s \in Script : WF_launcherVars(Start(s) \/ Look(s) \/ Stop(s))
  /\ \A p \in Pid : WF_launcherVars(ServerStep(p))

FairSpec == LauncherSpec /\ LauncherFairness

-----------------------------------------------------------------------------

Busy == {s \in Script : step[s] # Idle}

Daemons == {p \in Pid : process[p] = "daemon"}

Strangers == {p \in Pid : process[p] = "other"}

LauncherTypeOK ==
  /\ file \in Secret \cup {Placeholder, NoSecret}
  /\ pidFile \in Pid \cup {NoPid}
  /\ process \in [Pid -> {"free", "daemon", "foreground", "other"}]
  /\ signalled \subseteq {p \in Pid : process[p] # "free"}
  /\ \A p \in Pid : loaded[p] # NoSecret => Server(p)
  /\ port # NoPid => loaded[port] # NoSecret
  /\ pid \in [Script -> Pid \cup {NoPid}]

\* A PID file left behind by a server that died does not keep --daemon from
\* launching one, unless its number is that of an unrelated program by now
\* (start.sh:145-147, 182).
ComesBack ==
  \A s \in Script :
    At(s, {"daemon"}, "config") /\ (\A p \in Pid : process[p] = "free")
      ~> (\E p \in Pid : Server(p)) \/ pid[s] \in Strangers

=============================================================================
