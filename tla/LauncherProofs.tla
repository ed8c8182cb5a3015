--------------------------- MODULE LauncherProofs ---------------------------
(***************************************************************************)
(* Proofs about Launcher and LauncherAlone, for any terminals, commands    *)
(* and number of processes.                                                *)
(***************************************************************************)
EXTENDS LauncherAlone, FiniteSetTheorems, TLAPS

-----------------------------------------------------------------------------
(* The inductive invariant of the processes: the types, and where a script *)
(* can be.  (What a recorded pid stands for is not in it: the process may  *)
(* have ended, and its number may be that of another one.)                 *)

Places ==
  {Idle}
    \cup [cmd : {"daemon", "foreground"}, at : {"config", "copy", "secrets", "write"}]
    \cup [cmd : {"foreground"}, at : {"run"}]
    \cup [cmd : {"daemon"}, at : {"look", "probe", "run", "record"}]
    \cup [cmd : {"stop"}, at : {"look", "probe", "kill", "wait", "remove", "clean", "ready"}]
    \cup [cmd : {"status"}, at : {"look", "probe", "ready"}]

ProcessInv ==
  /\ LauncherTypeOK
  /\ step \in [Script -> Places]
  /\ loaded \in [Pid -> Secret \cup {Placeholder, NoSecret}]
  /\ port \in Pid \cup {NoPid}

LEMMA InitProcesses == LauncherInit => ProcessInv
  BY LauncherAssumption DEF LauncherInit, ProcessInv, LauncherTypeOK, Places, Idle

\* How a script goes on.
LEMMA GoesOn ==
  ASSUME step \in [Script -> Places], NEW s \in Script, NEW a, Goto(s, a),
         [cmd |-> step[s].cmd, at |-> a] \in Places
  PROVE  step' \in [Script -> Places]
<1>1. step[s] \in Places
  OBVIOUS
<1>2. step[s] = [cmd |-> step[s].cmd, at |-> step[s].at]
  BY <1>1 DEF Places, Idle
<1>3. [step[s] EXCEPT !.at = a] = [cmd |-> step[s].cmd, at |-> a]
  BY <1>2
<1>4. step' = [step EXCEPT ![s] = [step[s] EXCEPT !.at = a]]
  BY DEF Goto
<1> HIDE DEF Places
<1> QED
  BY <1>3, <1>4

LEMMA StepPlaces ==
  ASSUME ProcessInv, [LauncherNext]_launcherVars
  PROVE  step' \in [Script -> Places]
<1> USE DEF At, Places
<1>1. step \in [Script -> Places]
  BY DEF ProcessInv
<1>2. ASSUME NEW s \in Script, NEW a, Goto(s, a), [cmd |-> step[s].cmd, at |-> a] \in Places
      PROVE  step' \in [Script -> Places]
  BY <1>1, <1>2, GoesOn
<1>3. ASSUME NEW s \in Script, NEW what, Say(s, what) PROVE step' \in [Script -> Places]
  BY <1>1, <1>3 DEF Say
<1>4. ASSUME NEW s \in Script, NEW cmd \in CommandsOf[s], Begin(s, cmd)
      PROVE  step' \in [Script -> Places]
  <2>1. cmd \in {"daemon", "foreground", "stop", "status"}
    BY LauncherAssumption
  <2> QED
    BY <1>1, <1>4, <2>1 DEF Begin
<1>5. ASSUME NEW s \in Script, Start(s) PROVE step' \in [Script -> Places]
  <2>1. CASE FindConfig(s)
    BY <2>1, <1>2 DEF FindConfig
  <2>2. CASE CopyExample(s)
    BY <2>2, <1>2 DEF CopyExample
  <2>3. CASE ReadSecrets(s)
    BY <2>3, <1>2 DEF ReadSecrets
  <2>4. CASE \E secret \in Secret : WriteSecrets(s, secret)
    BY <2>4, <1>2 DEF WriteSecrets
  <2>5. CASE \E p \in Pid : BecomeServer(s, p)
    BY <2>5, <1>3 DEF BecomeServer
  <2>6. CASE \E p \in Pid : LaunchDaemon(s, p)
    BY <2>6, <1>2 DEF LaunchDaemon
  <2>7. CASE RecordPid(s)
    BY <2>7, <1>3 DEF RecordPid
  <2> QED
    BY <1>5, <2>1, <2>2, <2>3, <2>4, <2>5, <2>6, <2>7 DEF Start
<1>6. ASSUME NEW s \in Script, Look(s) PROVE step' \in [Script -> Places]
  <2>1. CASE LookUpPid(s)
    BY <2>1, <1>1, <1>2 DEF LookUpPid
  <2>2. CASE AlreadyRunning(s)
    BY <2>2, <1>3 DEF AlreadyRunning
  <2>3. CASE NotRunning(s)
    <3>1. step[s] \in Places /\ step[s].at = "probe"
      BY <1>1, <2>3 DEF NotRunning
    <3>2. step[s].cmd \in {"daemon", "stop", "status"}
      BY <3>1 DEF Idle
    <3>3. CASE step[s].cmd = "daemon"
      BY <2>3, <3>3, <1>2 DEF NotRunning
    <3>4. CASE step[s].cmd = "stop"
      BY <2>3, <3>4, <1>2 DEF NotRunning
    <3>5. CASE step[s].cmd = "status"
      BY <2>3, <3>5, <1>2 DEF NotRunning
    <3> QED
      BY <3>2, <3>3, <3>4, <3>5
  <2>4. CASE AskReady(s)
    BY <2>4, <1>3 DEF AskReady
  <2> QED
    BY <1>6, <2>1, <2>2, <2>3, <2>4 DEF Look
<1>7. ASSUME NEW s \in Script, Stop(s) PROVE step' \in [Script -> Places]
  <2>1. CASE ReadTarget(s)
    BY <2>1, <1>2 DEF ReadTarget
  <2>2. CASE Kill(s)
    BY <2>2, <1>2 DEF Kill
  <2>3. CASE KillFails(s)
    BY <2>3, <1>3 DEF KillFails
  <2>4. CASE Gone(s)
    BY <2>4, <1>2 DEF Gone
  <2>5. CASE GiveUp(s)
    BY <2>5, <1>3 DEF GiveUp
  <2>6. CASE RemovePidFile(s)
    BY <2>6, <1>3 DEF RemovePidFile
  <2>7. CASE Clean(s)
    BY <2>7, <1>2 DEF Clean
  <2> QED
    BY <1>7, <2>1, <2>2, <2>3, <2>4, <2>5, <2>6, <2>7 DEF Stop
<1>8. ASSUME NEW p \in Pid, ServerStep(p) \/ Crash(p) \/ LaunchOther(p) PROVE UNCHANGED step
  BY <1>8 DEF ServerStep, LoadConfig, Bind, BindFails, Terminate, Crash, End, LaunchOther
<1>9. CASE UNCHANGED launcherVars
  BY <1>1, <1>9 DEF launcherVars
<1> QED
  BY <1>1, <1>4, <1>5, <1>6, <1>7, <1>8, <1>9 DEF LauncherNext

\* The rest of the invariant: what a step does to files, processes and pids.
RestInv ==
  /\ LauncherTypeOK
  /\ loaded \in [Pid -> Secret \cup {Placeholder, NoSecret}]
  /\ port \in Pid \cup {NoPid}

LEMMA StepRest ==
  ASSUME ProcessInv, [LauncherNext]_launcherVars
  PROVE  RestInv'
<1> USE DEF RestInv, LauncherTypeOK, Server, files, processes
<1>1. RestInv
  BY DEF ProcessInv
<1>2. ASSUME UNCHANGED files, UNCHANGED processes, UNCHANGED pid PROVE RestInv'
  BY <1>1, <1>2 DEF files, processes
<1>3. ASSUME NEW s \in Script, UNCHANGED files, UNCHANGED processes,
             \/ UNCHANGED pid
             \/ pid' = [pid EXCEPT ![s] = NoPid]
             \/ pid' = [pid EXCEPT ![s] = pidFile]
      PROVE  RestInv'
  BY <1>1, <1>3 DEF files, processes
<1>4. ASSUME NEW s \in Script, NEW cmd, Begin(s, cmd) PROVE RestInv'
  BY <1>4, <1>2 DEF Begin
<1>5. ASSUME NEW s \in Script, Start(s) PROVE RestInv'
  <2>1. CASE FindConfig(s) \/ ReadSecrets(s)
    BY <2>1, <1>2 DEF FindConfig, ReadSecrets
  <2>2. CASE CopyExample(s)
    BY <2>2, <1>1 DEF CopyExample, processes
  <2>3. ASSUME NEW secret \in Secret, WriteSecrets(s, secret) PROVE RestInv'
    BY <2>3, <1>1 DEF WriteSecrets, processes
  <2>4. ASSUME NEW p \in Pid, BecomeServer(s, p) PROVE RestInv'
    BY <2>4, <1>1 DEF BecomeServer, Launch, Say, files, Available, Server
  <2>5. ASSUME NEW p \in Pid, LaunchDaemon(s, p) PROVE RestInv'
    BY <2>5, <1>1 DEF LaunchDaemon, Launch, files, Available, Server
  <2>6. CASE RecordPid(s)
    BY <2>6, <1>1 DEF RecordPid, Say, processes
  <2> QED
    BY <1>5, <2>1, <2>2, <2>3, <2>4, <2>5, <2>6 DEF Start
<1>6. ASSUME NEW s \in Script, Look(s) PROVE RestInv'
  BY <1>6, <1>3 DEF Look, LookUpPid, AlreadyRunning, NotRunning, AskReady, Say
<1>7. ASSUME NEW s \in Script, Stop(s) PROVE RestInv'
  <2>1. CASE ReadTarget(s) \/ KillFails(s) \/ Gone(s) \/ GiveUp(s)
    BY <2>1, <1>3 DEF ReadTarget, KillFails, Gone, GiveUp, Say
  <2>2. CASE Kill(s)
    <3>1. pid[s] \in Pid /\ process[pid[s]] # "free"
      BY <2>2, <1>1 DEF Kill, Alive
    <3> QED
      BY <2>2, <3>1, <1>1 DEF Kill, files
  <2>3. CASE RemovePidFile(s) \/ Clean(s)
    BY <2>3, <1>1 DEF RemovePidFile, Clean, Say, processes
  <2> QED
    BY <1>7, <2>1, <2>2, <2>3 DEF Stop
<1>8. ASSUME NEW p \in Pid, ServerStep(p) \/ Crash(p) \/ LaunchOther(p) PROVE RestInv'
  <2>1. CASE LoadConfig(p)
    BY <2>1, <1>1 DEF LoadConfig, files, Server
  <2>2. CASE Bind(p)
    BY <2>2, <1>1 DEF Bind, files, Server
  <2>3. ASSUME End(p) PROVE RestInv'
    BY <2>3, <1>1 DEF End, files, Server
  <2>4. CASE LaunchOther(p)
    BY <2>4, <1>1 DEF LaunchOther, Launch, Available, files, Server
  <2> QED
    BY <1>8, <2>1, <2>2, <2>3, <2>4 DEF ServerStep, BindFails, Terminate, Crash
<1>9. CASE UNCHANGED launcherVars
  BY <1>9, <1>2 DEF launcherVars, files, processes
<1> QED
  BY <1>4, <1>5, <1>6, <1>7, <1>8, <1>9 DEF LauncherNext

LEMMA StepProcesses == ProcessInv /\ [LauncherNext]_launcherVars => ProcessInv'
  BY StepPlaces, StepRest DEF ProcessInv, RestInv

LEMMA ProcessInvariant == LauncherSpec => []ProcessInv
  BY InitProcesses, StepProcesses, PTL DEF LauncherSpec

\* Types of the launcher.
THEOREM LauncherTypeCorrect == LauncherSpec => []LauncherTypeOK
<1>1. ProcessInv => LauncherTypeOK
  BY DEF ProcessInv
<1> QED
  BY <1>1, ProcessInvariant, PTL

-----------------------------------------------------------------------------
(* The inductive invariant while scripts run one after the other: what the *)
(* script at work has seen is still so, and the PID file has every         *)
(* background server, but for one that was just launched.                  *)

\* Position of a script that makes the configuration, and what the file has.
ConfigInv(s) ==
  /\ At(s, {"daemon", "foreground"}, "copy") => file = NoSecret
  /\ At(s, {"daemon", "foreground"}, "secrets") => file # NoSecret
  /\ At(s, {"daemon", "foreground"}, "write") => file = Placeholder
  /\ step[s].cmd = "daemon" /\ step[s].at \in {"look", "probe", "run", "record"} => file \in Secret
  /\ At(s, {"foreground"}, "run") => file \in Secret

JustLaunched(s) == At(s, {"daemon"}, "record")

\* Position of a script that looks for a server, and what there is.
LookInv(s) ==
  /\ step[s].at \in {"probe", "kill", "wait"} => pid[s] = pidFile
  /\ (At(s, {"daemon"}, "run") \/ step[s].at \in {"clean", "ready", "remove"}) => Daemons = {}
  /\ JustLaunched(s) => Daemons \subseteq {pid[s]}

SecretInv ==
  /\ (\E p \in Pid : Server(p)) => file \in Secret
  /\ \A p \in Pid : loaded[p] # NoSecret => loaded[p] = file

DaemonInv ==
  /\ \A p \in Daemons : pidFile = p \/ (\E s \in Script : JustLaunched(s) /\ pid[s] = p)
  /\ report = "down" => Daemons = {} \/ (\E s \in Script : JustLaunched(s))

OneBusy == \A s, t \in Busy : s = t

Undisturbed ==
  /\ \A s \in Script : ConfigInv(s) /\ LookInv(s)
  /\ SecretInv
  /\ DaemonInv

AloneInv ==
  /\ alone \in BOOLEAN
  /\ alone => OneBusy /\ Undisturbed

LEMMA InitAlone == AloneInit => AloneInv
  BY LauncherAssumption DEF AloneInit, LauncherInit, AloneInv, Undisturbed, OneBusy, Busy, ConfigInv, LookInv,
     SecretInv, DaemonInv, Daemons, Server, At, Idle

LEMMA BusyOne ==
  ASSUME NEW S \in SUBSET Script, Cardinality(S) <= 1
  PROVE  \A s, t \in S : s = t
<1> SUFFICES ASSUME NEW s \in S, NEW t \in S, s # t PROVE FALSE
  OBVIOUS
<1>1. IsFiniteSet(S)
  BY LauncherAssumption, FS_Subset
<1>2. IsFiniteSet({s}) /\ Cardinality({s}) = 1
  BY FS_Singleton
<1>3. IsFiniteSet({s} \cup {t}) /\ Cardinality({s} \cup {t}) = 2
  BY <1>2, FS_AddElement
<1>4. Cardinality({s} \cup {t}) <= Cardinality(S)
  BY <1>1, FS_Subset
<1>5. Cardinality(S) \in Nat
  BY <1>1, FS_CardinalityType
<1> QED
  BY <1>3, <1>4, <1>5

\* A script's step.
ScriptStep(s) == Start(s) \/ Look(s) \/ Stop(s) \/ \E cmd \in CommandsOf[s] : Begin(s, cmd)

LEMMA OthersIdle ==
  ASSUME ProcessInv, OneBusy, OneBusy', NEW s \in Script, ScriptStep(s)
  PROVE  \A t \in Script \ {s} : step[t] = Idle /\ step'[t] = Idle
<1>1. \A t \in Script \ {s} : step'[t] = step[t]
  BY DEF ProcessInv, ScriptStep, Start, Look, Stop, Begin, FindConfig, CopyExample, ReadSecrets,
     WriteSecrets, BecomeServer, LaunchDaemon, RecordPid, LookUpPid, AlreadyRunning, NotRunning,
     AskReady, ReadTarget, Kill, KillFails, Gone, GiveUp, RemovePidFile, Clean, Goto, Say
<1>2. CASE step[s] # Idle
  BY <1>1, <1>2 DEF OneBusy, Busy
<1>3. CASE step[s] = Idle
  <2>1. \E cmd \in CommandsOf[s] : Begin(s, cmd)
    BY <1>3 DEF Idle, ScriptStep, Start, Look, Stop, FindConfig, CopyExample, ReadSecrets,
       WriteSecrets, BecomeServer, LaunchDaemon, RecordPid, LookUpPid, AlreadyRunning, NotRunning,
       AskReady, ReadTarget, Kill, KillFails, Gone, GiveUp, RemovePidFile, Clean, At
  <2>2. step'[s] # Idle
    BY <2>1 DEF Begin, Idle, ProcessInv
  <2> QED
    BY <1>1, <2>2 DEF OneBusy, Busy
<1> QED
  BY <1>2, <1>3

LEMMA IdleUndisturbed ==
  ASSUME NEW t \in Script
  PROVE  /\ step[t] = Idle => ConfigInv(t) /\ LookInv(t) /\ ~JustLaunched(t)
         /\ step'[t] = Idle => ConfigInv(t)' /\ LookInv(t)' /\ ~JustLaunched(t)'
  BY DEF Idle, ConfigInv, LookInv, JustLaunched, At

LEMMA ScriptUndisturbed ==
  ASSUME ProcessInv, OneBusy, OneBusy', Undisturbed, NEW s \in Script, ScriptStep(s)
  PROVE  Undisturbed'
<1>1. \A t \in Script \ {s} : step[t] = Idle /\ step'[t] = Idle
  BY OthersIdle
<1>2. /\ ConfigInv(s) /\ LookInv(s)
      /\ SecretInv
      /\ \A p \in Daemons : pidFile = p \/ (JustLaunched(s) /\ pid[s] = p)
      /\ report = "down" => (Daemons = {} \/ JustLaunched(s))
  BY <1>1, IdleUndisturbed DEF Undisturbed, DaemonInv
<1>3. SUFFICES
        /\ ConfigInv(s)' /\ LookInv(s)'
        /\ SecretInv'
        /\ \A p \in Daemons' : pidFile' = p \/ (JustLaunched(s)' /\ pid'[s] = p)
        /\ report' = "down" => (Daemons' = {} \/ JustLaunched(s)')
  BY <1>1, IdleUndisturbed DEF Undisturbed, DaemonInv
<1>4. /\ step \in [Script -> Places]
      /\ pid \in [Script -> Pid \cup {NoPid}]
      /\ pidFile \in Pid \cup {NoPid}
      /\ process \in [Pid -> {"free", "daemon", "foreground", "other"}]
      /\ \A p \in Pid : loaded[p] # NoSecret => Server(p)
      /\ file \in Secret \cup {Placeholder, NoSecret}
  BY DEF ProcessInv, LauncherTypeOK, Server
<1>5. NoPid \notin Pid /\ Placeholder \notin Secret /\ NoSecret \notin Secret /\ Placeholder # NoSecret
  BY LauncherAssumption
<1> DEFINE Goal == /\ ConfigInv(s)' /\ LookInv(s)'
                   /\ SecretInv'
                   /\ \A p \in Daemons' : pidFile' = p \/ (JustLaunched(s)' /\ pid'[s] = p)
                   /\ report' = "down" => (Daemons' = {} \/ JustLaunched(s)')
<1> USE <1>2, <1>4, <1>5
    DEF At, ConfigInv, LookInv, SecretInv, JustLaunched, Daemons, Server, files, processes
<1>6. ASSUME NEW cmd \in CommandsOf[s], Begin(s, cmd) PROVE Goal
  <2>1. cmd \in {"daemon", "foreground", "stop", "status"}
    BY LauncherAssumption
  <2>2. step'[s] \in [cmd : {cmd}, at : {"config", "look"}] /\ (cmd = "daemon" => step'[s].at = "config")
    BY <1>6, <2>1 DEF Begin
  <2>3. UNCHANGED <<file, pidFile, process, loaded, pid, report>>
    BY <1>6 DEF Begin
  <2>4. step[s] = Idle
    BY <1>6 DEF Begin
  <2> QED
    BY <2>1, <2>2, <2>3, <2>4 DEF Idle
<1>7. CASE Start(s)
  <2>1. CASE FindConfig(s)
    BY <2>1 DEF FindConfig, Goto
  <2>2. CASE CopyExample(s)
    BY <2>2 DEF CopyExample, Goto
  <2>3. CASE ReadSecrets(s)
    BY <2>3 DEF ReadSecrets, ToBeReplaced, Goto
  <2>4. ASSUME NEW secret \in Secret, WriteSecrets(s, secret) PROVE Goal
    BY <2>4 DEF WriteSecrets, Goto
  <2>5. ASSUME NEW p \in Pid, BecomeServer(s, p) PROVE Goal
    BY <2>5 DEF BecomeServer, Launch, Available, Say, Idle
  <2>6. ASSUME NEW p \in Pid, LaunchDaemon(s, p) PROVE Goal
    BY <2>6 DEF LaunchDaemon, Launch, Available, Goto
  <2>7. CASE RecordPid(s)
    BY <2>7 DEF RecordPid, Say, Idle
  <2> QED
    BY <1>7, <2>1, <2>2, <2>3, <2>4, <2>5, <2>6, <2>7 DEF Start
<1>8. CASE Look(s)
  <2>1. CASE LookUpPid(s)
    BY <2>1 DEF LookUpPid, Goto
  <2>2. CASE AlreadyRunning(s)
    BY <2>2 DEF AlreadyRunning, Say, Idle
  <2>3. CASE NotRunning(s)
    <3>1. step[s].at = "probe" /\ step[s].cmd \in {"daemon", "stop", "status"}
      BY <2>3 DEF NotRunning, Places, Idle
    <3>2. \A p \in Daemons : pidFile = p
      BY <3>1
    <3>3. Daemons = {}
      BY <2>3, <3>1, <3>2 DEF NotRunning, Running, Alive
    <3>4. UNCHANGED <<file, pidFile, process, loaded, pid, report>>
      BY <2>3 DEF NotRunning
    <3>5. /\ step'[s].cmd = step[s].cmd
          /\ step'[s].cmd = "daemon" => step'[s].at = "run"
          /\ step'[s].cmd = "stop" => step'[s].at = "clean"
          /\ step'[s].cmd = "status" => step'[s].at = "ready"
      BY <2>3, <3>1 DEF NotRunning, Goto
    <3> QED
      BY <3>1, <3>3, <3>4, <3>5
  <2>4. CASE AskReady(s)
    BY <2>4 DEF AskReady, Say, Idle
  <2> QED
    BY <1>8, <2>1, <2>2, <2>3, <2>4 DEF Look
<1>9. CASE Stop(s)
  <2>1. CASE ReadTarget(s)
    BY <2>1 DEF ReadTarget, Goto
  <2>2. CASE Kill(s)
    BY <2>2 DEF Kill, Goto
  <2>3. CASE KillFails(s)
    BY <2>3 DEF KillFails, Say, Idle
  <2>4. CASE Gone(s)
    BY <2>4 DEF Gone, Alive, Goto
  <2>5. CASE GiveUp(s)
    BY <2>5 DEF GiveUp, Say, Idle
  <2>6. CASE RemovePidFile(s)
    BY <2>6 DEF RemovePidFile, Say, Idle
  <2>7. CASE Clean(s)
    BY <2>7 DEF Clean, Goto
  <2> QED
    BY <1>9, <2>1, <2>2, <2>3, <2>4, <2>5, <2>6, <2>7 DEF Stop
<1> QED
  BY <1>6, <1>7, <1>8, <1>9 DEF ScriptStep

LEMMA ServerUndisturbed ==
  ASSUME ProcessInv, Undisturbed, NEW p \in Pid, ServerStep(p) \/ Crash(p) \/ LaunchOther(p)
  PROVE  Undisturbed' /\ UNCHANGED step
<1> USE DEF ServerStep, LoadConfig, Bind, BindFails, Terminate, Crash, End, LaunchOther, Launch
<1>1. UNCHANGED <<file, pidFile, step, pid, report>>
  BY DEF files
<1>2. Daemons' \subseteq Daemons
  BY DEF Daemons, ProcessInv, LauncherTypeOK
<1>3. \A q \in Pid : loaded'[q] \in {loaded[q], file, NoSecret}
  BY DEF ProcessInv, LauncherTypeOK
<1>4. \A q \in Pid : Server(q)' => Server(q)
  BY DEF Server, ProcessInv, LauncherTypeOK
<1>5. SecretInv'
  BY <1>1, <1>3, <1>4 DEF Undisturbed, SecretInv
<1>6. DaemonInv'
  BY <1>1, <1>2 DEF Undisturbed, DaemonInv, JustLaunched, At
<1>7. \A s \in Script : ConfigInv(s)' /\ LookInv(s)'
  BY <1>1, <1>2 DEF Undisturbed, ConfigInv, LookInv, JustLaunched, At
<1> QED
  BY <1>1, <1>5, <1>6, <1>7 DEF Undisturbed

LEMMA StepAlone ==
  ASSUME ProcessInv, AloneInv, [LauncherNext /\ Remember]_<<launcherVars, alone>>
  PROVE  AloneInv'
<1>1. CASE UNCHANGED <<launcherVars, alone>>
  <2>1. UNCHANGED <<file, pidFile, process, loaded, step, pid, report, alone>>
    BY <1>1 DEF launcherVars
  <2> QED
    BY <2>1 DEF AloneInv, OneBusy, Busy, Undisturbed, ConfigInv, LookInv, JustLaunched, SecretInv, DaemonInv,
       Daemons, Server, At
<1>2. CASE LauncherNext /\ Remember
  <2>1. alone \in BOOLEAN
    BY DEF AloneInv
  <2>2. alone' \in BOOLEAN /\ (alone' => alone /\ Cardinality(Busy') <= 1)
    BY <1>2, <2>1 DEF Remember
  <2>3. SUFFICES ASSUME alone' PROVE OneBusy' /\ Undisturbed'
    BY <2>2 DEF AloneInv
  <2>4. OneBusy /\ Undisturbed
    BY <2>2, <2>3 DEF AloneInv
  <2>5. OneBusy'
    <3>1. Busy' \in SUBSET Script
      BY DEF Busy
    <3> QED
      BY <2>2, <2>3, <3>1, BusyOne DEF OneBusy
  <2>6. ASSUME NEW s \in Script, ScriptStep(s) PROVE Undisturbed'
    BY <2>4, <2>5, <2>6, ScriptUndisturbed
  <2>7. ASSUME NEW p \in Pid, ServerStep(p) \/ Crash(p) \/ LaunchOther(p) PROVE Undisturbed'
    BY <2>4, <2>7, ServerUndisturbed
  <2> QED
    BY <1>2, <2>5, <2>6, <2>7 DEF LauncherNext, ScriptStep
<1> QED
  BY <1>1, <1>2

LEMMA AloneInvariant == AloneSpec => [](ProcessInv /\ AloneInv)
<1>1. AloneInit => ProcessInv /\ AloneInv
  BY InitAlone, InitProcesses DEF AloneInit
<1>2. ProcessInv /\ AloneInv /\ [LauncherNext /\ Remember]_<<launcherVars, alone>> => (ProcessInv /\ AloneInv)'
  <2>1. [LauncherNext /\ Remember]_<<launcherVars, alone>> => [LauncherNext]_launcherVars
    OBVIOUS
  <2> QED
    BY <2>1, StepAlone, StepProcesses
<1> QED
  BY <1>1, <1>2, PTL DEF AloneSpec

\* A background server that listens while nothing runs and nothing ends is the
\* one the PID file names, if no two scripts ever overlapped (start.sh:179-197).
THEOREM DaemonsAreFound == AloneSpec => []DaemonFound
<1>1. AloneInv => DaemonFound
  BY DEF AloneInv, Undisturbed, DaemonInv, DaemonFound, JustLaunched, At, Busy, Idle
<1> QED
  BY <1>1, AloneInvariant, PTL

\* When a script has said that AuthNode is stopped or not running there is no
\* background server, if no two scripts ever overlapped (start.sh:199-240).
THEOREM StopsStop == AloneSpec => []StopStops
<1>1. AloneInv => StopStops
  BY DEF AloneInv, Undisturbed, DaemonInv, StopStops, JustLaunched, At, Busy, Idle
<1> QED
  BY <1>1, AloneInvariant, PTL

\* Every server has the secret that is in the file, if no two scripts ever
\* overlapped (start.sh:62-103).
THEOREM SecretsAgree == AloneSpec => []SecretAgreement
<1>1. AloneInv => SecretAgreement
  BY DEF AloneInv, Undisturbed, SecretInv, SecretAgreement
<1> QED
  BY <1>1, AloneInvariant, PTL

=============================================================================
